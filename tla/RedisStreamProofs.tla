------------------------- MODULE RedisStreamProofs -------------------------
(***************************************************************************)
(* Safety of the stream queue, proved for any number of messages, groups   *)
(* and consumers, any size of a read, any number of attempts, crashes and  *)
(* lost groups: what a group's handler is called with, what is left in the *)
(* stream, and what may be deleted.                                        *)
(***************************************************************************)
EXTENDS RedisStream, FiniteSetTheorems, TLAPS

-----------------------------------------------------------------------------
(* The order of the entries in an answer *)

Rank(S, i) == Cardinality({k \in S : k <= i})

LEMMA IdsFinite ==
  ASSUME NEW S \in SUBSET EntryIds
  PROVE  IsFiniteSet(S) /\ Cardinality(S) \in Nat
<1>1. IsFiniteSet(EntryIds)
  BY FS_Interval, StreamAssumption DEF EntryIds
<1> QED BY <1>1, FS_Subset, FS_CardinalityType

LEMMA RankBounds ==
  ASSUME NEW S \in SUBSET EntryIds, NEW i \in S
  PROVE  Rank(S, i) \in 1..Cardinality(S)
<1> DEFINE L == {k \in S : k <= i}
<1>0. i \in Int
  BY DEF EntryIds
<1>1. L \in SUBSET S /\ L \in SUBSET EntryIds /\ i \in L
  <2>1. L \subseteq S
    OBVIOUS
  <2>2. i \in L
    BY <1>0
  <2> HIDE DEF L
  <2> QED BY <2>1, <2>2
<1>2. IsFiniteSet(L) /\ Cardinality(L) \in Nat /\ Cardinality(L) <= Cardinality(S)
  BY <1>1, IdsFinite, FS_Subset
<1>3. Cardinality(L) # 0
  BY <1>1, <1>2, FS_EmptySet
<1> HIDE DEF L
<1>4. Cardinality(L) \in 1..Cardinality(S)
  BY <1>2, <1>3, IdsFinite
<1> QED BY <1>4 DEF L, Rank

\* A later entry has a higher rank.
LEMMA RankGrows ==
  ASSUME NEW S \in SUBSET EntryIds, NEW i \in S, NEW j \in S, i < j
  PROVE  Rank(S, i) < Rank(S, j)
<1> DEFINE L == {k \in S : k <= i}
           M == {k \in S : k <= j}
<1>0. /\ i \in Int /\ j \in Int /\ \A k \in S : k \in Int
  BY DEF EntryIds
<1>1. L \in SUBSET M /\ M \in SUBSET EntryIds /\ j \in M /\ j \notin L
  <2>1. L \subseteq M /\ M \subseteq S
    <3>1. \A k \in S : k <= i => k <= j
      BY <1>0
    <3> QED BY <3>1
  <2>2. j \in M /\ j \notin L
    BY <1>0
  <2> HIDE DEF L, M
  <2> QED BY <2>1, <2>2
<1>2. IsFiniteSet(M) /\ Cardinality(M) \in Nat
  BY <1>1, IdsFinite
<1>3. IsFiniteSet(L) /\ Cardinality(L) <= Cardinality(M) /\ Cardinality(L) # Cardinality(M)
  BY <1>1, <1>2, FS_Subset
<1>4. Cardinality(L) \in Nat
  BY <1>3, FS_CardinalityType
<1> HIDE DEF L, M
<1>5. Cardinality(L) < Cardinality(M)
  BY <1>2, <1>3, <1>4
<1> QED BY <1>5 DEF L, M, Rank

\* Every place in the order is some entry's.
LEMMA RankOnto ==
  ASSUME NEW S \in SUBSET EntryIds, NEW n \in 1..Cardinality(S)
  PROVE  \E i \in S : Rank(S, i) = n
<1> DEFINE T == 1..Cardinality(S)
           f == [i \in S |-> Rank(S, i)]
<1>1. f \in [S -> T]
  BY RankBounds
<1>2. \A i, j \in S : f[i] = f[j] => i = j
  <2> SUFFICES ASSUME NEW i \in S, NEW j \in S, i # j PROVE Rank(S, i) # Rank(S, j)
    OBVIOUS
  <2>1. i < j \/ j < i
    BY DEF EntryIds
  <2>2. Rank(S, i) \in Int /\ Rank(S, j) \in Int
    BY RankBounds
  <2> QED BY <2>1, <2>2, RankGrows
<1>3. f \in Injection(S, T)
  BY <1>1, <1>2 DEF Injection, IsInjective
<1>4. IsFiniteSet(T) /\ Cardinality(T) = Cardinality(S)
  <2>1. Cardinality(S) \in Nat
    BY IdsFinite
  <2> HIDE DEF T
  <2>2. Cardinality(T) = IF 1 > Cardinality(S) THEN 0 ELSE Cardinality(S) - 1 + 1
    BY SMTT(30), <2>1, FS_Interval DEF T
  <2>3. IsFiniteSet(T)
    BY <2>1, FS_Interval DEF T
  <2> QED BY <2>1, <2>2, <2>3
<1>5. f \in Surjection(S, T)
  BY <1>3, <1>4, FS_Injection
<1>6. \E i \in S : f[i] = n
  BY <1>5 DEF Surjection
<1> QED BY <1>6

\* An answer lists the entries once each.
LEMMA InOrderLists ==
  ASSUME NEW S \in SUBSET EntryIds
  PROVE  /\ InOrder(S) \in Seq(EntryIds)
         /\ Len(InOrder(S)) = Cardinality(S)
         /\ \A n \in 1..Cardinality(S) : InOrder(S)[n] \in S
         /\ \A m, n \in 1..Cardinality(S) : InOrder(S)[m] = InOrder(S)[n] => m = n
<1> DEFINE q == InOrder(S)
<1>1. Cardinality(S) \in Nat
  BY IdsFinite
<1>2. ASSUME NEW n \in 1..Cardinality(S)
      PROVE  q[n] \in S /\ Rank(S, q[n]) = n
  <2>1. \E i \in S : Rank(S, i) = n
    BY RankOnto
  <2>2. q[n] = CHOOSE i \in S : Rank(S, i) = n
    BY DEF InOrder, Rank
  <2> QED BY <2>1, <2>2
<1>3. q = [n \in 1..Cardinality(S) |-> q[n]]
  BY DEF InOrder
<1>4. q \in [1..Cardinality(S) -> EntryIds]
  BY <1>2, <1>3
<1>5. q \in Seq(EntryIds) /\ Len(q) = Cardinality(S)
  BY <1>1, <1>4
<1> QED BY <1>2, <1>5

\* The first entries that are asked for, and the last of them.
LEMMA FirstOnes ==
  ASSUME NEW S \in SUBSET EntryIds
  PROVE  /\ FirstOf(S) \in SUBSET S
         /\ \A i \in FirstOf(S), k \in S : k <= i => k \in FirstOf(S)
<1>1. ASSUME NEW i \in FirstOf(S), NEW k \in S, k <= i PROVE k \in FirstOf(S)
  <2>1. i \in S /\ Rank(S, i) <= Count
    BY DEF FirstOf, Rank
  <2>2. Rank(S, k) <= Rank(S, i) /\ Rank(S, k) \in Int /\ Rank(S, i) \in Int
    <3>1. k = i \/ k < i
      BY <1>1, <2>1 DEF EntryIds
    <3>2. Rank(S, k) \in Int /\ Rank(S, i) \in Int
      BY <2>1, RankBounds
    <3>3. k < i => Rank(S, k) < Rank(S, i)
      BY <2>1, RankGrows
    <3> QED BY <3>1, <3>2, <3>3
  <2>3. Rank(S, k) <= Count
    BY <2>1, <2>2, StreamAssumption
  <2> QED BY <2>3 DEF FirstOf, Rank
<1> QED BY <1>1 DEF FirstOf

LEMMA LastOne ==
  ASSUME NEW S \in SUBSET EntryIds, S # {}
  PROVE  \E i \in S : \A k \in S : k <= i
<1>1. Cardinality(S) \in Nat /\ Cardinality(S) # 0
  BY IdsFinite, FS_EmptySet
<1>2. PICK i \in S : Rank(S, i) = Cardinality(S)
  BY <1>1, RankOnto
<1>3. \A k \in S : k <= i
  <2> SUFFICES ASSUME NEW k \in S, i < k PROVE FALSE
    BY DEF EntryIds
  <2>1. Rank(S, i) < Rank(S, k) /\ Rank(S, k) \in 1..Cardinality(S)
    BY RankGrows, RankBounds
  <2> QED BY <1>1, <1>2, <2>1
<1> QED BY <1>3

-----------------------------------------------------------------------------
(* Batches and types *)

Rng(q) == {q[n] : n \in 1..Len(q)}
NoRepeat(q) == \A m, n \in 1..Len(q) : q[m] = q[n] => m = n

LEMMA HeadAndTail ==
  ASSUME NEW q \in Seq(EntryIds), q # <<>>, NoRepeat(q)
  PROVE  /\ Head(q) \in EntryIds /\ Head(q) \in Rng(q)
         /\ Tail(q) \in Seq(EntryIds) /\ Len(Tail(q)) = Len(q) - 1
         /\ NoRepeat(Tail(q))
         /\ Rng(Tail(q)) = Rng(q) \ {Head(q)}
<1>1. /\ Len(q) \in Nat /\ Len(q) > 0 /\ Head(q) = q[1] /\ Head(q) \in EntryIds
      /\ Tail(q) \in Seq(EntryIds) /\ Len(Tail(q)) = Len(q) - 1
      /\ \A n \in 1..(Len(q) - 1) : Tail(q)[n] = q[n + 1]
  OBVIOUS
<1>2. NoRepeat(Tail(q))
  <2> SUFFICES ASSUME NEW m \in 1..(Len(q) - 1), NEW n \in 1..(Len(q) - 1),
                      q[m + 1] = q[n + 1]
               PROVE  m = n
    BY <1>1 DEF NoRepeat
  <2>1. m + 1 \in 1..Len(q) /\ n + 1 \in 1..Len(q)
    BY <1>1
  <2>2. m + 1 = n + 1
    BY <2>1 DEF NoRepeat
  <2> QED BY <2>2
<1>3. Rng(Tail(q)) \subseteq Rng(q) \ {Head(q)}
  <2> SUFFICES ASSUME NEW n \in 1..(Len(q) - 1) PROVE q[n + 1] \in Rng(q) /\ q[n + 1] # q[1]
    BY <1>1 DEF Rng
  <2>1. n + 1 \in 1..Len(q) /\ 1 \in 1..Len(q) /\ n + 1 # 1
    BY <1>1
  <2> QED BY <2>1 DEF Rng, NoRepeat
<1>4. Rng(q) \ {Head(q)} \subseteq Rng(Tail(q))
  <2> SUFFICES ASSUME NEW n \in 1..Len(q), q[n] # q[1] PROVE q[n] \in Rng(Tail(q))
    BY <1>1 DEF Rng
  <2>1. n - 1 \in 1..(Len(q) - 1) /\ (n - 1) + 1 = n
    BY <1>1
  <2>2. Tail(q)[n - 1] = q[n]
    BY <1>1, <2>1
  <2> QED BY <1>1, <2>1, <2>2 DEF Rng
<1>5. Head(q) \in Rng(q)
  BY <1>1 DEF Rng
<1> QED BY <1>1, <1>2, <1>3, <1>4, <1>5

Busy == {"handle", "ack", "del"}

\* A consumer has a batch as long as it processes it, and no entry twice; before Sub
\* is called it does nothing.
BatchesFit ==
    \A c \in Consumers :
        /\ cpc[c] \in Busy <=> batch[c] # <<>>
        /\ NoRepeat(batch[c])
        /\ sub[c[1]] = "off" => cpc[c] = "off"

LossesCounted == \A g \in Groups : losses[g] <= mishaps

\* The state is well typed, which rests on what consumers have in their hands.
TypeInv == TypeOK /\ BatchesFit /\ LossesCounted

LEMMA TypeInit == Init => TypeInv
<1> SUFFICES ASSUME Init PROVE TypeInv
  OBVIOUS
<1>1. entries \in Seq(Msgs) /\ Len(entries) = 0 /\ present \subseteq 1..Len(entries)
  BY DEF Init
<1>2. /\ last \in [Groups -> NoGroup..Len(entries)] /\ pel \in [Groups -> SUBSET EntryIds]
      /\ \A g \in Groups : pel[g] \subseteq 1..last[g]
  BY <1>1 DEF Init, NoGroup
<1>3. /\ ppc \in [Msgs -> {"new", "add", "ok", "error", "lost"}]
      /\ tries \in [Msgs -> 0..(PubAttempts - 1)]
      /\ sub \in [Groups -> {"off", "waiting", "returned"}]
  BY StreamAssumption DEF Init
<1>4. /\ cpc \in [Consumers -> {"off", "read", "recreate", "handle", "ack", "del", "returned"}]
      /\ closed \in BOOLEAN
  BY DEF Init
<1>5. batch \in [Consumers -> Seq(EntryIds)] /\ BatchesFit
  BY DEF Init, BatchesFit, NoRepeat, Busy
<1>6. /\ done \in [Groups -> SUBSET EntryIds] /\ trimmed \subseteq EntryIds
      /\ losses \in [Groups -> 0..MaxMishaps] /\ mishaps \in 0..MaxMishaps /\ LossesCounted
  BY StreamAssumption DEF Init, LossesCounted
<1>7. calls \in [Groups -> [EntryIds -> Nat]]
  BY DEF Init
<1> QED BY <1>1, <1>2, <1>3, <1>4, <1>5, <1>6, <1>7, StreamAssumption DEF TypeInv, TypeOK

\* What a delivery does to its group.
LEMMA DeliveryFacts ==
  ASSUME TypeOK, NEW g \in Groups, Deliver(g, FirstOf(New(g)))
  PROVE  /\ FirstOf(New(g)) \in SUBSET EntryIds /\ FirstOf(New(g)) # {}
         /\ \A i \in FirstOf(New(g)) : i \in present /\ i > last[g] /\ i <= last'[g]
         /\ \A i \in present : i > last[g] /\ i <= last'[g] => i \in FirstOf(New(g))
         /\ last'[g] \in 1..Len(entries) /\ last'[g] > last[g]
         /\ pel'[g] = pel[g] \cup FirstOf(New(g))
         /\ \A h \in Groups \ {g} : last'[h] = last[h] /\ pel'[h] = pel[h]
<1> DEFINE S == FirstOf(New(g))
<1>1. /\ New(g) \in SUBSET EntryIds /\ \A i \in New(g) : i \in present /\ i > last[g]
      /\ \A i \in present : i > last[g] => i \in New(g)
      /\ present \subseteq 1..Len(entries)
  <2>1. Len(entries) \in Nat /\ Len(entries) <= MaxEntries /\ present \subseteq 1..Len(entries)
    BY DEF TypeOK
  <2>2. present \subseteq EntryIds
    BY <2>1, StreamAssumption DEF EntryIds
  <2> QED BY <2>1, <2>2 DEF New
<1>2. S \in SUBSET New(g) /\ \A i \in S, k \in New(g) : k <= i => k \in S
  BY <1>1, FirstOnes
<1>3. /\ S # {} /\ last' = [last EXCEPT ![g] = CHOOSE i \in S : \A k \in S : k <= i]
      /\ pel' = [pel EXCEPT ![g] = @ \cup S]
  BY DEF Deliver
<1> HIDE DEF S
<1>4. \E i \in S : \A k \in S : k <= i
  BY <1>1, <1>2, <1>3, LastOne
<1>5. /\ last'[g] \in S /\ \A k \in S : k <= last'[g]
      /\ pel'[g] = pel[g] \cup S
      /\ \A h \in Groups \ {g} : last'[h] = last[h] /\ pel'[h] = pel[h]
  BY <1>3, <1>4 DEF TypeOK
<1>6. last'[g] \in New(g)
  BY <1>2, <1>5
<1> QED BY <1>1, <1>2, <1>3, <1>5, <1>6 DEF S

LEMMA TypeDeliver ==
  ASSUME TypeOK, NEW g \in Groups, Deliver(g, FirstOf(New(g)))
  PROVE  /\ last' \in [Groups -> NoGroup..Len(entries)]
         /\ pel' \in [Groups -> SUBSET EntryIds]
         /\ \A h \in Groups : pel'[h] \subseteq 1..last'[h]
<1>1. last' = [last EXCEPT ![g] = last'[g]] /\ pel' = [pel EXCEPT ![g] = pel'[g]]
  BY DEF Deliver, TypeOK
<1>2. last'[g] \in NoGroup..Len(entries) /\ last'[g] \in Int /\ last[g] \in Int
  BY SMTT(30), DeliveryFacts DEF NoGroup, TypeOK
<1>3. pel'[g] \in SUBSET EntryIds
  BY DeliveryFacts DEF TypeOK
<1>4. last' \in [Groups -> NoGroup..Len(entries)] /\ pel' \in [Groups -> SUBSET EntryIds]
  BY <1>1, <1>2, <1>3 DEF TypeOK
<1>5. pel'[g] \subseteq 1..last'[g]
  <2> SUFFICES ASSUME NEW i \in pel[g] \cup FirstOf(New(g)) PROVE i \in 1..last'[g]
    BY DeliveryFacts
  <2>1. i \in EntryIds /\ last'[g] > last[g]
    BY DeliveryFacts DEF TypeOK
  <2>2. CASE i \in pel[g]
    BY <1>2, <2>1, <2>2 DEF TypeOK, EntryIds
  <2>3. CASE i \in FirstOf(New(g))
    BY <1>2, <2>1, <2>3, DeliveryFacts DEF EntryIds
  <2> QED BY <2>2, <2>3
<1>6. \A h \in Groups \ {g} : pel'[h] \subseteq 1..last'[h]
  BY DeliveryFacts DEF TypeOK
<1> QED BY <1>4, <1>5, <1>6

\* The type invariant in parts that the steps leave alone or change.
StreamTypes ==
    entries \in Seq(Msgs) /\ Len(entries) <= MaxEntries /\ present \subseteq 1..Len(entries)
GroupTypes ==
    /\ last \in [Groups -> NoGroup..Len(entries)]
    /\ pel \in [Groups -> SUBSET EntryIds] /\ \A g \in Groups : pel[g] \subseteq 1..last[g]
PubTypes ==
    /\ ppc \in [Msgs -> {"new", "add", "ok", "error", "lost"}]
    /\ tries \in [Msgs -> 0..(PubAttempts - 1)]
SubTypes ==
    /\ sub \in [Groups -> {"off", "waiting", "returned"}]
    /\ cpc \in [Consumers -> {"off", "read", "recreate", "handle", "ack", "del", "returned"}]
    /\ batch \in [Consumers -> Seq(EntryIds)]
    /\ BatchesFit
HistTypes ==
    /\ calls \in [Groups -> [EntryIds -> Nat]]
    /\ done \in [Groups -> SUBSET EntryIds]
    /\ trimmed \subseteq EntryIds
    /\ losses \in [Groups -> 0..MaxMishaps]
    /\ mishaps \in 0..MaxMishaps
    /\ LossesCounted

LEMMA TypeParts ==
  TypeInv <=> StreamTypes /\ GroupTypes /\ PubTypes /\ SubTypes /\ HistTypes /\ closed \in BOOLEAN
  BY DEF TypeInv, TypeOK, StreamTypes, GroupTypes, PubTypes, SubTypes, HistTypes

LEMMA TypePartsNext ==
  TypeInv' <=> (StreamTypes /\ GroupTypes /\ PubTypes /\ SubTypes /\ HistTypes /\ closed \in BOOLEAN)'
  BY TypeParts, PTL

LEMMA SameParts ==
  ASSUME TypeInv
  PROVE  /\ UNCHANGED streamVars => StreamTypes'
         /\ UNCHANGED <<streamVars, groupVars>> => GroupTypes'
         /\ UNCHANGED pubVars => PubTypes'
         /\ UNCHANGED subVars => SubTypes'
         /\ UNCHANGED histVars => HistTypes'
         /\ UNCHANGED closed => closed' \in BOOLEAN
<1> USE TypeParts
<1>1. /\ UNCHANGED streamVars => StreamTypes'
      /\ UNCHANGED <<streamVars, groupVars>> => GroupTypes'
      /\ UNCHANGED closed => closed' \in BOOLEAN
  BY DEF StreamTypes, GroupTypes, streamVars, groupVars
<1>2. /\ UNCHANGED pubVars => PubTypes'
      /\ UNCHANGED subVars => SubTypes'
  BY DEF PubTypes, SubTypes, BatchesFit, pubVars, subVars
<1>3. UNCHANGED histVars => HistTypes'
  BY DEF HistTypes, LossesCounted, histVars
<1> QED BY <1>1, <1>2, <1>3

\* XADD
LEMMA TypeAppend ==
  ASSUME TypeInv, NEW m \in Msgs, Append1(m)
  PROVE  StreamTypes' /\ (UNCHANGED groupVars => GroupTypes')
<1>1. /\ entries \in Seq(Msgs) /\ Len(entries) < MaxEntries /\ present \subseteq 1..Len(entries)
      /\ entries' = Append(entries, m) /\ present' = present \cup {Len(entries) + 1}
  BY DEF Append1, TypeInv, TypeOK
<1>2. entries' \in Seq(Msgs) /\ Len(entries') = Len(entries) + 1 /\ Len(entries) \in Nat
  BY <1>1
<1>3. StreamTypes'
  <2>1. Len(entries') <= MaxEntries
    BY <1>1, <1>2, StreamAssumption
  <2>2. \A i \in present : i \in 1..Len(entries')
    BY <1>1, <1>2
  <2>3. Len(entries) + 1 \in 1..Len(entries')
    BY <1>2
  <2>4. present' \subseteq 1..Len(entries')
    BY <1>1, <2>2, <2>3
  <2> QED BY <1>2, <2>1, <2>4 DEF StreamTypes
<1>4. ASSUME UNCHANGED groupVars PROVE GroupTypes'
  BY <1>2, <1>4 DEF groupVars, GroupTypes, TypeInv, TypeOK, NoGroup
<1> QED BY <1>3, <1>4

LEMMA TypePub ==
  ASSUME TypeInv, NEW m \in Msgs, PubBegin(m) \/ PubAdd(m) \/ PubAddRepeated(m)
  PROVE  TypeInv'
<1>1. UNCHANGED <<groupVars, subVars, closed, histVars>>
  BY DEF PubBegin, PubAdd, PubAddRepeated
<1>2. Append1(m) \/ UNCHANGED streamVars
  BY DEF PubBegin, PubAdd, PubAddRepeated
<1>3. StreamTypes' /\ GroupTypes'
  BY <1>1, <1>2, TypeAppend, SameParts
<1>4. PubTypes'
  <2>1. ppc' \in [Msgs -> {"new", "add", "ok", "error", "lost"}]
    BY DEF PubBegin, PubAdd, PubAddRepeated, pubVars, TypeInv, TypeOK
  <2>2. \/ tries' = tries
        \/ tries[m] # PubAttempts - 1 /\ tries' = [tries EXCEPT ![m] = @ + 1]
    BY DEF PubBegin, PubAdd, PubAddRepeated, LastAttempt, pubVars
  <2>3. tries' \in [Msgs -> 0..(PubAttempts - 1)]
    <3>1. tries \in [Msgs -> 0..(PubAttempts - 1)] /\ PubAttempts \in Nat
      BY StreamAssumption DEF TypeInv, TypeOK
    <3>2. tries[m] # PubAttempts - 1 => tries[m] + 1 \in 0..(PubAttempts - 1)
      BY <3>1
    <3> QED BY <2>2, <3>1, <3>2
  <2> QED BY <2>1, <2>3 DEF PubTypes
<1> QED BY <1>1, <1>3, <1>4, SameParts, TypePartsNext

\* XGROUP CREATE
LEMMA TypeCreateGroup ==
  ASSUME TypeInv, NEW g \in Groups, NEW o, CreateGroup(g, o), UNCHANGED <<streamVars, pel>>
  PROVE  GroupTypes'
<1>1. CASE last' = last
  BY <1>1, SameParts DEF groupVars
<1>2. CASE last[g] = NoGroup /\ last' = [last EXCEPT ![g] = 0]
  <2>1. pel[g] = {}
    BY <1>2 DEF TypeInv, TypeOK, NoGroup
  <2> QED BY <1>2, <2>1 DEF GroupTypes, TypeInv, TypeOK, NoGroup, streamVars
<1> QED BY <1>1, <1>2 DEF CreateGroup, FromTheStart

LEMMA TypeSub ==
  ASSUME TypeInv, NEW g \in Groups, Subscribe(g) \/ SubReturns(g)
  PROVE  TypeInv'
<1>1. CASE Subscribe(g)
  <2>1. GroupTypes'
    BY <1>1, TypeCreateGroup DEF Subscribe
  <2>2. /\ sub' \in [Groups -> {"off", "waiting", "returned"}]
        /\ cpc' \in [Consumers -> {"off", "read", "recreate", "handle", "ack", "del", "returned"}]
    BY <1>1 DEF Subscribe, TypeInv, TypeOK
  <2>3. BatchesFit'
    <3> SUFFICES ASSUME NEW c \in Consumers
                 PROVE  /\ cpc'[c] \in Busy <=> batch[c] # <<>>
                        /\ sub'[c[1]] = "off" => cpc'[c] = "off"
      BY <1>1 DEF Subscribe, TypeInv, BatchesFit
    <3>1. c[1] \in Groups
      BY DEF Consumers
    <3>2. CASE c[1] = g
      <4>1. cpc'[c] = "read" /\ sub'[g] # "off" /\ cpc[c] = "off"
        BY <1>1, <3>1, <3>2 DEF Subscribe, TypeInv, TypeOK, BatchesFit
      <4> QED BY <3>2, <4>1 DEF TypeInv, BatchesFit, Busy
    <3>3. CASE c[1] # g
      <4>1. cpc'[c] = cpc[c] /\ sub'[c[1]] = sub[c[1]]
        BY <1>1, <3>1, <3>3 DEF Subscribe, TypeInv, TypeOK
      <4> QED BY <4>1 DEF TypeInv, BatchesFit
    <3> QED BY <3>2, <3>3
  <2>4. SubTypes'
    BY <1>1, <2>2, <2>3 DEF Subscribe, SubTypes, TypeInv, TypeOK
  <2>5. UNCHANGED <<streamVars, pubVars, closed, histVars>>
    BY <1>1 DEF Subscribe
  <2> QED BY <2>1, <2>4, <2>5, SameParts, TypePartsNext
<1>2. CASE SubReturns(g)
  <2>1. SubTypes'
    BY <1>2 DEF SubReturns, SubTypes, BatchesFit, TypeInv, TypeOK, Consumers
  <2> QED BY <1>2, <2>1, SameParts, TypePartsNext DEF SubReturns
<1> QED BY <1>1, <1>2

\* A step that moves one consumer's control, and its batch with it.
LEMMA TypeConsumer ==
  ASSUME TypeInv, NEW c \in Consumers, cpc[c] # "off", UNCHANGED sub,
         NEW q \in {"read", "recreate", "handle", "ack", "del", "returned"},
         NEW b \in Seq(EntryIds), NoRepeat(b), q \in Busy <=> b # <<>>,
         cpc' = [cpc EXCEPT ![c] = q], batch' = [batch EXCEPT ![c] = b]
  PROVE  SubTypes'
<1>1. /\ cpc' \in [Consumers -> {"off", "read", "recreate", "handle", "ack", "del", "returned"}]
      /\ batch' \in [Consumers -> Seq(EntryIds)]
  BY DEF TypeInv, TypeOK
<1>2. BatchesFit'
  BY DEF TypeInv, TypeOK, BatchesFit
<1> QED BY <1>1, <1>2 DEF SubTypes, TypeInv, TypeOK

LEMMA EmptyBatch == <<>> \in Seq(EntryIds) /\ NoRepeat(<<>>) /\ Rng(<<>>) = {}
  BY DEF NoRepeat, Rng

LEMMA TypeRead ==
  ASSUME TypeInv, NEW c \in Consumers, Read(c)
  PROVE  TypeInv'
<1> DEFINE g == c[1]
           S == FirstOf(New(g))
<1>1. g \in Groups /\ cpc[c] = "read" /\ batch[c] = <<>> /\ NoRepeat(batch[c])
      /\ UNCHANGED <<streamVars, pubVars, sub, closed, histVars>>
  BY DEF Read, Consumers, TypeInv, BatchesFit, Busy
<1>2. CASE UNCHANGED <<groupVars, batch>> /\ \E q \in {"recreate", "returned"} : cpc' = [cpc EXCEPT ![c] = q]
  <2>1. batch' = [batch EXCEPT ![c] = <<>>]
    BY <1>1, <1>2 DEF TypeInv, TypeOK
  <2>2. PICK q \in {"recreate", "returned"} : cpc' = [cpc EXCEPT ![c] = q]
    BY <1>2
  <2>3. q \notin Busy
    BY DEF Busy
  <2>4. SubTypes'
    BY <1>1, <2>1, <2>2, <2>3, EmptyBatch, TypeConsumer
  <2> QED BY <1>1, <1>2, <2>4, SameParts, TypePartsNext
<1>3. CASE Deliver(g, S) /\ batch' = [batch EXCEPT ![c] = InOrder(S)] /\ cpc' = [cpc EXCEPT ![c] = "handle"]
  <2>1. GroupTypes'
    BY <1>1, <1>3, TypeDeliver DEF GroupTypes, TypeInv, streamVars
  <2>2. S \in SUBSET EntryIds /\ S # {}
    BY <1>1, <1>3, DeliveryFacts DEF TypeInv
  <2> HIDE DEF S
  <2>3. Cardinality(S) \in Nat /\ Cardinality(S) # 0
    BY <2>2, IdsFinite, FS_EmptySet
  <2>4. InOrder(S) \in Seq(EntryIds) /\ InOrder(S) # <<>> /\ NoRepeat(InOrder(S))
    BY <2>2, <2>3, InOrderLists DEF NoRepeat
  <2>5. SubTypes'
    BY <1>1, <1>3, <2>4, TypeConsumer DEF Busy
  <2> QED BY <1>1, <2>1, <2>5, SameParts, TypePartsNext
<1>4. CASE Deliver(g, S) /\ UNCHANGED batch /\ cpc' = [cpc EXCEPT ![c] = "returned"]
  <2>1. GroupTypes'
    BY <1>1, <1>4, TypeDeliver DEF GroupTypes, TypeInv, streamVars
  <2>2. batch' = [batch EXCEPT ![c] = <<>>]
    BY <1>1, <1>4 DEF TypeInv, TypeOK
  <2>3. SubTypes'
    BY <1>1, <1>4, <2>2, EmptyBatch, TypeConsumer DEF Busy
  <2> QED BY <1>1, <2>1, <2>3, SameParts, TypePartsNext
<1> QED BY <1>2, <1>3, <1>4 DEF Read

LEMMA TypeReadRepeated ==
  ASSUME TypeInv, NEW c \in Consumers, ReadRepeated(c)
  PROVE  TypeInv'
<1>1. c[1] \in Groups /\ TypeOK
  BY DEF Consumers, TypeInv
<1>2. GroupTypes'
  BY <1>1, TypeDeliver DEF ReadRepeated, GroupTypes, streamVars
<1> QED BY <1>2, SameParts, TypePartsNext DEF ReadRepeated

LEMMA TypeRecreate ==
  ASSUME TypeInv, NEW c \in Consumers, NEW o \in Outcomes, Recreate(c, o)
  PROVE  TypeInv'
<1>1. c[1] \in Groups /\ cpc[c] = "recreate" /\ batch[c] = <<>>
  BY DEF Recreate, Consumers, TypeInv, BatchesFit, Busy
<1>2. batch' = [batch EXCEPT ![c] = <<>>] /\ cpc' = [cpc EXCEPT ![c] = "read"]
  BY <1>1 DEF Recreate, TypeInv, TypeOK
<1>3. SubTypes'
  BY <1>1, <1>2, EmptyBatch, TypeConsumer DEF Recreate, Busy
<1>4. GroupTypes'
  BY <1>1, TypeCreateGroup DEF Recreate
<1> QED BY <1>3, <1>4, SameParts, TypePartsNext DEF Recreate

\* What a consumer has in its hands while it processes a batch.
LEMMA InHand ==
  ASSUME TypeInv, NEW c \in Consumers, cpc[c] \in Busy
  PROVE  /\ c[1] \in Groups /\ batch[c] \in Seq(EntryIds) /\ batch[c] # <<>>
         /\ NoRepeat(batch[c])
         /\ Head(batch[c]) \in EntryIds /\ Head(batch[c]) \in Rng(batch[c])
         /\ Tail(batch[c]) \in Seq(EntryIds) /\ Len(Tail(batch[c])) = Len(batch[c]) - 1
         /\ NoRepeat(Tail(batch[c]))
         /\ Rng(Tail(batch[c])) = Rng(batch[c]) \ {Head(batch[c])}
<1>1. batch[c] \in Seq(EntryIds) /\ batch[c] # <<>> /\ NoRepeat(batch[c]) /\ c[1] \in Groups
  BY DEF TypeInv, TypeOK, BatchesFit, Consumers
<1> QED BY <1>1, HeadAndTail

LEMMA TypeNextEntry ==
  ASSUME TypeInv, NEW c \in Consumers, cpc[c] \in Busy, UNCHANGED sub, NextEntry(c)
  PROVE  SubTypes'
<1> DEFINE b == Tail(batch[c])
<1>1. b \in Seq(EntryIds) /\ NoRepeat(b) /\ Len(b) = Len(batch[c]) - 1 /\ Len(batch[c]) \in Nat
  BY InHand
<1>2. batch' = [batch EXCEPT ![c] = b]
  BY DEF NextEntry
<1>3. cpc[c] # "off"
  BY DEF Busy
<1> HIDE DEF b
<1>4. CASE Len(batch[c]) > 1
  <2>1. cpc' = [cpc EXCEPT ![c] = "handle"]
    BY <1>4 DEF NextEntry
  <2>2. Len(b) # 0
    BY <1>1, <1>4
  <2>3. b # <<>>
    BY <2>2
  <2> QED BY <1>1, <1>2, <1>3, <2>1, <2>3, TypeConsumer DEF Busy
<1>5. CASE ~(Len(batch[c]) > 1)
  <2>1. cpc' = [cpc EXCEPT ![c] = "read"]
    BY <1>5 DEF NextEntry
  <2>2. batch[c] \in Seq(EntryIds) /\ batch[c] # <<>>
    BY InHand
  <2>3. Len(batch[c]) # 0
    BY <2>2
  <2>4. b = <<>>
    <3>1. Len(batch[c]) \in Nat /\ Len(b) = Len(batch[c]) - 1
      BY <1>1
    <3>. \A n \in Nat : n = 0 \/ n = 1 \/ n > 1
      OBVIOUS
    <3>2. Len(batch[c]) = 1
      BY <1>5, <2>3, <3>1
    <3>3. Len(b) = 0
      BY <3>1, <3>2
    <3> QED BY <1>1, <3>3
  <2> QED BY <1>1, <1>2, <1>3, <2>1, <2>4, TypeConsumer DEF Busy
<1> QED BY <1>4, <1>5

\* On with the same batch.
LEMMA TypeSameBatch ==
  ASSUME TypeInv, NEW c \in Consumers, cpc[c] \in Busy, UNCHANGED <<sub, batch>>,
         NEW q \in Busy, cpc' = [cpc EXCEPT ![c] = q]
  PROVE  SubTypes'
<1>1. batch' = [batch EXCEPT ![c] = batch[c]]
  BY DEF TypeInv, TypeOK
<1>2. batch[c] \in Seq(EntryIds) /\ batch[c] # <<>> /\ NoRepeat(batch[c]) /\ cpc[c] # "off"
  BY InHand DEF Busy
<1>3. q \in {"read", "recreate", "handle", "ack", "del", "returned"}
  BY DEF Busy
<1> QED BY <1>1, <1>2, <1>3, TypeConsumer

LEMMA TypeHandle ==
  ASSUME TypeInv, NEW c \in Consumers, Handle(c)
  PROVE  TypeInv'
<1>1. cpc[c] \in Busy
  BY DEF Handle, Busy
<1>2. c[1] \in Groups /\ Head(batch[c]) \in EntryIds
  BY <1>1, InHand
<1>3. SubTypes'
  <2>1. CASE NextEntry(c)
    BY <1>1, <2>1, TypeNextEntry DEF Handle
  <2>2. CASE UNCHANGED batch /\ cpc' = [cpc EXCEPT ![c] = "ack"]
    BY <1>1, <2>2, TypeSameBatch DEF Handle, Busy
  <2> QED BY <2>1, <2>2 DEF Handle, AfterFailure
<1>4. HistTypes'
  <2>1. calls' \in [Groups -> [EntryIds -> Nat]]
    <3> DEFINE h == [calls[c[1]] EXCEPT ![Head(batch[c])] = @ + 1]
    <3>1. calls \in [Groups -> [EntryIds -> Nat]]
      BY DEF TypeInv, TypeOK
    <3>2. calls' = [calls EXCEPT ![c[1]] = h]
      BY <1>2, <3>1 DEF Handle
    <3>3. calls[c[1]] \in [EntryIds -> Nat]
      BY <1>2, <3>1
    <3>4. h \in [EntryIds -> Nat]
      BY <1>2, <3>3
    <3> HIDE DEF h
    <3> QED BY <1>2, <3>1, <3>2, <3>4
  <2>2. done' \in [Groups -> SUBSET EntryIds]
    <3>1. done \in [Groups -> SUBSET EntryIds]
      BY DEF TypeInv, TypeOK
    <3>2. done' = done \/ done' = [done EXCEPT ![c[1]] = @ \cup {Head(batch[c])}]
      BY DEF Handle
    <3>3. done[c[1]] \cup {Head(batch[c])} \in SUBSET EntryIds
      BY <1>2, <3>1
    <3> QED BY <1>2, <3>1, <3>2, <3>3
  <2> QED BY <2>1, <2>2 DEF Handle, HistTypes, TypeInv, TypeOK, LossesCounted
<1> QED BY <1>3, <1>4, SameParts, TypePartsNext DEF Handle

LEMMA TypeAck ==
  ASSUME TypeInv, NEW c \in Consumers, Ack(c)
  PROVE  TypeInv'
<1>1. cpc[c] \in Busy /\ c[1] \in Groups
  BY DEF Ack, Busy, Consumers
<1>2. SubTypes'
  BY <1>1, TypeSameBatch DEF Ack, Busy
<1>3. GroupTypes'
  BY <1>1 DEF Ack, GroupTypes, TypeInv, TypeOK, streamVars
<1> QED BY <1>2, <1>3, SameParts, TypePartsNext DEF Ack

LEMMA TypeDel ==
  ASSUME TypeInv, NEW c \in Consumers, Del(c)
  PROVE  TypeInv'
<1>1. SubTypes'
  BY TypeNextEntry DEF Del, Busy
<1>2. StreamTypes' /\ GroupTypes'
  BY DEF Del, StreamTypes, GroupTypes, groupVars, TypeInv, TypeOK
<1> QED BY <1>1, <1>2, SameParts, TypePartsNext DEF Del

LEMMA TypeMishaps ==
  ASSUME TypeInv, Close \/ CleanupStream \/ Crash \/ \E g \in Groups : LoseGroup(g)
  PROVE  TypeInv'
<1>1. CASE Close
  BY <1>1, SameParts, TypePartsNext DEF Close
<1>2. CASE CleanupStream
  <2>1. StreamTypes' /\ GroupTypes'
    BY <1>2 DEF CleanupStream, StreamTypes, GroupTypes, groupVars, TypeInv, TypeOK
  <2>2. present \subseteq EntryIds
    <3>1. Len(entries) \in Nat /\ Len(entries) <= MaxEntries /\ present \subseteq 1..Len(entries)
      BY DEF TypeInv, TypeOK
    <3> QED BY <3>1, StreamAssumption DEF EntryIds
  <2>3. HistTypes'
    BY <1>2, <2>2 DEF CleanupStream, HistTypes, LossesCounted, TypeInv, TypeOK
  <2> QED BY <1>2, <2>1, <2>3, SameParts, TypePartsNext DEF CleanupStream
<1>3. CASE Crash
  <2>1. PubTypes'
    BY <1>3 DEF Crash, PubTypes, TypeInv, TypeOK
  <2>2. SubTypes'
    BY <1>3, EmptyBatch DEF Crash, SubTypes, BatchesFit, Busy
  <2>3. HistTypes'
    BY <1>3, StreamAssumption DEF Crash, HistTypes, LossesCounted, TypeInv, TypeOK
  <2> QED BY <1>3, <2>1, <2>2, <2>3, SameParts, TypePartsNext DEF Crash
<1>4. ASSUME NEW g \in Groups, LoseGroup(g) PROVE TypeInv'
  <2>1. GroupTypes'
    BY <1>4 DEF LoseGroup, GroupTypes, streamVars, TypeInv, TypeOK, NoGroup
  <2>2. HistTypes'
    <3>1. /\ mishaps \in 0..MaxMishaps /\ mishaps < MaxMishaps /\ mishaps' = mishaps + 1
          /\ losses \in [Groups -> 0..MaxMishaps] /\ losses' = [losses EXCEPT ![g] = @ + 1]
          /\ losses[g] <= mishaps
      BY <1>4 DEF LoseGroup, TypeInv, TypeOK, LossesCounted
    <3>2. losses[g] + 1 \in 0..MaxMishaps /\ mishaps' \in 0..MaxMishaps
      BY <3>1, StreamAssumption
    <3>3. losses' \in [Groups -> 0..MaxMishaps]
      BY <3>1, <3>2
    <3>4. LossesCounted'
      BY <3>1, StreamAssumption DEF TypeInv, LossesCounted
    <3> QED BY <1>4, <3>2, <3>3, <3>4 DEF LoseGroup, HistTypes, TypeInv, TypeOK
  <2> QED BY <1>4, <2>1, <2>2, SameParts, TypePartsNext DEF LoseGroup
<1> QED BY <1>1, <1>2, <1>3, <1>4

LEMMA TypeStep == TypeInv /\ [Next]_vars => TypeInv'
<1> SUFFICES ASSUME TypeInv, [Next]_vars PROVE TypeInv'
  OBVIOUS
<1>1. CASE UNCHANGED vars
  BY <1>1, SameParts, TypePartsNext DEF vars
<1>2. CASE Next
  BY <1>2, TypePub, TypeSub, TypeRead, TypeReadRepeated, TypeRecreate, TypeHandle, TypeAck,
     TypeDel, TypeMishaps DEF Next, ConsumerStep
<1> QED BY <1>1, <1>2

\* The queue keeps its state well typed: a group knows only entries that were added,
\* and a consumer's batch is one the server may have sent.
THEOREM StreamTypeCorrect == Spec => []TypeOK
<1>1. TypeInv => TypeOK
  BY DEF TypeInv
<1> QED BY <1>1, TypeInit, TypeStep, PTL DEF Spec
-----------------------------------------------------------------------------
(* Calls of the handlers *)

\* The entries of its batch that a consumer still calls the handler with.
ToHandle(c) ==
    CASE cpc[c] = "handle" -> Rng(batch[c])
      [] cpc[c] \in {"ack", "del"} -> Rng(Tail(batch[c]))
      [] OTHER -> {}

\* The consumers that will call the group's handler with the entry.
Awaiting(g, i) == {c \in Consumers : c[1] = g /\ i \in ToHandle(c)}

Undelivered(g, i) == IF last[g] < i THEN 1 ELSE 0

\* The calls a handler got and the ones it can still get: an entry is in one batch at
\* most, and is delivered again only when the group was lost.
Bounded(g, i) ==
    /\ IsFiniteSet(Awaiting(g, i))
    /\ calls[g][i] + Cardinality(Awaiting(g, i)) + Undelivered(g, i) <= 1 + losses[g]

CallsBounded == \A g \in Groups, i \in EntryIds : Bounded(g, i)

\* What a consumer acknowledges and deletes was handled.
HandledWhenAcked ==
    \A c \in Consumers : cpc[c] \in {"ack", "del"} => Head(batch[c]) \in done[c[1]]

StreamInv == TypeInv /\ CallsBounded /\ HandledWhenAcked /\ NothingSkipped /\ DeletedWhenHandled

\* Nothing is added to what consumers have to handle, and the group does not go back.
LEMMA BoundedKept ==
  ASSUME TypeInv, TypeInv', NEW g \in Groups, NEW i \in EntryIds, Bounded(g, i),
         Awaiting(g, i)' \subseteq Awaiting(g, i), calls'[g][i] = calls[g][i],
         \/ last'[g] >= last[g] /\ losses'[g] = losses[g]
         \/ losses'[g] = losses[g] + 1
  PROVE  Bounded(g, i)'
<1>1. /\ IsFiniteSet(Awaiting(g, i)')
      /\ Cardinality(Awaiting(g, i)') \in Nat /\ Cardinality(Awaiting(g, i)) \in Nat
      /\ Cardinality(Awaiting(g, i)') <= Cardinality(Awaiting(g, i))
  BY FS_Subset, FS_CardinalityType DEF Bounded
<1>2. /\ last[g] \in Int /\ last'[g] \in Int /\ i \in Int
      /\ calls[g][i] \in Nat /\ losses[g] \in Nat
  <2>1. last[g] \in Int
    BY DEF TypeInv, TypeOK, NoGroup
  <2>2. last'[g] \in Int
    BY DEF TypeInv, TypeOK, NoGroup
  <2>3. i \in Int
    BY DEF EntryIds
  <2>4. calls[g][i] \in Nat
    BY DEF TypeInv, TypeOK
  <2>5. losses[g] \in Nat
    BY DEF TypeInv, TypeOK
  <2> QED BY <2>1, <2>2, <2>3, <2>4, <2>5
<1>3. /\ Undelivered(g, i) \in {0, 1} /\ Undelivered(g, i)' \in {0, 1}
      /\ last'[g] >= last[g] => Undelivered(g, i)' <= Undelivered(g, i)
  BY <1>2 DEF Undelivered
<1>4. calls[g][i] + Cardinality(Awaiting(g, i)) + Undelivered(g, i) <= 1 + losses[g]
  BY DEF Bounded
<1>5. calls'[g][i] + Cardinality(Awaiting(g, i)') + Undelivered(g, i)' <= 1 + losses'[g]
  BY <1>1, <1>2, <1>3, <1>4
<1> QED BY <1>1, <1>5 DEF Bounded

\* A step of one consumer leaves the others' work alone.
LEMMA OthersKeep ==
  ASSUME TypeInv, NEW c \in Consumers, NEW d \in Consumers, d # c, NEW q, NEW b,
         cpc' = [cpc EXCEPT ![c] = q], batch' = [batch EXCEPT ![c] = b]
  PROVE  ToHandle(d)' = ToHandle(d)
  BY DEF TypeInv, TypeOK, ToHandle

\* The work that is left after an entry.
LEMMA NextEntryWork ==
  ASSUME TypeInv, NEW c \in Consumers, cpc[c] \in Busy, NextEntry(c)
  PROVE  /\ ToHandle(c)' = Rng(Tail(batch[c]))
         /\ \A d \in Consumers : d # c => ToHandle(d)' = ToHandle(d)
         /\ cpc'[c] \in {"handle", "read"}
<1>1. /\ Tail(batch[c]) \in Seq(EntryIds) /\ Len(Tail(batch[c])) = Len(batch[c]) - 1
      /\ Len(batch[c]) \in Nat
  BY InHand
<1>2. /\ cpc'[c] = IF Len(batch[c]) > 1 THEN "handle" ELSE "read"
      /\ batch'[c] = Tail(batch[c])
  BY DEF NextEntry, TypeInv, TypeOK
<1>3. ASSUME Len(batch[c]) > 1 PROVE ToHandle(c)' = Rng(Tail(batch[c]))
  <2>1. cpc'[c] = "handle" /\ batch'[c] = Tail(batch[c])
    BY <1>2, <1>3
  <2> QED BY <2>1 DEF ToHandle
<1>4. ASSUME ~(Len(batch[c]) > 1) PROVE ToHandle(c)' = Rng(Tail(batch[c]))
  <2>1. cpc'[c] = "read"
    BY <1>2, <1>4
  <2>2. ToHandle(c)' = {}
    BY <2>1 DEF ToHandle
  <2>3. Rng(Tail(batch[c])) = {}
    BY <1>1, <1>4 DEF Rng
  <2> QED BY <2>2, <2>3
<1>5. \A d \in Consumers : d # c => ToHandle(d)' = ToHandle(d)
  BY OthersKeep DEF NextEntry
<1> QED BY <1>2, <1>3, <1>4, <1>5

\* Consumers keep their work, or lose some of it.
LEMMA WorkKept ==
  ASSUME TypeInv, TypeInv', CallsBounded, UNCHANGED <<calls, losses>>,
         \A d \in Consumers : ToHandle(d)' \subseteq ToHandle(d),
         \A g \in Groups : last'[g] >= last[g]
  PROVE  CallsBounded'
<1> SUFFICES ASSUME NEW g \in Groups, NEW i \in EntryIds PROVE Bounded(g, i)'
  BY DEF CallsBounded
<1>1. Awaiting(g, i)' \subseteq Awaiting(g, i)
  BY DEF Awaiting
<1>2. Bounded(g, i)
  BY DEF CallsBounded
<1> QED BY <1>1, <1>2, BoundedKept

LEMMA SameWork ==
  ASSUME UNCHANGED <<cpc, batch>>, NEW d \in Consumers
  PROVE  ToHandle(d)' = ToHandle(d)
  BY DEF ToHandle

LEMMA GroupsStay ==
  ASSUME TypeInv, UNCHANGED last
  PROVE  \A g \in Groups : last'[g] >= last[g]
  BY DEF TypeInv, TypeOK, NoGroup

LEMMA GroupCreated ==
  ASSUME TypeInv, NEW h \in Groups, NEW o, CreateGroup(h, o)
  PROVE  \A g \in Groups : last'[g] >= last[g]
  BY DEF CreateGroup, FromTheStart, TypeInv, TypeOK, NoGroup

\* XREADGROUP: what was undelivered is now in the batch of this consumer alone.
LEMMA ReadCalls ==
  ASSUME TypeInv, TypeInv', CallsBounded, NEW c \in Consumers, Read(c)
  PROVE  CallsBounded'
<1> DEFINE g == c[1]
           S == FirstOf(New(g))
<1>1. g \in Groups /\ ToHandle(c) = {} /\ UNCHANGED <<calls, losses>>
  BY DEF Read, Consumers, ToHandle, histVars
<1>2. ASSUME cpc' = [cpc EXCEPT ![c] = "recreate"] \/ cpc' = [cpc EXCEPT ![c] = "returned"],
             UNCHANGED batch, \A h \in Groups : last'[h] >= last[h]
      PROVE  CallsBounded'
  <2>1. batch' = [batch EXCEPT ![c] = batch[c]] /\ ToHandle(c)' = {}
    BY <1>2 DEF TypeInv, TypeOK, ToHandle
  <2>2. \A d \in Consumers : ToHandle(d)' \subseteq ToHandle(d)
    BY <1>2, <2>1, OthersKeep
  <2> QED BY <1>1, <1>2, <2>2, WorkKept
<1>3. Deliver(g, S) => \A h \in Groups : last'[h] >= last[h]
  <2>1. ASSUME Deliver(g, S), NEW h \in Groups PROVE last'[h] >= last[h]
    <3>1. last[h] \in Int /\ last'[h] \in Int
      BY DEF TypeInv, TypeOK, NoGroup
    <3> QED BY <1>1, <2>1, <3>1, DeliveryFacts DEF TypeInv
  <2> QED BY <2>1
<1>4. ASSUME Deliver(g, S), batch' = [batch EXCEPT ![c] = InOrder(S)],
             cpc' = [cpc EXCEPT ![c] = "handle"]
      PROVE  CallsBounded'
  <2>1. /\ S \in SUBSET EntryIds
        /\ \A i \in S : i > last[g] /\ i <= last'[g]
    BY <1>1, <1>4, DeliveryFacts DEF TypeInv
  <2>2. \A i \in ToHandle(c)' : i \in S
    <3>1. ToHandle(c)' = Rng(InOrder(S))
      BY <1>4 DEF ToHandle, TypeInv, TypeOK
    <3> HIDE DEF S
    <3> QED BY <2>1, <3>1, InOrderLists DEF Rng
  <2>3. \A d \in Consumers : d # c => ToHandle(d)' = ToHandle(d)
    BY <1>4, OthersKeep
  <2> HIDE DEF S
  <2> SUFFICES ASSUME NEW h \in Groups, NEW i \in EntryIds PROVE Bounded(h, i)'
    BY DEF CallsBounded
  <2>4. Bounded(h, i)
    BY DEF CallsBounded
  <2>5. CASE ~(h = g /\ i \in S)
    <3>1. Awaiting(h, i)' \subseteq Awaiting(h, i)
      BY <2>2, <2>3, <2>5 DEF Awaiting
    <3> QED BY <1>1, <1>3, <1>4, <2>4, <3>1, BoundedKept DEF S
  <2>6. CASE h = g /\ i \in S
    <3>1. c \notin Awaiting(h, i) /\ Awaiting(h, i)' \subseteq Awaiting(h, i) \cup {c}
      BY <1>1, <2>3 DEF Awaiting
    <3>2. /\ IsFiniteSet(Awaiting(h, i)) /\ IsFiniteSet(Awaiting(h, i) \cup {c})
          /\ Cardinality(Awaiting(h, i) \cup {c}) = Cardinality(Awaiting(h, i)) + 1
      BY <2>4, <3>1, FS_AddElement DEF Bounded
    <3>3. /\ IsFiniteSet(Awaiting(h, i)')
          /\ Cardinality(Awaiting(h, i)') \in Nat /\ Cardinality(Awaiting(h, i)) \in Nat
          /\ Cardinality(Awaiting(h, i)') <= Cardinality(Awaiting(h, i)) + 1
      BY <3>1, <3>2, FS_Subset, FS_CardinalityType
    <3>4. last[g] \in Int /\ last'[g] \in Int /\ i \in Int
      BY <1>1 DEF TypeInv, TypeOK, NoGroup, EntryIds
    <3>5. Undelivered(h, i) = 1 /\ Undelivered(h, i)' = 0
      BY <2>1, <2>6, <3>4 DEF Undelivered
    <3>6. calls[h][i] \in Nat /\ losses[h] \in Nat
      BY DEF TypeInv, TypeOK
    <3>7. calls[h][i] + Cardinality(Awaiting(h, i)) + 1 <= 1 + losses[h]
      BY <2>4, <3>5 DEF Bounded
    <3>8. calls'[h][i] + Cardinality(Awaiting(h, i)') + Undelivered(h, i)' <= 1 + losses'[h]
      BY <1>1, <3>3, <3>5, <3>6, <3>7
    <3> QED BY <3>3, <3>8 DEF Bounded
  <2> QED BY <2>5, <2>6
<1>5. UNCHANGED last => \A h \in Groups : last'[h] >= last[h]
  BY GroupsStay
<1> QED BY <1>2, <1>3, <1>4, <1>5 DEF Read, groupVars

\* A call of the handler takes the entry from what this consumer has to handle.
LEMMA HandleCalls ==
  ASSUME TypeInv, TypeInv', CallsBounded, NEW c \in Consumers, Handle(c)
  PROVE  CallsBounded'
<1>1. cpc[c] \in Busy /\ cpc[c] = "handle" /\ UNCHANGED <<last, losses>>
  BY DEF Handle, Busy, groupVars
<1>2. PICK g \in Groups, e \in EntryIds : g = c[1] /\ e = Head(batch[c])
  BY <1>1, InHand
<1>3. e \in ToHandle(c) /\ ToHandle(c) = Rng(batch[c]) /\ Rng(Tail(batch[c])) = Rng(batch[c]) \ {e}
  BY <1>1, <1>2, InHand DEF ToHandle
<1>4. ToHandle(c)' = ToHandle(c) \ {e} /\ \A d \in Consumers : d # c => ToHandle(d)' = ToHandle(d)
  <2>1. CASE NextEntry(c)
    BY <1>1, <1>3, <2>1, NextEntryWork
  <2>2. CASE UNCHANGED batch /\ cpc' = [cpc EXCEPT ![c] = "ack"]
    <3>1. batch' = [batch EXCEPT ![c] = batch[c]] /\ cpc'[c] = "ack" /\ batch'[c] = batch[c]
      BY <2>2 DEF TypeInv, TypeOK
    <3>2. ToHandle(c)' = Rng(Tail(batch[c]))
      BY <3>1 DEF ToHandle
    <3>3. \A d \in Consumers : d # c => ToHandle(d)' = ToHandle(d)
      BY <2>2, <3>1, OthersKeep
    <3> QED BY <1>3, <3>2, <3>3
  <2> QED BY <2>1, <2>2 DEF Handle, AfterFailure
<1>5. /\ calls'[g][e] = calls[g][e] + 1
      /\ \A h \in Groups, i \in EntryIds : ~(h = g /\ i = e) => calls'[h][i] = calls[h][i]
  <2>1. calls \in [Groups -> [EntryIds -> Nat]] /\ calls' = [calls EXCEPT ![g][e] = @ + 1]
    BY <1>2 DEF Handle, TypeInv, TypeOK
  <2>2. calls'[g] = [calls[g] EXCEPT ![e] = @ + 1] /\ \A h \in Groups : h # g => calls'[h] = calls[h]
    BY <2>1
  <2>3. calls[g] \in [EntryIds -> Nat]
    BY <2>1
  <2> QED BY <2>2, <2>3
<1> SUFFICES ASSUME NEW h \in Groups, NEW i \in EntryIds PROVE Bounded(h, i)'
  BY DEF CallsBounded
<1>6. Bounded(h, i)
  BY DEF CallsBounded
<1>7. CASE ~(h = g /\ i = e)
  <2>1. Awaiting(h, i)' \subseteq Awaiting(h, i)
    BY <1>4 DEF Awaiting
  <2>2. last'[h] >= last[h]
    BY <1>1, GroupsStay
  <2> QED BY <1>1, <1>5, <1>6, <1>7, <2>1, <2>2, BoundedKept
<1>8. CASE h = g /\ i = e
  <2>1. Awaiting(h, i)' = Awaiting(h, i) \ {c} /\ c \in Awaiting(h, i)
    BY <1>2, <1>3, <1>4, <1>8 DEF Awaiting
  <2>2. /\ IsFiniteSet(Awaiting(h, i)')
        /\ Cardinality(Awaiting(h, i)') = Cardinality(Awaiting(h, i)) - 1
        /\ Cardinality(Awaiting(h, i)) \in Nat
    BY <1>6, <2>1, FS_RemoveElement, FS_CardinalityType DEF Bounded
  <2>3. calls[h][i] \in Nat /\ losses[h] \in Nat /\ Undelivered(h, i) \in {0, 1}
    BY DEF TypeInv, TypeOK, Undelivered
  <2>4. Undelivered(h, i)' = Undelivered(h, i) /\ losses'[h] = losses[h]
    BY <1>1 DEF Undelivered
  <2>5. calls'[h][i] + Cardinality(Awaiting(h, i)') + Undelivered(h, i)' <= 1 + losses'[h]
    BY <1>5, <1>6, <1>8, <2>2, <2>3, <2>4 DEF Bounded
  <2> QED BY <2>2, <2>5 DEF Bounded
<1> QED BY <1>7, <1>8

\* XACK and XDEL leave the rest of the batch as it is.
LEMMA AckDelCalls ==
  ASSUME TypeInv, TypeInv', CallsBounded, NEW c \in Consumers, Ack(c) \/ Del(c)
  PROVE  CallsBounded'
<1>1. cpc[c] \in Busy /\ ToHandle(c) = Rng(Tail(batch[c])) /\ UNCHANGED <<last, calls, losses>>
  BY DEF Ack, Del, Busy, ToHandle, groupVars, histVars
<1>2. CASE Ack(c)
  <2>1. batch' = [batch EXCEPT ![c] = batch[c]] /\ cpc' = [cpc EXCEPT ![c] = "del"]
        /\ cpc'[c] = "del" /\ batch'[c] = batch[c]
    BY <1>2 DEF Ack, TypeInv, TypeOK
  <2>2. ToHandle(c)' = ToHandle(c)
    BY <1>1, <2>1 DEF ToHandle
  <2>3. \A d \in Consumers : ToHandle(d)' \subseteq ToHandle(d)
    BY <2>1, <2>2, OthersKeep
  <2> QED BY <1>1, <2>3, GroupsStay, WorkKept
<1>3. CASE Del(c)
  <2>1. \A d \in Consumers : ToHandle(d)' \subseteq ToHandle(d)
    BY <1>1, <1>3, NextEntryWork DEF Del
  <2> QED BY <1>1, <2>1, GroupsStay, WorkKept
<1> QED BY <1>2, <1>3
\* All other steps leave the batches alone, or empty them.
LEMMA CallsStep ==
  ASSUME TypeInv, TypeInv', CallsBounded, Next
  PROVE  CallsBounded'
<1>1. ASSUME NEW m \in Msgs, PubBegin(m) \/ PubAdd(m) \/ PubAddRepeated(m) PROVE CallsBounded'
  <2>1. UNCHANGED <<cpc, batch, last, calls, losses>>
    BY <1>1 DEF PubBegin, PubAdd, PubAddRepeated, subVars, groupVars, histVars
  <2> QED BY <2>1, SameWork, GroupsStay, WorkKept
<1>2. ASSUME NEW g \in Groups, Subscribe(g) PROVE CallsBounded'
  <2>1. UNCHANGED <<batch, calls, losses>> /\ \E o \in Outcomes : CreateGroup(g, o)
    BY <1>2 DEF Subscribe, histVars
  <2>2. \A d \in Consumers : cpc'[d] = cpc[d] \/ cpc'[d] = "read"
    BY <1>2 DEF Subscribe
  <2>3. \A d \in Consumers : ToHandle(d)' \subseteq ToHandle(d)
    BY <2>1, <2>2 DEF ToHandle
  <2> QED BY <2>1, <2>3, GroupCreated, WorkKept
<1>3. ASSUME NEW g \in Groups, SubReturns(g) PROVE CallsBounded'
  <2>1. UNCHANGED <<cpc, batch, last, calls, losses>>
    BY <1>3 DEF SubReturns, groupVars, histVars
  <2> QED BY <2>1, SameWork, GroupsStay, WorkKept
<1>4. ASSUME NEW g \in Groups, LoseGroup(g) PROVE CallsBounded'
  <2>1. UNCHANGED <<cpc, batch, calls>>
    BY <1>4 DEF LoseGroup, subVars
  <2>2. \A h \in Groups : \/ last'[h] = last[h] /\ losses'[h] = losses[h]
                          \/ losses'[h] = losses[h] + 1
    BY <1>4 DEF LoseGroup, TypeInv, TypeOK
  <2> SUFFICES ASSUME NEW h \in Groups, NEW i \in EntryIds PROVE Bounded(h, i)'
    BY DEF CallsBounded
  <2>3. Awaiting(h, i)' \subseteq Awaiting(h, i)
    BY <2>1, SameWork DEF Awaiting
  <2>4. Bounded(h, i) /\ calls'[h][i] = calls[h][i]
    BY <2>1 DEF CallsBounded
  <2>5. last'[h] = last[h] => last'[h] >= last[h]
    BY DEF TypeInv, TypeOK, NoGroup
  <2>6. \/ last'[h] >= last[h] /\ losses'[h] = losses[h]
        \/ losses'[h] = losses[h] + 1
    BY <2>2, <2>5
  <2> QED BY <2>3, <2>4, <2>6, BoundedKept
<1>5. ASSUME NEW c \in Consumers, ReadRepeated(c) PROVE CallsBounded'
  <2>1. UNCHANGED <<cpc, batch, calls, losses>> /\ c[1] \in Groups /\ TypeOK
    BY <1>5 DEF ReadRepeated, subVars, histVars, Consumers, TypeInv
  <2>2. ASSUME NEW h \in Groups PROVE last'[h] >= last[h]
    <3>1. last[h] \in Int /\ last'[h] \in Int
      BY DEF TypeInv, TypeOK, NoGroup
    <3> QED BY <1>5, <2>1, <3>1, DeliveryFacts DEF ReadRepeated
  <2> QED BY <2>1, <2>2, SameWork, WorkKept
<1>6. ASSUME NEW c \in Consumers, NEW o \in Outcomes, Recreate(c, o) PROVE CallsBounded'
  <2>1. /\ UNCHANGED <<batch, calls, losses>> /\ c[1] \in Groups /\ CreateGroup(c[1], o)
        /\ \A d \in Consumers : cpc'[d] = cpc[d] \/ cpc'[d] = "read"
    BY <1>6 DEF Recreate, histVars, Consumers, TypeInv, TypeOK
  <2>2. \A d \in Consumers : ToHandle(d)' \subseteq ToHandle(d)
    BY <2>1 DEF ToHandle
  <2> QED BY <2>1, <2>2, GroupCreated, WorkKept
<1>7. ASSUME Close \/ CleanupStream PROVE CallsBounded'
  <2>1. UNCHANGED <<cpc, batch, last, calls, losses>>
    BY <1>7 DEF Close, CleanupStream, subVars, groupVars, histVars
  <2> QED BY <2>1, SameWork, GroupsStay, WorkKept
<1>8. ASSUME Crash PROVE CallsBounded'
  <2>1. UNCHANGED <<last, calls, losses>> /\ \A d \in Consumers : cpc'[d] = "off"
    BY <1>8 DEF Crash, groupVars
  <2>2. \A d \in Consumers : ToHandle(d)' \subseteq ToHandle(d)
    BY <2>1 DEF ToHandle
  <2> QED BY <2>1, <2>2, GroupsStay, WorkKept
<1> QED
  BY <1>1, <1>2, <1>3, <1>4, <1>5, <1>6, <1>7, <1>8, ReadCalls, HandleCalls, AckDelCalls
  DEF Next, ConsumerStep

-----------------------------------------------------------------------------
(* What was handled, and what is in the stream *)

LEMMA DoneGrows ==
  ASSUME TypeInv, Next
  PROVE  \A g \in Groups : done[g] \subseteq done'[g]
<1>1. ASSUME NEW c \in Consumers, Handle(c) PROVE \A g \in Groups : done[g] \subseteq done'[g]
  <2>1. done' = done \/ done' = [done EXCEPT ![c[1]] = @ \cup {Head(batch[c])}]
    BY <1>1 DEF Handle
  <2>2. done \in [Groups -> SUBSET EntryIds]
    BY DEF TypeInv, TypeOK
  <2> QED BY <2>1, <2>2
<1>2. ~(\E c \in Consumers : Handle(c)) => UNCHANGED done
  BY DEF Next, ConsumerStep, PubBegin, PubAdd, PubAddRepeated, Subscribe, SubReturns, LoseGroup,
     Read, ReadRepeated, Recreate, Ack, Del, Close, CleanupStream, Crash, histVars
<1> QED BY <1>1, <1>2

LEMMA HandledStep ==
  ASSUME TypeInv, HandledWhenAcked, Next
  PROVE  HandledWhenAcked'
<1>0. ASSUME NEW d \in Consumers, cpc'[d] \in {"ack", "del"} => cpc'[d] = cpc[d] /\ batch'[d] = batch[d]
      PROVE  cpc'[d] \in {"ack", "del"} => Head(batch'[d]) \in done'[d[1]]
  <2>1. d[1] \in Groups
    BY DEF Consumers
  <2> QED BY <1>0, <2>1, DoneGrows DEF HandledWhenAcked
<1> SUFFICES ASSUME NEW d \in Consumers, cpc'[d] \in {"ack", "del"},
                    ~(cpc'[d] = cpc[d] /\ batch'[d] = batch[d])
             PROVE  Head(batch'[d]) \in done'[d[1]]
  BY <1>0 DEF HandledWhenAcked
<1>1. d[1] \in Groups
  BY DEF Consumers
<1>2. CASE \E c \in Consumers : Handle(c)
  <2>1. PICK c \in Consumers : Handle(c)
    BY <1>2
  <2>2. d = c /\ cpc' = [cpc EXCEPT ![c] = "ack"]
    BY <2>1 DEF Handle, AfterFailure, NextEntry, TypeInv, TypeOK
  <2>3. ~NextEntry(c)
    BY <2>2 DEF NextEntry, TypeInv, TypeOK
  <2>4. batch' = batch /\ done' = [done EXCEPT ![c[1]] = @ \cup {Head(batch[c])}]
    BY <2>1, <2>3 DEF Handle, AfterFailure
  <2> QED BY <1>1, <2>2, <2>4 DEF TypeInv, TypeOK
<1>3. CASE \E c \in Consumers : Ack(c)
  <2>1. PICK c \in Consumers : Ack(c)
    BY <1>3
  <2>2. d = c /\ cpc[c] = "ack" /\ UNCHANGED <<batch, done>>
    BY <2>1 DEF Ack, histVars, TypeInv, TypeOK
  <2> QED BY <2>2 DEF HandledWhenAcked
<1>4. CASE \E c \in Consumers : Read(c) \/ ReadRepeated(c) \/ Del(c) \/ \E o \in Outcomes : Recreate(c, o)
  BY <1>4 DEF Read, ReadRepeated, Del, Recreate, NextEntry, subVars, TypeInv, TypeOK
<1>5. CASE \E m \in Msgs : PubBegin(m) \/ PubAdd(m) \/ PubAddRepeated(m)
  BY <1>5 DEF PubBegin, PubAdd, PubAddRepeated, subVars
<1>6. CASE \E g \in Groups : Subscribe(g) \/ SubReturns(g) \/ LoseGroup(g)
  BY <1>6 DEF Subscribe, SubReturns, LoseGroup, subVars
<1>7. CASE Close \/ CleanupStream \/ Crash
  BY <1>7 DEF Close, CleanupStream, Crash, subVars
<1> QED BY <1>2, <1>3, <1>4, <1>5, <1>6, <1>7 DEF Next, ConsumerStep

\* Entries leave the stream after a handler's success, or with CleanupStream.
LEMMA EntriesStay ==
  ASSUME TypeInv, HandledWhenAcked, Next
  PROVE  \A i \in present \cup trimmed :
            i \in present' \cup trimmed' \/ \E g \in Groups : i \in done'[g]
<1>1. ASSUME NEW c \in Consumers, Del(c)
      PROVE  \A i \in present \cup trimmed :
               i \in present' \cup trimmed' \/ \E g \in Groups : i \in done'[g]
  <2>1. Head(batch[c]) \in done[c[1]] /\ c[1] \in Groups
    BY <1>1 DEF Del, HandledWhenAcked, Consumers
  <2>2. UNCHANGED <<trimmed, done>> /\ present \ {Head(batch[c])} \subseteq present'
    BY <1>1 DEF Del, histVars
  <2> QED BY <2>1, <2>2
<1>2. ~(\E c \in Consumers : Del(c)) => present \cup trimmed \subseteq present' \cup trimmed'
  BY DEF Next, ConsumerStep, PubBegin, PubAdd, PubAddRepeated, Append1, Subscribe, SubReturns,
     LoseGroup, Read, ReadRepeated, Recreate, Handle, Ack, Close, CleanupStream, Crash,
     histVars, streamVars
<1> QED BY <1>1, <1>2

\* Entries are added at the end, one at a time.
LEMMA EntriesGrow ==
  ASSUME TypeInv, Next
  PROVE  /\ \A i \in present' : i \in present \/ (i = Len(entries) + 1 /\ UNCHANGED <<last, done, pel>>)
         /\ \A i \in 1..Len(entries') : i \in 1..Len(entries) \/ i \in present'
         /\ Len(entries) \in Nat
<1>0. entries \in Seq(Msgs)
  BY DEF TypeInv, TypeOK
<1>1. ASSUME NEW m \in Msgs, Append1(m), UNCHANGED <<last, done, pel>>
      PROVE  /\ \A i \in present' : i \in present \/ (i = Len(entries) + 1 /\ UNCHANGED <<last, done, pel>>)
             /\ \A i \in 1..Len(entries') : i \in 1..Len(entries) \/ i \in present'
             /\ Len(entries) \in Nat
  <2>1. /\ entries' = Append(entries, m) /\ present' = present \cup {Len(entries) + 1}
        /\ Len(entries') = Len(entries) + 1 /\ Len(entries) \in Nat
    BY <1>0, <1>1 DEF Append1
  <2> QED BY <1>1, <2>1
<1>2. ASSUME NEW m \in Msgs, PubBegin(m) \/ PubAdd(m) \/ PubAddRepeated(m)
      PROVE  UNCHANGED <<last, done, pel>> /\ (Append1(m) \/ UNCHANGED streamVars)
  BY <1>2 DEF PubBegin, PubAdd, PubAddRepeated, groupVars, histVars
<1>3. ~(\E m \in Msgs : PubBegin(m) \/ PubAdd(m) \/ PubAddRepeated(m))
        => UNCHANGED entries /\ present' \subseteq present
  BY DEF Next, ConsumerStep, Subscribe, SubReturns,
     LoseGroup, Read, ReadRepeated, Recreate, Handle, Ack, Del, Close, CleanupStream, Crash, streamVars
<1>4. Len(entries) \in Nat
  BY <1>0
<1>5. CASE \E m \in Msgs : PubBegin(m) \/ PubAdd(m) \/ PubAddRepeated(m)
  <2>1. PICK m \in Msgs : PubBegin(m) \/ PubAdd(m) \/ PubAddRepeated(m)
    BY <1>5
  <2>2. UNCHANGED <<last, done, pel>> /\ (Append1(m) \/ UNCHANGED <<entries, present>>)
    BY <1>2, <2>1 DEF streamVars
  <2> QED BY <1>1, <1>4, <2>2
<1>6. CASE UNCHANGED entries /\ present' \subseteq present
  <2>1. \A i \in 1..Len(entries') : i \in 1..Len(entries)
    BY <1>6
  <2>2. \A i \in present' : i \in present
    BY <1>6
  <2> QED BY <1>4, <2>1, <2>2
<1> QED BY <1>3, <1>5, <1>6

LEMMA DeletedStep ==
  ASSUME TypeInv, HandledWhenAcked, DeletedWhenHandled, Next
  PROVE  DeletedWhenHandled'
<1> SUFFICES ASSUME NEW i \in 1..Len(entries')
             PROVE  i \in present' \cup trimmed' \/ \E g \in Groups : i \in done'[g]
  BY DEF DeletedWhenHandled
<1>1. CASE i \in present'
  BY <1>1
<1>2. CASE i \in 1..Len(entries)
  BY <1>2, EntriesStay, DoneGrows DEF DeletedWhenHandled
<1> QED BY <1>1, <1>2, EntriesGrow

\* What a step does to a group: it delivers, acknowledges, loses or leaves it.
LEMMA SkippedStep ==
  ASSUME TypeInv, HandledWhenAcked, NothingSkipped, Next
  PROVE  NothingSkipped'
<1> SUFFICES ASSUME NEW g \in Groups, NEW i \in present', i <= last'[g]
             PROVE  i \in pel'[g] \cup done'[g]
  BY DEF NothingSkipped
<1>0. /\ last[g] \in NoGroup..Len(entries) /\ Len(entries) \in Nat /\ last[g] \in Int
      /\ present \subseteq 1..Len(entries)
  BY EntriesGrow DEF TypeInv, TypeOK, NoGroup
<1>1. i \in present /\ i \in Int /\ i >= 1
  <2>1. i \in present \/ (i = Len(entries) + 1 /\ UNCHANGED last)
    BY EntriesGrow
  <2>2. i \in present
    BY <1>0, <2>1
  <2> QED BY <1>0, <2>2
<1>2. i <= last[g] => i \in pel[g] \cup done[g]
  BY <1>1 DEF NothingSkipped
<1>3. ASSUME NEW c \in Consumers, Read(c) \/ ReadRepeated(c)
      PROVE  i \in pel'[g] \cup done'[g]
  <2>0. UNCHANGED done /\ c[1] \in Groups
    BY <1>3 DEF Read, ReadRepeated, histVars, Consumers
  <2>1. CASE UNCHANGED groupVars
    BY <1>2, <2>0, <2>1 DEF groupVars
  <2>2. CASE Deliver(c[1], FirstOf(New(c[1])))
    <3>1. CASE g = c[1]
      <4>1. /\ pel'[g] = pel[g] \cup FirstOf(New(g))
            /\ i > last[g] /\ i <= last'[g] => i \in FirstOf(New(g))
        BY <1>1, <2>2, <3>1, DeliveryFacts DEF TypeInv
      <4>2. i <= last[g] \/ i > last[g]
        BY <1>0, <1>1
      <4> QED BY <1>2, <2>0, <4>1, <4>2
    <3>2. CASE g # c[1]
      <4>1. last'[g] = last[g] /\ pel'[g] = pel[g]
        BY <2>0, <2>2, <3>2, DeliveryFacts DEF TypeInv
      <4> QED BY <1>2, <2>0, <4>1
    <3> QED BY <3>1, <3>2
  <2> QED BY <1>3, <2>1, <2>2 DEF Read, ReadRepeated, groupVars
<1>4. ASSUME NEW h \in Groups, NEW o, CreateGroup(h, o), UNCHANGED <<pel, done>>
      PROVE  i \in pel'[g] \cup done'[g]
  <2>1. last'[g] = last[g] \/ last'[g] = 0
    BY <1>4 DEF CreateGroup, FromTheStart, TypeInv, TypeOK
  <2>2. last'[g] # 0
    BY <1>1
  <2> QED BY <1>2, <1>4, <2>1, <2>2
<1>5. ASSUME NEW c \in Consumers, Ack(c)
      PROVE  i \in pel'[g] \cup done'[g]
  <2>1. Head(batch[c]) \in done[c[1]] /\ UNCHANGED <<last, done>>
    BY <1>5 DEF Ack, HandledWhenAcked, histVars
  <2>2. \/ pel' = pel
        \/ pel' = [pel EXCEPT ![c[1]] = @ \ {Head(batch[c])}]
    BY <1>5 DEF Ack
  <2>3. pel[g] \subseteq pel'[g] \/ (g = c[1] /\ pel[g] \ {Head(batch[c])} \subseteq pel'[g])
    BY <2>2 DEF TypeInv, TypeOK
  <2> QED BY <1>2, <2>1, <2>3
<1>6. ASSUME NEW h \in Groups, LoseGroup(h)
      PROVE  i \in pel'[g] \cup done'[g]
  <2>1. CASE g = h
    <3>1. last'[g] = -1
      BY <1>6, <2>1 DEF LoseGroup, NoGroup, TypeInv, TypeOK
    <3> QED BY <1>1, <3>1
  <2>2. CASE g # h
    BY <1>2, <1>6, <2>2 DEF LoseGroup, TypeInv, TypeOK
  <2> QED BY <2>1, <2>2
<1>7. UNCHANGED groupVars => i \in pel'[g] \cup done'[g]
  BY <1>2, DoneGrows DEF groupVars
<1>8. CASE \E m \in Msgs : PubBegin(m) \/ PubAdd(m) \/ PubAddRepeated(m)
  BY <1>7, <1>8 DEF PubBegin, PubAdd, PubAddRepeated, groupVars
<1>9. CASE \E h \in Groups : Subscribe(h) \/ SubReturns(h) \/ LoseGroup(h)
  <2>1. ASSUME NEW h \in Groups, Subscribe(h) PROVE i \in pel'[g] \cup done'[g]
    BY <1>4, <2>1 DEF Subscribe, histVars
  <2> QED BY <1>6, <1>7, <1>9, <2>1 DEF SubReturns
<1>10. CASE \E c \in Consumers : ConsumerStep(c)
  <2>1. ASSUME NEW c \in Consumers, NEW o \in Outcomes, Recreate(c, o) PROVE i \in pel'[g] \cup done'[g]
    <3>1. c[1] \in Groups
      BY DEF Consumers
    <3> QED BY <1>4, <2>1, <3>1 DEF Recreate, histVars
  <2>2. ASSUME NEW c \in Consumers, Handle(c) \/ Del(c) PROVE i \in pel'[g] \cup done'[g]
    BY <1>7, <2>2 DEF Handle, Del
  <2> QED BY <1>3, <1>5, <1>10, <2>1, <2>2 DEF ConsumerStep
<1>11. CASE Close \/ CleanupStream \/ Crash
  BY <1>7, <1>11 DEF Close, CleanupStream, Crash
<1> QED BY <1>8, <1>9, <1>10, <1>11 DEF Next

-----------------------------------------------------------------------------
LEMMA StreamInit == Init => StreamInv
<1> SUFFICES ASSUME Init PROVE StreamInv
  OBVIOUS
<1>1. TypeInv
  BY TypeInit
<1>2. CallsBounded
  <2> SUFFICES ASSUME NEW g \in Groups, NEW i \in EntryIds PROVE Bounded(g, i)
    BY DEF CallsBounded
  <2>1. Awaiting(g, i) = {}
    BY DEF Init, Awaiting, ToHandle
  <2>2. IsFiniteSet(Awaiting(g, i)) /\ Cardinality(Awaiting(g, i)) = 0
    BY <2>1, FS_EmptySet
  <2>3. calls[g][i] = 0 /\ losses[g] = 0 /\ Undelivered(g, i) \in {0, 1}
    BY DEF Init, Undelivered
  <2> QED BY <2>2, <2>3 DEF Bounded
<1>3. HandledWhenAcked /\ NothingSkipped /\ DeletedWhenHandled
  BY DEF Init, HandledWhenAcked, NothingSkipped, DeletedWhenHandled
<1> QED BY <1>1, <1>2, <1>3 DEF StreamInv

LEMMA StreamStep == StreamInv /\ [Next]_vars => StreamInv'
<1> SUFFICES ASSUME StreamInv, [Next]_vars PROVE StreamInv'
  OBVIOUS
<1>0. TypeInv /\ TypeInv'
  BY TypeStep DEF StreamInv
<1>1. CASE UNCHANGED vars
  <2>1. CallsBounded'
    <3>1. UNCHANGED <<cpc, batch, last, calls, losses>>
      BY <1>1 DEF vars, groupVars, subVars, histVars
    <3> QED BY <1>0, <3>1, SameWork, GroupsStay, WorkKept DEF StreamInv
  <2>2. HandledWhenAcked' /\ NothingSkipped' /\ DeletedWhenHandled'
    BY <1>1 DEF vars, streamVars, groupVars, subVars, histVars, StreamInv,
       HandledWhenAcked, NothingSkipped, DeletedWhenHandled
  <2> QED BY <1>0, <2>1, <2>2 DEF StreamInv
<1>2. CASE Next
  <2>1. CallsBounded'
    BY <1>0, <1>2, CallsStep DEF StreamInv
  <2>2. HandledWhenAcked' /\ NothingSkipped' /\ DeletedWhenHandled'
    BY <1>2, HandledStep, SkippedStep, DeletedStep DEF StreamInv
  <2> QED BY <1>0, <2>1, <2>2 DEF StreamInv
<1> QED BY <1>1, <1>2

\* A group's handler is called at most once with an entry, unless the group was lost:
\* no answer that got lost, no crash and no other consumer of the group repeats a call.
THEOREM HandlersCalledOnce == Spec => []CalledOncePerGroup
<1>1. StreamInv => CalledOncePerGroup
  <2> SUFFICES ASSUME StreamInv, NEW g \in Groups, NEW i \in EntryIds
               PROVE  calls[g][i] <= 1 + losses[g]
    BY DEF CalledOncePerGroup
  <2>1. /\ IsFiniteSet(Awaiting(g, i))
        /\ calls[g][i] + Cardinality(Awaiting(g, i)) + Undelivered(g, i) <= 1 + losses[g]
    BY DEF StreamInv, CallsBounded, Bounded
  <2>2. /\ Cardinality(Awaiting(g, i)) \in Nat /\ Undelivered(g, i) \in {0, 1}
        /\ calls[g][i] \in Nat /\ losses[g] \in Nat
    BY <2>1, FS_CardinalityType DEF Undelivered, StreamInv, TypeInv, TypeOK
  <2> QED BY <2>1, <2>2
<1> QED BY <1>1, StreamInit, StreamStep, PTL DEF Spec

\* A group does not pass an entry by: what it has passed and is still in the stream is
\* pending, or was handled.
THEOREM NoEntrySkipped == Spec => []NothingSkipped
<1>1. StreamInv => NothingSkipped
  BY DEF StreamInv
<1> QED BY <1>1, StreamInit, StreamStep, PTL DEF Spec

\* Entries disappear after a handler's success or with CleanupStream, and in no other way.
THEOREM OnlyHandledDeleted == Spec => []DeletedWhenHandled
<1>1. StreamInv => DeletedWhenHandled
  BY DEF StreamInv
<1> QED BY <1>1, StreamInit, StreamStep, PTL DEF Spec
=============================================================================
