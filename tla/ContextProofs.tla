--------------------------- MODULE ContextProofs ---------------------------
(***************************************************************************)
(* The compaction of a conversation, proved for any threshold, any number  *)
(* of results to keep, any contents and any length: nothing that was said  *)
(* gets lost however often the messages are compacted, and a round of it   *)
(* leaves the last results whole.                                          *)
(***************************************************************************)
EXTENDS ContextCompact, FiniteSetTheorems, TLAPS

(***************************************************************************)
(* The inductive invariant.                                                *)
(***************************************************************************)
Roles == {"system", "user", "assistant", "tool"}
Spoken == [id : Nat \ {0}, role : Roles, size : Nat, calls : {0, 1}, whole : BOOLEAN, of : {{}}]
Summaries == [id : {0}, role : {"assistant"}, size : {100}, calls : {0}, whole : {TRUE},
              of : SUBSET Nat, path : Nat \union {NoPath}]
AnyMessage == Spoken \union Summaries

CompactTyped ==
    /\ messages \in Seq(AnyMessage) /\ said \in Seq(Spoken)
    /\ second \in Nat
    /\ turn \in {"open", "before", "model", "tool"}

\* An ID is at one place, and there is one summary, whose ID is 0.
IDsDiffer == \A i, j \in DOMAIN messages : messages[i].id = messages[j].id => i = j

EverythingHeld == DOMAIN said = Held

SystemFirst ==
    /\ \A i \in DOMAIN messages : IsSystem(messages[i]) => i = 1
    /\ said # <<>> /\ IsSystem(said[1]) => messages # <<>> /\ messages[1] = said[1]

Begun ==
    /\ said = <<>> => messages = <<>>
    /\ turn # "open" => said # <<>>

SummariesFiled ==
    \A i \in DOMAIN messages :
        messages[i].id = 0 => messages[i].path = NoPath \/ messages[i].path \in DOMAIN transcripts

ContinuesInv ==
    CompactTyped /\ IDsDiffer /\ EverythingHeld /\ SystemFirst /\ Begun /\ SummariesFiled

\* How many members of K are at i or after it.
FromEnd(K, i) == Cardinality({j \in K : j >= i})

\* Counted from the end, from number `open' on, every two of the calls and results
\* are a call and its result, in whichever order.
Coupled(list, open) ==
    LET K == Kept(list) IN
    /\ \E n \in Nat : Cardinality(K) = 2 * n + open
    /\ \A i, j \in K, n \in Nat :
          FromEnd(K, i) = 2 * n + 1 + open /\ FromEnd(K, j) = 2 * n + 2 + open
             => (IsResult(list[i]) <=> ~ IsResult(list[j]))
    /\ \A i \in K : FromEnd(K, i) <= open => ~ IsResult(list[i])

CoupledInv == Coupled(messages, IF turn = "tool" THEN 1 ELSE 0)

CompactInv == ContinuesInv /\ CoupledInv

-----------------------------------------------------------------------------
(* Counting from the end *)

LEMMA MinOfTwo ==
  ASSUME NEW a \in Int, NEW b \in Int
  PROVE  Min({a, b}) = IF a <= b THEN a ELSE b
BY DEF Min

LEMMA FromEndBounds ==
  ASSUME NEW K, K \subseteq Nat, IsFiniteSet(K), NEW i \in K
  PROVE  /\ Cardinality(K) \in Nat
         /\ FromEnd(K, i) \in 1..Cardinality(K)
<1> DEFINE L == {j \in K : j >= i}
<1>0. i \in Nat
  OBVIOUS
<1>1. L \in SUBSET K /\ i \in L
  <2>1. L \subseteq K
    OBVIOUS
  <2>2. i \in L
    BY <1>0
  <2> HIDE DEF L
  <2> QED BY <2>1, <2>2
<1> HIDE DEF L
<1>2. IsFiniteSet(L) /\ Cardinality(L) <= Cardinality(K)
  BY <1>1, FS_Subset
<1>3. Cardinality(L) \in Nat /\ Cardinality(K) \in Nat
  BY <1>2, FS_CardinalityType
<1>4. Cardinality(L) # 0
  BY <1>1, <1>2, FS_EmptySet
<1>5. FromEnd(K, i) = Cardinality(L)
  BY DEF FromEnd, L
<1> QED BY <1>2, <1>3, <1>4, <1>5

\* The earlier of two has more of K after it.
LEMMA FromEndFalls ==
  ASSUME NEW K, K \subseteq Nat, IsFiniteSet(K), NEW i \in K, NEW j \in K, i < j
  PROVE  FromEnd(K, j) < FromEnd(K, i)
<1> DEFINE L == {k \in K : k >= i}
           M == {k \in K : k >= j}
<1>0. i \in Nat /\ j \in Nat /\ \A k \in K : k \in Nat
  OBVIOUS
<1>1. M \in SUBSET L /\ L \in SUBSET K /\ i \in L /\ i \notin M
  <2>1. \A k \in K : k >= j => k >= i
    BY <1>0
  <2>2. M \subseteq L /\ L \subseteq K
    BY <2>1
  <2>3. i \in L /\ i \notin M
    BY <1>0
  <2> HIDE DEF L, M
  <2> QED BY <2>2, <2>3
<1>2. FromEnd(K, i) = Cardinality(L) /\ FromEnd(K, j) = Cardinality(M)
  BY DEF FromEnd
<1> HIDE DEF L, M
<1>3. IsFiniteSet(L)
  BY <1>1, FS_Subset
<1>4. /\ IsFiniteSet(M) /\ Cardinality(M) <= Cardinality(L)
      /\ Cardinality(L) = Cardinality(M) => L = M
  BY <1>1, <1>3, FS_Subset
<1>5. Cardinality(L) \in Nat /\ Cardinality(M) \in Nat
  BY <1>3, <1>4, FS_CardinalityType
<1>6. L # M
  BY <1>1
<1> QED BY <1>2, <1>4, <1>5, <1>6

LEMMA FromEndDiffers ==
  ASSUME NEW K, K \subseteq Nat, IsFiniteSet(K), NEW i \in K, NEW j \in K, FromEnd(K, i) = FromEnd(K, j)
  PROVE  i = j
<1>1. i \in Nat /\ j \in Nat
  OBVIOUS
<1>2. FromEnd(K, i) \in Int /\ FromEnd(K, j) \in Int
  <2>1. Cardinality(K) \in Nat /\ FromEnd(K, i) \in 1..Cardinality(K)
    BY FromEndBounds
  <2>2. FromEnd(K, j) \in 1..Cardinality(K)
    BY FromEndBounds
  <2> QED BY <2>1, <2>2
<1>3. CASE i < j
  <2>1. FromEnd(K, j) < FromEnd(K, i)
    BY <1>3, FromEndFalls
  <2> QED BY <1>2, <2>1
<1>4. CASE j < i
  <2>1. FromEnd(K, i) < FromEnd(K, j)
    BY <1>4, FromEndFalls
  <2> QED BY <1>2, <2>1
<1> QED BY <1>1, <1>3, <1>4

\* There is a member for every count up to the number of members.
LEMMA FromEndReaches ==
  ASSUME NEW K, K \subseteq Nat, IsFiniteSet(K), NEW k \in 1..Cardinality(K)
  PROVE  \E i \in K : FromEnd(K, i) = k
<1> DEFINE n == Cardinality(K)
           f == [i \in K |-> FromEnd(K, i)]
<1>1. n \in Nat
  BY FS_CardinalityType
<1>2. f \in [K -> 1..n]
  BY FromEndBounds
<1>3. \A i, j \in K : f[i] = f[j] => i = j
  BY FromEndDiffers
<1>4. IsFiniteSet(1..n) /\ Cardinality(1..n) = n
  BY <1>1, FS_Interval
<1>5. f \in Injection(K, 1..n)
  BY <1>2, <1>3 DEF Injection, IsInjective
<1> HIDE DEF f
<1>6. f \in Surjection(K, 1..n)
  BY <1>4, <1>5, FS_Injection
<1>7. \E i \in K : f[i] = k
  BY <1>6 DEF Surjection
<1> QED BY <1>7 DEF f

\* The count of a member that is added at the end, and of the others then.
LEMMA FromEndAdds ==
  ASSUME NEW K, K \subseteq Nat, IsFiniteSet(K), NEW n \in Nat, \A j \in K : j < n
  PROVE  /\ IsFiniteSet(K \union {n})
         /\ Cardinality(K \union {n}) = Cardinality(K) + 1
         /\ FromEnd(K \union {n}, n) = 1
         /\ \A i \in K : FromEnd(K \union {n}, i) = FromEnd(K, i) + 1
<1>1. n \notin K
  <2>1. ~ (n < n)
    OBVIOUS
  <2> QED BY <2>1
<1>2. IsFiniteSet(K \union {n}) /\ Cardinality(K \union {n}) = Cardinality(K) + 1
  BY <1>1, FS_AddElement
<1>3. FromEnd(K \union {n}, n) = 1
  <2>1. n >= n /\ \A j \in K : ~ (j >= n)
    OBVIOUS
  <2>2. {j \in K \union {n} : j >= n} = {n}
    BY <2>1
  <2> QED BY <2>2, FS_Singleton DEF FromEnd
<1>4. ASSUME NEW i \in K
      PROVE  FromEnd(K \union {n}, i) = FromEnd(K, i) + 1
  <2> DEFINE L == {j \in K : j >= i}
  <2>1. {j \in K \union {n} : j >= i} = L \union {n} /\ n \notin L /\ L \in SUBSET K
    BY <1>1
  <2> HIDE DEF L
  <2>2. IsFiniteSet(L)
    BY <2>1, FS_Subset
  <2>3. Cardinality(L \union {n}) = Cardinality(L) + 1
    BY <2>1, <2>2, FS_AddElement
  <2> QED BY <2>1, <2>3 DEF FromEnd, L
<1> QED BY <1>2, <1>3, <1>4

LEMMA FromEndOfInterval ==
  ASSUME NEW p \in Nat, NEW M \in Nat, NEW k \in 1..M
  PROVE  /\ Cardinality((p + 1)..(p + M)) = M
         /\ FromEnd((p + 1)..(p + M), p + k) = M - k + 1
<1>1. {j \in (p + 1)..(p + M) : j >= p + k} = (p + k)..(p + M)
  OBVIOUS
<1>2. Cardinality((p + k)..(p + M)) = M - k + 1
  BY FS_Interval
<1>3. Cardinality((p + 1)..(p + M)) = M
  BY FS_Interval
<1> QED BY <1>1, <1>2, <1>3 DEF FromEnd

\* Numbers from 1 are odd or even.
LEMMA OddOrEven ==
  ASSUME NEW r \in Nat, r > 0
  PROVE  \E n \in Nat : r = 2 * n + 1 \/ r = 2 * n + 2
<1> DEFINE n == (r - 1) \div 2
<1>1. n \in Nat /\ (r = 2 * n + 1 \/ r = 2 * n + 2)
  OBVIOUS
<1> QED BY <1>1

-----------------------------------------------------------------------------
(* What MicroCompact and buildCompactedState make of the messages *)

LEMMA MessageKinds ==
  ASSUME NEW m \in AnyMessage
  PROVE  /\ m.id \in Nat /\ m.of \in SUBSET Nat
         /\ m.id = 0 <=> m \in Summaries
         /\ m.id > 0 <=> m \in Spoken
         /\ IsResult(m) \/ IsCall(m) \/ IsSystem(m) => m \in Spoken
         /\ ~ (IsResult(m) /\ IsCall(m)) /\ ~ (IsSystem(m) /\ (IsResult(m) \/ IsCall(m)))
<1>0. ~ (IsResult(m) /\ IsCall(m)) /\ ~ (IsSystem(m) /\ (IsResult(m) \/ IsCall(m)))
  BY DEF IsResult, IsCall, IsSystem
<1>1. CASE m \in Spoken
  <2>1. m.id \in Nat \ {0} /\ m.of = {}
    BY <1>1 DEF Spoken
  <2>2. m \notin Summaries
    BY <2>1 DEF Summaries
  <2> QED BY <1>0, <1>1, <2>1, <2>2
<1>2. CASE m \in Summaries
  <2>1. m.id = 0 /\ m.of \in SUBSET Nat /\ m.role = "assistant" /\ m.calls = 0
    BY <1>2 DEF Summaries
  <2>2. m \notin Spoken
    BY <2>1 DEF Spoken
  <2>3. ~ IsResult(m) /\ ~ IsCall(m) /\ ~ IsSystem(m)
    BY <2>1 DEF IsResult, IsCall, IsSystem
  <2> QED BY <1>2, <2>1, <2>2, <2>3
<1> QED BY <1>1, <1>2 DEF AnyMessage

LEMMA MicroOf ==
  ASSUME NEW list \in Seq(AnyMessage), NEW i \in DOMAIN list
  PROVE  LET a == list[i]
             b == MicroCompact(list)[i]
         IN  /\ b \in AnyMessage
             /\ b.id = a.id /\ b.role = a.role /\ b.calls = a.calls /\ b.of = a.of
             /\ b # a => IsResult(a) /\ ~ b.whole
                         /\ ~ (Cardinality(ResultsFrom(list, i)) <= KeepRecentMessages)
<1> DEFINE a == list[i]
           b == MicroCompact(list)[i]
           recent == Cardinality(ResultsFrom(list, i)) <= KeepRecentMessages
<1>1. a \in AnyMessage
  OBVIOUS
<1>2. b = IF IsResult(a) /\ ~ recent /\ a.size > 100
          THEN [a EXCEPT !.size = Placeholder, !.whole = FALSE] ELSE a
  BY DEF MicroCompact
<1> HIDE DEF a, b, recent
<1>3. CASE b = a
  BY <1>1, <1>3 DEF a, b
<1>4. CASE b # a
  <2>1. IsResult(a) /\ ~ recent /\ b = [a EXCEPT !.size = Placeholder, !.whole = FALSE]
    BY <1>2, <1>4
  <2>2. a \in Spoken
    BY <1>1, <2>1, MessageKinds
  <2>3. b \in Spoken /\ b.id = a.id /\ b.role = a.role /\ b.calls = a.calls /\ b.of = a.of /\ ~ b.whole
    BY <2>1, <2>2 DEF Spoken, Placeholder
  <2> QED BY <2>1, <2>3 DEF a, b, recent, AnyMessage
<1> QED BY <1>3, <1>4

LEMMA MicroKeeps ==
  ASSUME NEW list \in Seq(AnyMessage)
  PROVE  /\ MicroCompact(list) \in Seq(AnyMessage)
         /\ DOMAIN MicroCompact(list) = DOMAIN list /\ Len(MicroCompact(list)) = Len(list)
         /\ Kept(MicroCompact(list)) = Kept(list)
         /\ \A i \in DOMAIN list :
               /\ IsSystem(MicroCompact(list)[i]) <=> IsSystem(list[i])
               /\ IsResult(MicroCompact(list)[i]) <=> IsResult(list[i])
         /\ Covers(ToSet(MicroCompact(list))) = Covers(ToSet(list))
<1> DEFINE M == MicroCompact(list)
<1>1. DOMAIN M = DOMAIN list
  BY DEF MicroCompact
<1>2. \A i \in DOMAIN list : M[i] \in AnyMessage /\ M[i].id = list[i].id /\ M[i].role = list[i].role
                             /\ M[i].calls = list[i].calls /\ M[i].of = list[i].of
  BY MicroOf
<1>3. M = [i \in 1..Len(list) |-> M[i]]
  BY DEF MicroCompact
<1> HIDE DEF M
<1>4. M \in Seq(AnyMessage) /\ Len(M) = Len(list)
  <2>1. Len(list) \in Nat /\ DOMAIN list = 1..Len(list)
    OBVIOUS
  <2>2. M \in [1..Len(list) -> AnyMessage]
    BY <1>1, <1>2, <1>3, <2>1
  <2> QED BY <2>1, <2>2
<1>5. Kept(M) = Kept(list)
  BY <1>1, <1>2 DEF Kept, IsResult, IsCall
<1>6. Covers(ToSet(M)) = Covers(ToSet(list))
  <2>1. {m.id : m \in ToSet(M)} = {m.id : m \in ToSet(list)}
    BY <1>1, <1>2 DEF ToSet
  <2>2. {m.of : m \in ToSet(M)} = {m.of : m \in ToSet(list)}
    BY <1>1, <1>2 DEF ToSet
  <2> QED BY <2>1, <2>2 DEF Covers
<1>7. \A i \in DOMAIN list : /\ IsSystem(M[i]) <=> IsSystem(list[i])
                             /\ IsResult(M[i]) <=> IsResult(list[i])
  BY <1>2 DEF IsSystem, IsResult
<1> QED BY <1>1, <1>4, <1>5, <1>6, <1>7 DEF M

LEMMA KeptFinite ==
  ASSUME NEW list \in Seq(AnyMessage)
  PROVE  /\ Kept(list) \subseteq Nat /\ Kept(list) \subseteq DOMAIN list
         /\ IsFiniteSet(Kept(list)) /\ Cardinality(Kept(list)) \in Nat
         /\ \A i \in Kept(list) : list[i] \in Spoken
<1>1. Kept(list) \subseteq 1..Len(list) /\ Kept(list) \subseteq DOMAIN list /\ Len(list) \in Nat
  BY DEF Kept
<1>2. IsFiniteSet(1..Len(list))
  BY <1>1, FS_Interval
<1>3. IsFiniteSet(Kept(list))
  BY <1>1, <1>2, FS_Subset
<1>4. \A i \in Kept(list) : list[i] \in Spoken
  BY MessageKinds DEF Kept
<1> QED BY <1>1, <1>3, <1>4, FS_CardinalityType

LEMMA CoversNumbers ==
  ASSUME NEW S, S \subseteq AnyMessage
  PROVE  Covers(S) \in SUBSET Nat
<1>1. \A m \in S : m.id \in Nat /\ m.of \in SUBSET Nat
  BY MessageKinds
<1> QED BY <1>1 DEF Covers

LEMMA SummaryTyped ==
  ASSUME NEW list \in Seq(AnyMessage), NEW path \in Nat \union {NoPath}
  PROVE  Summary(list, path) \in Summaries
<1>1. Read(list) \subseteq AnyMessage
  BY DEF Read, ToSet
<1>2. Covers(Read(list)) \in SUBSET Nat
  BY <1>1, CoversNumbers
<1> QED BY <1>2 DEF Summary, Summaries

\* The messages after a compaction: the system message if there is one (s = 1), the
\* summary, and the last M calls and results from the end.
IsBuilt(B, list, path, s, M) ==
    /\ B \in Seq(AnyMessage) /\ Len(B) = s + 1 + M
    /\ M = IF 2 * KeepRecentMessages <= Cardinality(Kept(list))
           THEN 2 * KeepRecentMessages ELSE Cardinality(Kept(list))
    /\ s = 1 => list # <<>> /\ IsSystem(list[1]) /\ B[1] = list[1]
    /\ s = 0 => \A i \in DOMAIN list : ~ IsSystem(list[i])
    /\ B[s + 1] = Summary(list, path)
    /\ \A k \in 1..M : \E i \in Kept(list) : FromEnd(Kept(list), i) = k /\ B[s + 1 + k] = list[i]

LEMMA BuiltOf ==
  ASSUME NEW list \in Seq(AnyMessage), NEW path \in Nat \union {NoPath},
         \A i \in DOMAIN list : IsSystem(list[i]) => i = 1
  PROVE  \E s \in {0, 1}, M \in Nat : IsBuilt(BuildCompactedState(list, path), list, path, s, M)
<1> DEFINE K == Kept(list)
           F == FirstSystem(list)
           R == LastKept(list)
           S == Summary(list, path)
           B == BuildCompactedState(list, path)
           M == IF 2 * KeepRecentMessages <= Cardinality(K) THEN 2 * KeepRecentMessages ELSE Cardinality(K)
           systems == {i \in DOMAIN list : IsSystem(list[i])}
<1>1. /\ K \subseteq Nat /\ K \subseteq DOMAIN list /\ IsFiniteSet(K) /\ Cardinality(K) \in Nat
  BY KeptFinite
<1>2. M \in Nat /\ M <= Cardinality(K) /\ M = Min({2 * KeepRecentMessages, Cardinality(K)})
  BY <1>1, MinOfTwo, CompactAssumption
<1>3. S \in AnyMessage
  BY SummaryTyped DEF AnyMessage
<1>4. \/ F = <<>> /\ \A i \in DOMAIN list : ~ IsSystem(list[i])
      \/ F = <<list[1]>> /\ list # <<>> /\ IsSystem(list[1]) /\ list[1] \in AnyMessage
  <2>1. CASE systems = {}
    BY <2>1 DEF FirstSystem
  <2>2. CASE systems # {}
    <3>1. systems = {1}
      BY <2>2
    <3>2. Min({1, 1}) = 1
      BY MinOfTwo
    <3>3. Min(systems) = 1
      BY <3>1, <3>2
    <3>4. F = <<list[1]>>
      BY <2>2, <3>3 DEF FirstSystem
    <3>5. 1 \in DOMAIN list /\ IsSystem(list[1])
      BY <3>1
    <3> QED BY <3>4, <3>5
  <2> QED BY <2>1, <2>2
<1>5. ASSUME NEW k \in 1..M
      PROVE  \E i \in K : FromEnd(K, i) = k /\ R[k] = list[i]
  <2>1. k \in 1..Cardinality(K)
    BY <1>1, <1>2
  <2>2. \E i \in K : FromEnd(K, i) = k
    BY <1>1, <2>1, FromEndReaches
  <2>3. R[k] = list[CHOOSE i \in K : FromEnd(K, i) = k]
    BY <1>2 DEF LastKept, RecentCount, FromEnd
  <2> HIDE DEF K
  <2> QED BY <2>2, <2>3
<1>6. R = [k \in 1..M |-> R[k]]
  BY <1>2 DEF LastKept
<1>7. B = F \o <<S>> \o R
  BY DEF BuildCompactedState
<1> HIDE DEF K, F, R, S, B, M
<1>8. R \in Seq(AnyMessage) /\ Len(R) = M
  <2>1. \A k \in 1..M : R[k] \in AnyMessage
    <3> SUFFICES ASSUME NEW k \in 1..M PROVE R[k] \in AnyMessage
      OBVIOUS
    <3>1. PICK i \in K : R[k] = list[i]
      BY <1>5
    <3>2. i \in DOMAIN list
      BY <1>1
    <3> QED BY <3>1, <3>2
  <2>2. R \in [1..M -> AnyMessage]
    BY <1>6, <2>1
  <2>3. DOMAIN R = 1..M
    BY <2>2
  <2>4. M \in Nat
    BY <1>2
  <2>5. R \in Seq(AnyMessage)
    BY <2>2, <2>4
  <2> QED BY <2>3, <2>4, <2>5
<1>9. PICK s \in {0, 1} :
        /\ F \in Seq(AnyMessage) /\ Len(F) = s
        /\ s = 1 => list # <<>> /\ IsSystem(list[1]) /\ F[1] = list[1]
        /\ s = 0 => \A i \in DOMAIN list : ~ IsSystem(list[i])
  <2>1. CASE F = <<>> /\ \A i \in DOMAIN list : ~ IsSystem(list[i])
    <3> WITNESS 0 \in {0, 1}
    <3> QED BY <2>1
  <2>2. CASE F = <<list[1]>> /\ list # <<>> /\ IsSystem(list[1]) /\ list[1] \in AnyMessage
    <3> WITNESS 1 \in {0, 1}
    <3> QED BY <2>2
  <2> QED BY <1>4, <2>1, <2>2
<1>10. <<S>> \in Seq(AnyMessage) /\ Len(<<S>>) = 1
  BY <1>3
<1>11. /\ B \in Seq(AnyMessage) /\ Len(B) = s + 1 + M
       /\ s = 1 => B[1] = F[1]
       /\ B[s + 1] = S
       /\ \A k \in 1..M : B[s + 1 + k] = R[k]
  <2> DEFINE H == F \o <<S>>
  <2>1. /\ H \in Seq(AnyMessage) /\ Len(H) = s + 1
        /\ s = 1 => H[1] = F[1]
        /\ H[s + 1] = S
    BY <1>9, <1>10
  <2>2. B = H \o R
    BY <1>7
  <2> HIDE DEF H
  <2>3. B \in Seq(AnyMessage) /\ Len(B) = s + 1 + M
    BY <1>2, <1>8, <2>1, <2>2
  <2>4. B[s + 1] = S /\ (s = 1 => B[1] = F[1])
    BY <1>2, <1>8, <2>1, <2>2
  <2>5. \A k \in 1..M : B[s + 1 + k] = R[k]
    BY <1>2, <1>8, <2>1, <2>2
  <2> QED BY <2>3, <2>4, <2>5
<1>12. \A k \in 1..M : \E i \in K : FromEnd(K, i) = k /\ B[s + 1 + k] = list[i]
  BY <1>5, <1>11
<1>13. M = IF 2 * KeepRecentMessages <= Cardinality(K) THEN 2 * KeepRecentMessages ELSE Cardinality(K)
  BY DEF M
<1>14. IsBuilt(B, list, path, s, M)
  BY <1>9, <1>11, <1>12, <1>13 DEF IsBuilt, K, S
<1> QED BY <1>2, <1>14 DEF B

-----------------------------------------------------------------------------
(* What is held, and where *)

LEMMA InCovers ==
  ASSUME NEW S, NEW x
  PROVE  x \in Covers(S) <=> \E m \in S : (x = m.id /\ x # 0) \/ x \in m.of
BY DEF Covers

LEMMA CoversAdded ==
  ASSUME NEW list \in Seq(AnyMessage), NEW m \in Spoken
  PROVE  Covers(ToSet(Append(list, m))) = Covers(ToSet(list)) \union {m.id}
<1>1. ToSet(Append(list, m)) = ToSet(list) \union {m}
  <2>1. /\ DOMAIN Append(list, m) = 1..(Len(list) + 1) /\ DOMAIN list = 1..Len(list) /\ Len(list) \in Nat
        /\ \A i \in 1..Len(list) : Append(list, m)[i] = list[i]
        /\ Append(list, m)[Len(list) + 1] = m
    <3> DEFINE T == AnyMessage \union {m}
    <3>1. list \in Seq(T) /\ m \in T
      <4>1. AnyMessage \subseteq T /\ m \in T
        OBVIOUS
      <4>2. list \in Seq(T)
        BY <4>1
      <4> QED BY <4>1, <4>2
    <3> HIDE DEF T
    <3> QED BY <3>1
  <2>2. \A i \in 1..(Len(list) + 1) : i \in 1..Len(list) \/ i = Len(list) + 1
    BY <2>1
  <2>3. 1..Len(list) \subseteq 1..(Len(list) + 1) /\ Len(list) + 1 \in 1..(Len(list) + 1)
    BY <2>1
  <2> QED BY <2>1, <2>2, <2>3 DEF ToSet
<1>2. m.id # 0 /\ m.of = {}
  BY DEF Spoken
<1>3. \A x : x \in Covers(ToSet(list) \union {m}) <=> x \in Covers(ToSet(list)) \/ x = m.id
  BY <1>2, InCovers
<1> QED BY <1>1, <1>3

\* The compacted messages hold what the messages held.
LEMMA BuiltCovers ==
  ASSUME NEW list \in Seq(AnyMessage), NEW path \in Nat \union {NoPath},
         \A i \in DOMAIN list : IsSystem(list[i]) => i = 1
  PROVE  Covers(ToSet(BuildCompactedState(list, path))) = Covers(ToSet(list))
<1> DEFINE B == BuildCompactedState(list, path)
           K == Kept(list)
           S == Summary(list, path)
<1>0. PICK s \in {0, 1}, M \in Nat : IsBuilt(B, list, path, s, M)
  BY BuiltOf
<1>1. /\ B \in Seq(AnyMessage) /\ Len(B) = s + 1 + M
      /\ s = 1 => list # <<>> /\ IsSystem(list[1]) /\ B[1] = list[1]
      /\ s = 0 => \A i \in DOMAIN list : ~ IsSystem(list[i])
      /\ B[s + 1] = S
      /\ \A k \in 1..M : \E i \in K : FromEnd(K, i) = k /\ B[s + 1 + k] = list[i]
  BY <1>0 DEF IsBuilt
<1>2. K \subseteq DOMAIN list
  BY KeptFinite
<1>3. S.id = 0 /\ S.of = Covers(Read(list))
  BY DEF Summary
<1>4. list # <<>> => 1 \in DOMAIN list
  OBVIOUS
<1> HIDE DEF B, K, S
<1>5. DOMAIN B = 1..(s + 1 + M)
  BY <1>1
<1>6. \A p \in DOMAIN B : B[p] = S \/ \E i \in DOMAIN list : B[p] = list[i]
  <2> SUFFICES ASSUME NEW p \in DOMAIN B PROVE B[p] = S \/ \E i \in DOMAIN list : B[p] = list[i]
    OBVIOUS
  <2>1. (p = 1 /\ s = 1) \/ p = s + 1 \/ \E k \in 1..M : p = s + 1 + k
    <3>1. p \in Nat /\ p >= 1 /\ p <= s + 1 + M
      BY <1>5
    <3>2. CASE p > s + 1
      <4>1. p - (s + 1) \in 1..M /\ p = s + 1 + (p - (s + 1))
        BY <3>1, <3>2
      <4> QED BY <4>1
    <3> QED BY <3>1, <3>2
  <2> QED BY <1>1, <1>2, <1>4, <2>1
<1>7. Read(list) \subseteq ToSet(list)
  BY DEF Read
<1>8. ASSUME NEW x, x \in Covers(ToSet(B))
      PROVE  x \in Covers(ToSet(list))
  <2>1. PICK m \in ToSet(B) : (x = m.id /\ x # 0) \/ x \in m.of
    BY <1>8, InCovers
  <2>2. CASE m = S
    <3>1. x \in Covers(Read(list))
      BY <1>3, <2>1, <2>2
    <3> QED BY <1>7, <3>1, InCovers
  <2>3. CASE \E i \in DOMAIN list : m = list[i]
    <3>1. m \in ToSet(list)
      BY <2>3 DEF ToSet
    <3> QED BY <2>1, <3>1, InCovers
  <2>4. m = S \/ \E i \in DOMAIN list : m = list[i]
    BY <1>6 DEF ToSet
  <2> QED BY <2>2, <2>3, <2>4
<1>9. ASSUME NEW x, x \in Covers(ToSet(list))
      PROVE  x \in Covers(ToSet(B))
  <2>1. PICK m \in ToSet(list) : (x = m.id /\ x # 0) \/ x \in m.of
    BY <1>9, InCovers
  <2>2. CASE IsSystem(m)
    <3>1. PICK i \in DOMAIN list : m = list[i]
      BY DEF ToSet
    <3>2. i = 1 /\ s = 1
      BY <1>1, <2>2, <3>1
    <3>3. m \in ToSet(B)
      <4>1. 1 \in DOMAIN B
        BY <1>5
      <4>2. B[1] = m
        BY <1>1, <3>1, <3>2
      <4> QED BY <4>1, <4>2 DEF ToSet
    <3> QED BY <2>1, <3>3, InCovers
  <2>3. CASE ~ IsSystem(m)
    <3>1. m \in Read(list)
      BY <2>3 DEF Read
    <3>2. x \in S.of
      BY <1>3, <2>1, <3>1, InCovers
    <3>3. S \in ToSet(B)
      <4>1. s + 1 \in DOMAIN B
        BY <1>5
      <4> QED BY <1>1, <4>1 DEF ToSet
    <3> QED BY <3>2, <3>3, InCovers
  <2> QED BY <2>2, <2>3
<1>10. \A x : x \in Covers(ToSet(B)) <=> x \in Covers(ToSet(list))
  BY <1>8, <1>9
<1> QED BY <1>10 DEF B

-----------------------------------------------------------------------------
(* ContinuesInv is inductive *)

LEMMA ContinuesInit == CompactInit => ContinuesInv
<1> SUFFICES ASSUME CompactInit PROVE ContinuesInv
  OBVIOUS
<1>1. DOMAIN messages = {} /\ DOMAIN said = {} /\ messages = <<>> /\ said = <<>> /\ turn = "open" /\ second = 0
  BY DEF CompactInit
<1>2. CompactTyped
  <2>1. messages \in Seq(AnyMessage) /\ said \in Seq(Spoken)
    BY <1>1
  <2> QED BY <1>1, <2>1 DEF CompactTyped
<1>3. EverythingHeld
  <2>1. ToSet(messages) = {}
    BY <1>1 DEF ToSet
  <2>2. Held = {}
    BY <2>1 DEF Held, Covers
  <2> QED BY <1>1, <2>2 DEF EverythingHeld
<1> QED BY <1>1, <1>2, <1>3 DEF ContinuesInv, IDsDiffer, SystemFirst, Begun, SummariesFiled

\* Every ID among the messages was given to something said.
LEMMA IDsWereSaid ==
  ASSUME ContinuesInv, NEW i \in DOMAIN messages
  PROVE  messages[i].id \in 0..Len(said)
<1>1. messages[i] \in AnyMessage /\ messages[i] \in ToSet(messages)
  BY DEF ContinuesInv, CompactTyped, ToSet
<1>2. messages[i].id \in Nat
  BY <1>1, MessageKinds
<1>3. DOMAIN said = 1..Len(said) /\ Len(said) \in Nat
  BY DEF ContinuesInv, CompactTyped
<1>4. CASE messages[i].id # 0
  <2>1. messages[i].id \in Held
    BY <1>1, <1>4, InCovers DEF Held
  <2> QED BY <1>2, <1>3, <2>1 DEF ContinuesInv, EverythingHeld
<1> QED BY <1>2, <1>3, <1>4

LEMMA SayContinues ==
  ASSUME ContinuesInv, NEW m \in Spoken, m.id = Len(said) + 1, IsSystem(m) => said = <<>>,
         Say(m), turn' \in {"open", "before", "model", "tool"}
  PROVE  ContinuesInv'
<1> DEFINE n == Len(messages)
<1>1. /\ messages \in Seq(AnyMessage) /\ said \in Seq(Spoken) /\ m \in AnyMessage
      /\ messages' = Append(messages, m) /\ said' = Append(said, m)
      /\ second' = second /\ transcripts' = transcripts
  BY DEF ContinuesInv, CompactTyped, Say, AnyMessage
<1>2. /\ n \in Nat /\ DOMAIN messages = 1..n /\ DOMAIN messages' = 1..(n + 1)
      /\ \A i \in 1..n : messages'[i] = messages[i]
      /\ messages'[n + 1] = m
  BY <1>1
<1>3. /\ Len(said) \in Nat /\ DOMAIN said = 1..Len(said) /\ DOMAIN said' = 1..(Len(said) + 1)
      /\ \A i \in 1..Len(said) : said'[i] = said[i]
      /\ said'[Len(said) + 1] = m /\ said' # <<>>
  BY <1>1
<1>4. \A i \in DOMAIN messages' : i \in DOMAIN messages \/ i = n + 1
  BY <1>2
<1> HIDE DEF n
<1>5. CompactTyped'
  <2>1. messages' \in Seq(AnyMessage) /\ said' \in Seq(Spoken)
    BY <1>1
  <2> QED BY <1>1, <2>1 DEF ContinuesInv, CompactTyped
<1>6. IDsDiffer'
  <2>1. \A i \in DOMAIN messages : messages[i].id # m.id
    BY <1>3, IDsWereSaid
  <2> QED BY <1>2, <1>4, <2>1 DEF ContinuesInv, IDsDiffer
<1>7. EverythingHeld'
  <2>1. Held' = Held \union {Len(said) + 1}
    BY <1>1, CoversAdded DEF Held
  <2>2. 1..(Len(said) + 1) = 1..Len(said) \union {Len(said) + 1}
    BY <1>3
  <2> QED BY <1>3, <2>1, <2>2 DEF ContinuesInv, EverythingHeld
<1>8. SystemFirst'
  <2>1. CASE said = <<>>
    <3>1. messages = <<>> /\ n = 0
      BY <2>1 DEF ContinuesInv, Begun, n
    <3>2. messages' # <<>> /\ messages'[1] = m /\ said'[1] = m
      BY <1>2, <1>3, <2>1, <3>1
    <3>3. \A i \in DOMAIN messages' : i = 1
      BY <1>2, <3>1
    <3> QED BY <3>2, <3>3 DEF SystemFirst
  <2>2. CASE said # <<>>
    <3>1. ~ IsSystem(m)
      BY <2>2
    <3>2. said'[1] = said[1] /\ 1 \in DOMAIN said
      BY <1>1, <1>3, <2>2
    <3>3. \A i \in DOMAIN messages' : IsSystem(messages'[i]) => i = 1
      BY <1>2, <1>4, <3>1 DEF ContinuesInv, SystemFirst
    <3>4. messages' # <<>>
      BY <1>1
    <3>5. messages # <<>> => messages'[1] = messages[1]
      BY <1>1
    <3> QED BY <2>2, <3>2, <3>3, <3>4, <3>5 DEF ContinuesInv, SystemFirst
  <2> QED BY <2>1, <2>2
<1>9. Begun'
  BY <1>3 DEF Begun
<1>10. SummariesFiled'
  <2>1. m.id # 0
    BY DEF Spoken
  <2> QED BY <1>1, <1>2, <1>4, <2>1 DEF ContinuesInv, SummariesFiled
<1> QED BY <1>5, <1>6, <1>7, <1>8, <1>9, <1>10 DEF ContinuesInv

\* MicroCompact alone: the same messages, some of them shorter.
LEMMA MicroContinues ==
  ASSUME ContinuesInv, messages' = Micro, said' = said, second' = second,
         turn = "before", turn' \in {"before", "model"},
         DOMAIN transcripts \subseteq DOMAIN transcripts'
  PROVE  ContinuesInv'
<1>1. messages \in Seq(AnyMessage) /\ said # <<>>
  BY DEF ContinuesInv, CompactTyped, Begun
<1>2. /\ messages' \in Seq(AnyMessage) /\ DOMAIN messages' = DOMAIN messages
      /\ Len(messages') = Len(messages)
      /\ \A i \in DOMAIN messages : IsSystem(messages'[i]) <=> IsSystem(messages[i])
      /\ Held' = Held
  BY <1>1, MicroKeeps DEF Micro, Held
<1>3. \A i \in DOMAIN messages : /\ messages'[i].id = messages[i].id
                                 /\ messages'[i] # messages[i] => IsResult(messages[i])
  BY <1>1, MicroOf DEF Micro
<1>4. \A i \in DOMAIN messages : /\ messages[i].id = 0 => messages'[i] = messages[i]
                                 /\ IsSystem(messages[i]) => messages'[i] = messages[i]
  <2>1. \A i \in DOMAIN messages : messages[i] \in AnyMessage
    BY <1>1
  <2>2. \A i \in DOMAIN messages : ~ (IsResult(messages[i]) /\ (messages[i].id = 0 \/ IsSystem(messages[i])))
    <3> SUFFICES ASSUME NEW i \in DOMAIN messages, IsResult(messages[i])
                 PROVE  messages[i].id # 0 /\ ~ IsSystem(messages[i])
      OBVIOUS
    <3>1. messages[i] \in Spoken
      BY <2>1, MessageKinds
    <3> QED BY <3>1 DEF Spoken, IsResult, IsSystem
  <2> QED BY <1>3, <2>2
<1>5. CompactTyped'
  BY <1>2 DEF ContinuesInv, CompactTyped
<1>6. IDsDiffer'
  BY <1>2, <1>3 DEF ContinuesInv, IDsDiffer
<1>7. EverythingHeld'
  BY <1>2 DEF ContinuesInv, EverythingHeld
<1>8. SystemFirst'
  <2>1. \A i \in DOMAIN messages' : IsSystem(messages'[i]) => i = 1
    BY <1>2 DEF ContinuesInv, SystemFirst
  <2>2. ASSUME IsSystem(said[1])
        PROVE  messages' # <<>> /\ messages'[1] = said[1]
    <3>1. messages # <<>> /\ messages[1] = said[1]
      BY <1>1, <2>2 DEF ContinuesInv, SystemFirst
    <3>2. 1 \in DOMAIN messages
      BY <1>1, <3>1
    <3>3. messages' # <<>>
      BY <1>2, <3>2
    <3> QED BY <1>4, <2>2, <3>1, <3>2, <3>3
  <2> QED BY <2>1, <2>2 DEF SystemFirst
<1>9. Begun'
  BY <1>1 DEF Begun
<1>10. SummariesFiled'
  BY <1>2, <1>3, <1>4 DEF ContinuesInv, SummariesFiled
<1> QED BY <1>5, <1>6, <1>7, <1>8, <1>9, <1>10 DEF ContinuesInv

\* The places of a compacted state.
LEMMA BuiltPlaces ==
  ASSUME NEW s \in {0, 1}, NEW M \in Nat, NEW p \in 1..(s + 1 + M)
  PROVE  (p = 1 /\ s = 1) \/ p = s + 1 \/ \E k \in 1..M : p = s + 1 + k
<1>1. CASE p > s + 1
  <2>1. p - (s + 1) \in 1..M /\ p = s + 1 + (p - (s + 1))
    BY <1>1
  <2> QED BY <2>1
<1> QED BY <1>1

LEMMA CompactsContinues ==
  ASSUME ContinuesInv, NEW path \in {second, NoPath}, Compacts(path)
  PROVE  ContinuesInv'
<1> DEFINE list == Micro
           K == Kept(list)
           B == BuildCompactedState(list, path)
<1>1. /\ messages \in Seq(AnyMessage) /\ said \in Seq(Spoken) /\ second \in Nat /\ said # <<>>
      /\ path \in Nat \union {NoPath}
      /\ messages' = B /\ said' = said /\ second' = second
      /\ turn' = "model" /\ SaveTranscript(path)
  BY DEF ContinuesInv, CompactTyped, Begun, Compacts
<1>2. /\ list \in Seq(AnyMessage) /\ DOMAIN list = DOMAIN messages
      /\ \A i \in DOMAIN messages : IsSystem(list[i]) <=> IsSystem(messages[i])
      /\ Covers(ToSet(list)) = Held
  BY <1>1, MicroKeeps DEF Micro, Held
<1>3. \A i \in DOMAIN messages : /\ list[i].id = messages[i].id
                                 /\ list[i] # messages[i] => IsResult(messages[i])
  BY <1>1, MicroOf DEF Micro
<1>4. \A i \in DOMAIN list : IsSystem(list[i]) => i = 1
  BY <1>2 DEF ContinuesInv, SystemFirst
<1>5. \A i, j \in DOMAIN list : list[i].id = list[j].id => i = j
  BY <1>2, <1>3 DEF ContinuesInv, IDsDiffer
<1>6. \A i \in K : i \in DOMAIN list /\ list[i] \in Spoken /\ ~ IsSystem(list[i])
  <2>1. \A i \in K : i \in DOMAIN list /\ list[i] \in AnyMessage /\ (IsResult(list[i]) \/ IsCall(list[i]))
    BY <1>2 DEF Kept
  <2> QED BY <2>1, MessageKinds
<1> HIDE DEF list
<1>built. PICK s \in {0, 1}, M \in Nat : IsBuilt(B, list, path, s, M)
  BY <1>1, <1>2, <1>4, BuiltOf
<1>7. /\ B \in Seq(AnyMessage) /\ Len(B) = s + 1 + M
      /\ s = 1 => list # <<>> /\ IsSystem(list[1]) /\ B[1] = list[1]
      /\ s = 0 => \A i \in DOMAIN list : ~ IsSystem(list[i])
      /\ B[s + 1] = Summary(list, path)
      /\ \A k \in 1..M : \E i \in K : FromEnd(K, i) = k /\ B[s + 1 + k] = list[i]
  BY <1>built DEF IsBuilt
<1> HIDE DEF K, B
<1>8. DOMAIN messages' = 1..(s + 1 + M)
  BY <1>1, <1>7
<1>9. messages'[s + 1].id = 0 /\ messages'[s + 1].path = path /\ ~ IsSystem(messages'[s + 1])
  BY <1>1, <1>7 DEF Summary, IsSystem
<1>10. ASSUME s = 1
       PROVE  1 \in DOMAIN list /\ messages'[1] = list[1] /\ messages'[1].id # 0 /\ 1 \notin K
  <2>1. list # <<>> /\ IsSystem(list[1]) /\ messages'[1] = list[1]
    BY <1>1, <1>7, <1>10
  <2>2. 1 \in DOMAIN list /\ list[1] \in AnyMessage
    BY <1>2, <2>1
  <2>3. list[1] \in Spoken
    BY <2>1, <2>2, MessageKinds
  <2> QED BY <1>6, <2>1, <2>2, <2>3 DEF Spoken
<1>11. ASSUME NEW k \in 1..M
       PROVE  messages'[s + 1 + k].id # 0 /\ ~ IsSystem(messages'[s + 1 + k])
  <2>1. PICK i \in K : messages'[s + 1 + k] = list[i]
    BY <1>1, <1>7
  <2> QED BY <1>6, <2>1 DEF Spoken
<1>12. CompactTyped'
  BY <1>1, <1>7 DEF CompactTyped
<1>13. IDsDiffer'
  <2>1. ASSUME NEW k \in 1..M, NEW l \in 1..M, messages'[s + 1 + k].id = messages'[s + 1 + l].id
        PROVE  k = l
    <3>1. PICK i \in K : FromEnd(K, i) = k /\ messages'[s + 1 + k] = list[i]
      BY <1>1, <1>7
    <3>2. PICK j \in K : FromEnd(K, j) = l /\ messages'[s + 1 + l] = list[j]
      BY <1>1, <1>7
    <3>3. i = j
      BY <1>5, <1>6, <2>1, <3>1, <3>2
    <3> QED BY <3>1, <3>2, <3>3
  <2>2. ASSUME s = 1, NEW k \in 1..M
        PROVE  messages'[1].id # messages'[s + 1 + k].id
    <3>1. PICK i \in K : FromEnd(K, i) = k /\ messages'[s + 1 + k] = list[i]
      BY <1>1, <1>7
    <3> QED BY <1>5, <1>6, <1>10, <2>2, <3>1
  <2>3. \A p \in DOMAIN messages' : (p = 1 /\ s = 1) \/ p = s + 1 \/ \E k \in 1..M : p = s + 1 + k
    <3> SUFFICES ASSUME NEW p \in 1..(s + 1 + M)
                 PROVE  (p = 1 /\ s = 1) \/ p = s + 1 \/ \E k \in 1..M : p = s + 1 + k
      BY <1>8
    <3> QED BY BuiltPlaces
  <2> SUFFICES ASSUME NEW p \in DOMAIN messages', NEW q \in DOMAIN messages',
                      messages'[p].id = messages'[q].id
               PROVE  p = q
    BY DEF IDsDiffer
  <2>4. CASE p = s + 1
    <3>1. ~ (q = 1 /\ s = 1) /\ ~ \E k \in 1..M : q = s + 1 + k
      BY <1>9, <1>10, <1>11, <2>4
    <3> QED BY <2>3, <2>4, <3>1
  <2>5. CASE p = 1 /\ s = 1
    <3>1. q # s + 1 /\ ~ \E k \in 1..M : q = s + 1 + k
      BY <1>9, <1>10, <2>2, <2>5
    <3> QED BY <2>3, <2>5, <3>1
  <2>6. ASSUME NEW k \in 1..M, p = s + 1 + k
        PROVE  p = q
    <3>1. q # s + 1 /\ ~ (q = 1 /\ s = 1)
      BY <1>9, <1>11, <2>2, <2>6
    <3>2. PICK l \in 1..M : q = s + 1 + l
      BY <2>3, <3>1
    <3> QED BY <2>1, <2>6, <3>2
  <2> QED BY <2>3, <2>4, <2>5, <2>6
<1>14. EverythingHeld'
  <2>1. Covers(ToSet(messages')) = Covers(ToSet(list))
    <3>1. list \in Seq(AnyMessage)
      BY <1>2
    <3>2. path \in Nat \union {NoPath}
      BY <1>1
    <3>3. Covers(ToSet(B)) = Covers(ToSet(list))
      BY <1>4, <3>1, <3>2, BuiltCovers DEF B
    <3>4. messages' = B
      BY <1>1
    <3> QED BY <3>3, <3>4
  <2>2. Held' = Held
    BY <1>2, <2>1 DEF Held
  <2> QED BY <1>1, <2>2 DEF ContinuesInv, EverythingHeld
<1>15. SystemFirst'
  <2>1. \A p \in DOMAIN messages' : IsSystem(messages'[p]) => p = 1
    <3> SUFFICES ASSUME NEW p \in DOMAIN messages', IsSystem(messages'[p]) PROVE p = 1
      OBVIOUS
    <3>1. p = 1 \/ p = s + 1 \/ \E k \in 1..M : p = s + 1 + k
      <4>1. p \in 1..(s + 1 + M)
        BY <1>8
      <4> QED BY <4>1, BuiltPlaces
    <3> QED BY <1>9, <1>11, <3>1
  <2>2. ASSUME IsSystem(said[1])
        PROVE  messages' # <<>> /\ messages'[1] = said[1]
    <3>1. messages # <<>> /\ messages[1] = said[1]
      BY <1>1, <2>2 DEF ContinuesInv, SystemFirst
    <3>2. 1 \in DOMAIN messages
      BY <1>1, <3>1
    <3>3. messages[1] \in AnyMessage
      BY <1>1, <3>2
    <3>4. ~ IsResult(messages[1])
      BY <2>2, <3>1, <3>3, MessageKinds
    <3>5. list[1] = messages[1] /\ IsSystem(list[1]) /\ 1 \in DOMAIN list
      BY <1>2, <1>3, <2>2, <3>1, <3>2, <3>4
    <3>6. s = 1
      BY <1>7, <3>5
    <3> QED BY <1>1, <1>7, <3>1, <3>5, <3>6
  <2> QED BY <1>1, <2>1, <2>2 DEF SystemFirst
<1>16. Begun'
  BY <1>1 DEF Begun
<1>17. SummariesFiled'
  <2>1. path = NoPath \/ path \in DOMAIN transcripts'
    BY <1>1 DEF SaveTranscript
  <2>2. ASSUME NEW p \in DOMAIN messages', messages'[p].id = 0
        PROVE  p = s + 1
    <3>1. (p = 1 /\ s = 1) \/ p = s + 1 \/ \E k \in 1..M : p = s + 1 + k
      <4>1. p \in 1..(s + 1 + M)
        BY <1>8
      <4> QED BY <4>1, BuiltPlaces
    <3> QED BY <1>10, <1>11, <2>2, <3>1
  <2> QED BY <1>9, <2>1, <2>2 DEF SummariesFiled
<1> QED BY <1>12, <1>13, <1>14, <1>15, <1>16, <1>17 DEF ContinuesInv

LEMMA ContinuesStep == ContinuesInv /\ [CompactNext]_compactVars => ContinuesInv'
<1> SUFFICES ASSUME ContinuesInv, [CompactNext]_compactVars PROVE ContinuesInv'
  OBVIOUS
<1>0. Len(said) \in Nat
  BY DEF ContinuesInv, CompactTyped
<1>1. CASE SystemSpeaks
  <2> DEFINE m == Message("system", 40, 0)
  <2>1. m \in Spoken /\ m.id = Len(said) + 1
    BY <1>0 DEF Message, Spoken, Roles
  <2>2. Say(m) /\ turn' = turn /\ said = <<>>
    BY <1>1 DEF SystemSpeaks
  <2>3. turn' \in {"open", "before", "model", "tool"}
    BY <2>2 DEF ContinuesInv, CompactTyped
  <2> HIDE DEF m
  <2> QED BY <2>1, <2>2, <2>3, SayContinues
<1>2. CASE ModelCalls
  <2> DEFINE m == Message("assistant", 0, 1)
  <2>1. m \in Spoken /\ m.id = Len(said) + 1 /\ ~ IsSystem(m)
    BY <1>0 DEF Message, Spoken, Roles, IsSystem
  <2>2. Say(m) /\ turn' = "tool"
    BY <1>2 DEF ModelCalls
  <2> HIDE DEF m
  <2> QED BY <2>1, <2>2, SayContinues
<1>3. CASE Tick
  BY <1>3 DEF Tick, ContinuesInv, CompactTyped, IDsDiffer, EverythingHeld, Held, SystemFirst, Begun, SummariesFiled
<1>4. CASE StaysAsItIs
  BY <1>4, MicroContinues DEF StaysAsItIs
<1>5. ASSUME NEW size \in Sizes, UserSpeaks(size)
      PROVE  ContinuesInv'
  <2> DEFINE m == Message("user", size, 0)
  <2>1. m \in Spoken /\ m.id = Len(said) + 1 /\ ~ IsSystem(m)
    BY <1>0, CompactAssumption DEF Message, Spoken, Roles, IsSystem
  <2>2. Say(m) /\ turn' = "before"
    BY <1>5 DEF UserSpeaks
  <2> HIDE DEF m
  <2> QED BY <2>1, <2>2, SayContinues
<1>6. ASSUME NEW size \in Sizes, ModelSpeaks(size)
      PROVE  ContinuesInv'
  <2> DEFINE m == Message("assistant", size, 0)
  <2>1. m \in Spoken /\ m.id = Len(said) + 1 /\ ~ IsSystem(m)
    BY <1>0, CompactAssumption DEF Message, Spoken, Roles, IsSystem
  <2>2. Say(m) /\ turn' = "open"
    BY <1>6 DEF ModelSpeaks
  <2> HIDE DEF m
  <2> QED BY <2>1, <2>2, SayContinues
<1>7. ASSUME NEW size \in Sizes, ToolAnswers(size)
      PROVE  ContinuesInv'
  <2> DEFINE m == Message("tool", size, 0)
  <2>1. m \in Spoken /\ m.id = Len(said) + 1 /\ ~ IsSystem(m)
    BY <1>0, CompactAssumption DEF Message, Spoken, Roles, IsSystem
  <2>2. Say(m) /\ turn' = "before"
    BY <1>7 DEF ToolAnswers
  <2> HIDE DEF m
  <2> QED BY <2>1, <2>2, SayContinues
<1>8. ASSUME NEW path \in {second, NoPath}, Compacts(path)
      PROVE  ContinuesInv'
  BY <1>8, CompactsContinues
<1>9. ASSUME NEW path \in {second, NoPath}, SummaryFails(path)
      PROVE  ContinuesInv'
  <2>1. DOMAIN transcripts \subseteq DOMAIN transcripts'
    BY <1>9 DEF SummaryFails, SaveTranscript
  <2> QED BY <1>9, <2>1, MicroContinues DEF SummaryFails
<1>10. CASE UNCHANGED compactVars
  BY <1>10 DEF compactVars, ContinuesInv, CompactTyped, IDsDiffer, EverythingHeld, Held, SystemFirst, Begun,
               SummariesFiled
<1> QED BY <1>1, <1>2, <1>3, <1>4, <1>5, <1>6, <1>7, <1>8, <1>9, <1>10 DEF CompactNext

-----------------------------------------------------------------------------
(* Calls and results stay in couples *)

LEMMA Appended ==
  ASSUME NEW list \in Seq(AnyMessage), NEW m \in AnyMessage
  PROVE  /\ Append(list, m) \in Seq(AnyMessage)
         /\ Len(list) \in Nat /\ DOMAIN list = 1..Len(list) /\ DOMAIN Append(list, m) = 1..(Len(list) + 1)
         /\ \A i \in 1..Len(list) : Append(list, m)[i] = list[i]
         /\ Append(list, m)[Len(list) + 1] = m
         /\ \A i \in 1..(Len(list) + 1) : i \in 1..Len(list) \/ i = Len(list) + 1
OBVIOUS

LEMMA KeptAdded ==
  ASSUME NEW list \in Seq(AnyMessage), NEW m \in AnyMessage
  PROVE  Kept(Append(list, m)) = IF IsResult(m) \/ IsCall(m) THEN Kept(list) \union {Len(list) + 1} ELSE Kept(list)
<1> DEFINE A == Append(list, m)
           n == Len(list)
<1>1. /\ n \in Nat /\ DOMAIN list = 1..n /\ DOMAIN A = 1..(n + 1)
      /\ \A i \in 1..n : A[i] = list[i]
      /\ A[n + 1] = m
      /\ \A i \in 1..(n + 1) : i \in 1..n \/ i = n + 1
  BY Appended
<1> HIDE DEF A, n
<1>2. n + 1 \in 1..(n + 1) /\ \A i \in 1..n : i \in 1..(n + 1)
  BY <1>1
<1>3. \A i : i \in Kept(A) <=> i \in Kept(list) \/ (i = n + 1 /\ (IsResult(m) \/ IsCall(m)))
  BY <1>1, <1>2 DEF Kept
<1>4. CASE IsResult(m) \/ IsCall(m)
  <2>1. Kept(A) = Kept(list) \union {n + 1}
    BY <1>3, <1>4
  <2> QED BY <1>4, <2>1 DEF A, n
<1>5. CASE ~ (IsResult(m) \/ IsCall(m))
  <2>1. Kept(A) = Kept(list)
    BY <1>3, <1>5
  <2> QED BY <1>5, <2>1 DEF A, n
<1> QED BY <1>4, <1>5

\* Only the calls and results, and which they are, matter.
LEMMA CoupledSame ==
  ASSUME NEW list, NEW other, NEW open, Coupled(list, open), Kept(other) = Kept(list),
         \A i \in Kept(list) : IsResult(other[i]) <=> IsResult(list[i])
  PROVE  Coupled(other, open)
BY DEF Coupled

LEMMA OthersCoupled ==
  ASSUME NEW list \in Seq(AnyMessage), NEW m \in AnyMessage, ~ IsResult(m), ~ IsCall(m), Coupled(list, 0)
  PROVE  Coupled(Append(list, m), 0)
<1>1. Kept(Append(list, m)) = Kept(list)
  BY KeptAdded
<1>2. \A i \in Kept(list) : Append(list, m)[i] = list[i]
  BY Appended DEF Kept
<1> QED BY <1>1, <1>2, CoupledSame

LEMMA AddedCounts ==
  ASSUME NEW list \in Seq(AnyMessage), NEW m \in AnyMessage, IsResult(m) \/ IsCall(m)
  PROVE  LET A == Append(list, m)
             N == Len(list) + 1
         IN  /\ Kept(A) = Kept(list) \union {N}
             /\ A[N] = m
             /\ Cardinality(Kept(A)) = Cardinality(Kept(list)) + 1 /\ Cardinality(Kept(list)) \in Nat
             /\ FromEnd(Kept(A), N) = 1
             /\ \A i \in Kept(list) : /\ FromEnd(Kept(A), i) = FromEnd(Kept(list), i) + 1
                                      /\ FromEnd(Kept(list), i) \in Nat \ {0}
                                      /\ A[i] = list[i]
<1> DEFINE K == Kept(list)
           N == Len(list) + 1
<1>1. K \subseteq Nat /\ IsFiniteSet(K) /\ Cardinality(K) \in Nat
  BY KeptFinite
<1>2. N \in Nat /\ \A j \in K : j < N
  BY Appended DEF Kept
<1>3. Kept(Append(list, m)) = K \union {N}
  BY KeptAdded
<1>4. \A i \in K : Append(list, m)[i] = list[i]
  BY Appended DEF Kept
<1>5. Append(list, m)[N] = m
  BY Appended
<1> HIDE DEF K, N
<1>6. /\ Cardinality(K \union {N}) = Cardinality(K) + 1
      /\ FromEnd(K \union {N}, N) = 1
      /\ \A i \in K : FromEnd(K \union {N}, i) = FromEnd(K, i) + 1
  BY <1>1, <1>2, FromEndAdds
<1>7. \A i \in K : FromEnd(K, i) \in Nat \ {0}
  <2> SUFFICES ASSUME NEW i \in K PROVE FromEnd(K, i) \in Nat \ {0}
    OBVIOUS
  <2>1. FromEnd(K, i) \in 1..Cardinality(K)
    BY <1>1, FromEndBounds
  <2> QED BY <1>1, <2>1
<1> QED BY <1>1, <1>3, <1>4, <1>5, <1>6, <1>7 DEF K, N

LEMMA CallOpens ==
  ASSUME NEW list \in Seq(AnyMessage), NEW m \in AnyMessage, IsCall(m), Coupled(list, 0)
  PROVE  Coupled(Append(list, m), 1)
<1> DEFINE A == Append(list, m)
           K == Kept(list)
           L == Kept(A)
           N == Len(list) + 1
<1>1. /\ L = K \union {N} /\ A[N] = m
      /\ Cardinality(L) = Cardinality(K) + 1 /\ Cardinality(K) \in Nat
      /\ FromEnd(L, N) = 1
      /\ \A i \in K : /\ FromEnd(L, i) = FromEnd(K, i) + 1
                      /\ FromEnd(K, i) \in Nat \ {0}
                      /\ A[i] = list[i]
  BY AddedCounts
<1>2. ~ IsResult(m)
  BY MessageKinds
<1>3. /\ \E n \in Nat : Cardinality(K) = 2 * n
      /\ \A i, j \in K, n \in Nat : FromEnd(K, i) = 2 * n + 1 /\ FromEnd(K, j) = 2 * n + 2
                                       => (IsResult(list[i]) <=> ~ IsResult(list[j]))
  BY DEF Coupled
<1> HIDE DEF A, K, L, N
<1>4. \E n \in Nat : Cardinality(L) = 2 * n + 1
  BY <1>1, <1>3
<1>5. ASSUME NEW i \in L, NEW j \in L, NEW n \in Nat, FromEnd(L, i) = 2 * n + 1 + 1, FromEnd(L, j) = 2 * n + 2 + 1
      PROVE  IsResult(A[i]) <=> ~ IsResult(A[j])
  <2>1. i \in K /\ j \in K
    BY <1>1, <1>5
  <2>2. FromEnd(K, i) = 2 * n + 1 /\ FromEnd(K, j) = 2 * n + 2
    BY <1>1, <1>5, <2>1
  <2> QED BY <1>1, <1>3, <2>1, <2>2
<1>6. ASSUME NEW i \in L, FromEnd(L, i) <= 1
      PROVE  ~ IsResult(A[i])
  <2>1. i \notin K
    BY <1>1, <1>6
  <2> QED BY <1>1, <1>2, <2>1
<1> QED BY <1>4, <1>5, <1>6 DEF Coupled, L, A

LEMMA ResultCloses ==
  ASSUME NEW list \in Seq(AnyMessage), NEW m \in AnyMessage, IsResult(m), Coupled(list, 1)
  PROVE  Coupled(Append(list, m), 0)
<1> DEFINE A == Append(list, m)
           K == Kept(list)
           L == Kept(A)
           N == Len(list) + 1
<1>1. /\ L = K \union {N} /\ A[N] = m
      /\ Cardinality(L) = Cardinality(K) + 1 /\ Cardinality(K) \in Nat
      /\ FromEnd(L, N) = 1
      /\ \A i \in K : /\ FromEnd(L, i) = FromEnd(K, i) + 1
                      /\ FromEnd(K, i) \in Nat \ {0}
                      /\ A[i] = list[i]
  BY AddedCounts
<1>2. /\ \E n \in Nat : Cardinality(K) = 2 * n + 1
      /\ \A i, j \in K, n \in Nat : FromEnd(K, i) = 2 * n + 1 + 1 /\ FromEnd(K, j) = 2 * n + 2 + 1
                                       => (IsResult(list[i]) <=> ~ IsResult(list[j]))
      /\ \A i \in K : FromEnd(K, i) <= 1 => ~ IsResult(list[i])
  BY DEF Coupled
<1> HIDE DEF A, K, L, N
<1>3. \E n \in Nat : Cardinality(L) = 2 * n + 0
  <2>1. PICK n \in Nat : Cardinality(K) = 2 * n + 1
    BY <1>2
  <2>2. n + 1 \in Nat /\ Cardinality(L) = 2 * (n + 1) + 0
    BY <1>1, <2>1
  <2> QED BY <2>2
<1>4. ASSUME NEW i \in L, NEW j \in L, NEW n \in Nat, FromEnd(L, i) = 2 * n + 1 + 0, FromEnd(L, j) = 2 * n + 2 + 0
      PROVE  IsResult(A[i]) <=> ~ IsResult(A[j])
  <2>1. j \in K /\ FromEnd(K, j) = 2 * n + 1
    BY <1>1, <1>4
  <2>2. CASE i = N
    <3>1. n = 0
      BY <1>1, <1>4, <2>2
    <3>2. ~ IsResult(list[j])
      BY <1>2, <2>1, <3>1
    <3> QED BY <1>1, <2>1, <2>2, <3>2
  <2>3. CASE i # N
    <3>1. i \in K /\ FromEnd(K, i) = 2 * n /\ n > 0
      BY <1>1, <1>4, <2>3
    <3>2. n - 1 \in Nat /\ FromEnd(K, i) = 2 * (n - 1) + 1 + 1 /\ FromEnd(K, j) = 2 * (n - 1) + 2 + 1
      BY <2>1, <3>1
    <3>3. IsResult(list[i]) <=> ~ IsResult(list[j])
      BY <1>2, <2>1, <3>1, <3>2
    <3> QED BY <1>1, <2>1, <3>1, <3>3
  <2> QED BY <2>2, <2>3
<1>5. ASSUME NEW i \in L, FromEnd(L, i) <= 0
      PROVE  ~ IsResult(A[i])
  BY <1>1, <1>5
<1> QED BY <1>3, <1>4, <1>5 DEF Coupled, L, A

\* The window of the last calls and results has whole couples, and reversing it
\* leaves each couple together.
LEMMA BuiltCoupled ==
  ASSUME NEW list \in Seq(AnyMessage), NEW path \in Nat \union {NoPath},
         \A i \in DOMAIN list : IsSystem(list[i]) => i = 1,
         Coupled(list, 0)
  PROVE  Coupled(BuildCompactedState(list, path), 0)
<1> DEFINE B == BuildCompactedState(list, path)
           K == Kept(list)
           L == Kept(B)
<1>0. PICK s \in {0, 1}, M \in Nat : IsBuilt(B, list, path, s, M)
  BY BuiltOf
<1>1. /\ B \in Seq(AnyMessage) /\ Len(B) = s + 1 + M
      /\ M = IF 2 * KeepRecentMessages <= Cardinality(K)
             THEN 2 * KeepRecentMessages ELSE Cardinality(K)
      /\ s = 1 => list # <<>> /\ IsSystem(list[1]) /\ B[1] = list[1]
      /\ B[s + 1] = Summary(list, path)
      /\ \A k \in 1..M : \E i \in K : FromEnd(K, i) = k /\ B[s + 1 + k] = list[i]
  BY <1>0 DEF IsBuilt
<1>2. /\ \E n \in Nat : Cardinality(K) = 2 * n
      /\ \A i, j \in K, n \in Nat : FromEnd(K, i) = 2 * n + 1 /\ FromEnd(K, j) = 2 * n + 2
                                       => (IsResult(list[i]) <=> ~ IsResult(list[j]))
  BY DEF Coupled
<1>3. \A i \in K : IsResult(list[i]) \/ IsCall(list[i])
  BY DEF Kept
<1>4. PICK h \in Nat : M = 2 * h
  BY <1>1, <1>2, CompactAssumption
<1>5. /\ s = 1 => ~ IsResult(B[1]) /\ ~ IsCall(B[1])
      /\ ~ IsResult(B[s + 1]) /\ ~ IsCall(B[s + 1])
  <2>1. s = 1 => B[1] \in AnyMessage /\ IsSystem(B[1])
    <3>1. 1 \in DOMAIN B
      BY <1>1
    <3>2. B[1] \in AnyMessage
      BY <1>1, <3>1
    <3> HIDE DEF B
    <3> QED BY <1>1, <3>2
  <2>2. s = 1 => ~ IsResult(B[1]) /\ ~ IsCall(B[1])
    BY <2>1, MessageKinds
  <2>3. ~ IsResult(Summary(list, path)) /\ ~ IsCall(Summary(list, path))
    BY DEF Summary, IsResult, IsCall
  <2> HIDE DEF B
  <2> QED BY <1>1, <2>2, <2>3
<1> HIDE DEF B, K
<1>6. \A k \in 1..M : IsResult(B[s + 1 + k]) \/ IsCall(B[s + 1 + k])
  <2> SUFFICES ASSUME NEW k \in 1..M PROVE IsResult(B[s + 1 + k]) \/ IsCall(B[s + 1 + k])
    OBVIOUS
  <2>1. PICK i \in K : B[s + 1 + k] = list[i]
    BY <1>1
  <2> QED BY <1>3, <2>1
<1>7. L = ((s + 1) + 1)..((s + 1) + M)
  <2>1. DOMAIN B = 1..(s + 1 + M)
    BY <1>1
  <2>2. \A k \in 1..M : s + 1 + k \in L
    <3>1. \A k \in 1..M : s + 1 + k \in DOMAIN B
      BY <2>1
    <3> QED BY <1>6, <3>1 DEF Kept
  <2>3. ASSUME NEW p \in L
        PROVE  \E k \in 1..M : p = s + 1 + k
    <3>1. p \in 1..(s + 1 + M) /\ (IsResult(B[p]) \/ IsCall(B[p]))
      BY <2>1 DEF Kept
    <3>2. (p = 1 /\ s = 1) \/ p = s + 1 \/ \E k \in 1..M : p = s + 1 + k
      BY <3>1, BuiltPlaces
    <3> QED BY <1>5, <3>1, <3>2
  <2>4. L \subseteq Int
    BY <2>1 DEF Kept
  <2> HIDE DEF L
  <2>5. \A p \in ((s + 1) + 1)..((s + 1) + M) : p - (s + 1) \in 1..M /\ p = s + 1 + (p - (s + 1))
    OBVIOUS
  <2>6. \A p \in ((s + 1) + 1)..((s + 1) + M) : p \in L
    BY <2>2, <2>5
  <2>7. \A p \in L : p \in ((s + 1) + 1)..((s + 1) + M)
    BY <2>3
  <2> QED BY <2>6, <2>7
<1>8. \A k \in 1..M : FromEnd(L, s + 1 + k) = M - k + 1
  <2> SUFFICES ASSUME NEW k \in 1..M PROVE FromEnd(L, s + 1 + k) = M - k + 1
    OBVIOUS
  <2>1. s + 1 \in Nat
    OBVIOUS
  <2>2. FromEnd(((s + 1) + 1)..((s + 1) + M), (s + 1) + k) = M - k + 1
    BY <2>1, FromEndOfInterval
  <2> HIDE DEF L
  <2> QED BY <1>7, <2>2
<1>9. Cardinality(L) = M
  <2>1. s + 1 \in Nat /\ s + 1 \in Int /\ s + 1 + M \in Int /\ s + 1 + 1 \in Int
    OBVIOUS
  <2>2. Cardinality(((s + 1) + 1)..((s + 1) + M)) = M
    BY <2>1, FS_Interval
  <2> HIDE DEF L
  <2> QED BY <1>7, <2>2
<1>10. \A p \in L : p - (s + 1) \in 1..M /\ p = s + 1 + (p - (s + 1))
  BY <1>7
<1> HIDE DEF L
<1>11. \E n \in Nat : Cardinality(L) = 2 * n + 0
  BY <1>4, <1>9
<1>12. ASSUME NEW p \in L, NEW q \in L, NEW n \in Nat, FromEnd(L, p) = 2 * n + 1 + 0, FromEnd(L, q) = 2 * n + 2 + 0
       PROVE  IsResult(B[p]) <=> ~ IsResult(B[q])
  <2> DEFINE k == p - (s + 1)
             l == q - (s + 1)
  <2>1. k \in 1..M /\ l \in 1..M /\ p = s + 1 + k /\ q = s + 1 + l
    BY <1>10
  <2> HIDE DEF k, l
  <2>2. M - k + 1 = 2 * n + 1 /\ M - l + 1 = 2 * n + 2
    BY <1>8, <1>12, <2>1
  <2>3. h - n - 1 \in Nat /\ l = 2 * (h - n - 1) + 1 /\ k = 2 * (h - n - 1) + 2
    BY <1>4, <2>1, <2>2
  <2>4. PICK i \in K : FromEnd(K, i) = k /\ B[s + 1 + k] = list[i]
    BY <1>1, <2>1
  <2>5. PICK j \in K : FromEnd(K, j) = l /\ B[s + 1 + l] = list[j]
    BY <1>1, <2>1
  <2>6. IsResult(list[j]) <=> ~ IsResult(list[i])
    BY <1>2, <2>3, <2>4, <2>5
  <2> QED BY <2>1, <2>4, <2>5, <2>6
<1>13. ASSUME NEW p \in L, FromEnd(L, p) <= 0
       PROVE  ~ IsResult(B[p])
  <2>1. FromEnd(L, s + 1 + (p - (s + 1))) = M - (p - (s + 1)) + 1 /\ p - (s + 1) \in 1..M
    BY <1>8, <1>10
  <2>2. FromEnd(L, p) = M - (p - (s + 1)) + 1
    BY <1>10, <2>1
  <2> QED BY <1>13, <2>1, <2>2
<1> QED BY <1>11, <1>12, <1>13 DEF Coupled, B, L

\* From a result on, at least half of the calls and results are results.
LEMMA ResultsAreHalf ==
  ASSUME NEW list \in Seq(AnyMessage), Coupled(list, 0), NEW i \in DOMAIN list, IsResult(list[i])
  PROVE  /\ i \in Kept(list)
         /\ Cardinality(ResultsFrom(list, i)) \in Nat
         /\ FromEnd(Kept(list), i) <= 2 * Cardinality(ResultsFrom(list, i))
<1> DEFINE K == Kept(list)
           F == {j \in K : j >= i}
           T == ResultsFrom(list, i)
           C == {j \in F : ~ IsResult(list[j])}
           Couple(j, t) == \E n \in Nat : \/ FromEnd(K, j) = 2 * n + 1 /\ FromEnd(K, t) = 2 * n + 2
                                          \/ FromEnd(K, j) = 2 * n + 2 /\ FromEnd(K, t) = 2 * n + 1
           f == [j \in C |-> CHOOSE t \in T : Couple(j, t)]
<1>1. K \subseteq Nat /\ IsFiniteSet(K) /\ Cardinality(K) \in Nat /\ i \in K
  BY KeptFinite DEF Kept
<1>2. T = {j \in F : IsResult(list[j])} /\ T \subseteq K
  BY DEF ResultsFrom, Kept
<1>3. /\ \E n \in Nat : Cardinality(K) = 2 * n
      /\ \A j, t \in K, n \in Nat : FromEnd(K, j) = 2 * n + 1 /\ FromEnd(K, t) = 2 * n + 2
                                       => (IsResult(list[j]) <=> ~ IsResult(list[t]))
  BY DEF Coupled
<1> HIDE DEF K, T
<1>4. \A j \in K : FromEnd(K, j) \in 1..Cardinality(K) /\ FromEnd(K, j) \in Nat
  <2> SUFFICES ASSUME NEW j \in K PROVE FromEnd(K, j) \in 1..Cardinality(K) /\ FromEnd(K, j) \in Nat
    OBVIOUS
  <2>1. FromEnd(K, j) \in 1..Cardinality(K)
    BY <1>1, FromEndBounds
  <2> QED BY <1>1, <2>1
<1>5. F \in SUBSET K /\ T \in SUBSET F /\ C \in SUBSET F /\ C \in SUBSET K
  BY <1>2
<1>6. ASSUME NEW t \in K, FromEnd(K, t) <= FromEnd(K, i)
      PROVE  t \in F
  <2>1. CASE t < i
    <3>1. FromEnd(K, i) < FromEnd(K, t)
      BY <1>1, <2>1, FromEndFalls
    <3> QED BY <1>1, <1>4, <1>6, <3>1
  <2> QED BY <1>1, <2>1
<1>7. ASSUME NEW j \in C
      PROVE  j \in K /\ FromEnd(K, j) < FromEnd(K, i)
  <2>1. j \in K /\ j >= i /\ j # i
    OBVIOUS
  <2>2. i < j
    BY <1>1, <2>1
  <2> QED BY <1>1, <2>1, <2>2, FromEndFalls
<1>8. ASSUME NEW j \in C
      PROVE  \E t \in T : Couple(j, t)
  <2>1. j \in K /\ ~ IsResult(list[j]) /\ FromEnd(K, j) \in Nat /\ FromEnd(K, j) > 0 /\ FromEnd(K, i) \in Nat
        /\ FromEnd(K, j) < FromEnd(K, i) /\ FromEnd(K, i) <= Cardinality(K)
    BY <1>1, <1>4, <1>7
  <2>2. PICK n \in Nat : FromEnd(K, j) = 2 * n + 1 \/ FromEnd(K, j) = 2 * n + 2
    BY <2>1, OddOrEven
  <2>3. ASSUME NEW r \in 1..Cardinality(K), r <= FromEnd(K, i)
        PROVE  \E t \in F : FromEnd(K, t) = r
    <3>1. PICK t \in K : FromEnd(K, t) = r
      BY <1>1, FromEndReaches
    <3> QED BY <1>6, <2>3, <3>1
  <2>4. CASE FromEnd(K, j) = 2 * n + 1
    <3>1. 2 * n + 2 \in 1..Cardinality(K) /\ 2 * n + 2 <= FromEnd(K, i)
      BY <1>1, <2>1, <2>4
    <3>2. PICK t \in F : FromEnd(K, t) = 2 * n + 2
      BY <2>3, <3>1
    <3>3. IsResult(list[t])
      BY <1>3, <1>5, <2>1, <2>4, <3>2
    <3> QED BY <1>2, <2>4, <3>2, <3>3
  <2>5. CASE FromEnd(K, j) = 2 * n + 2
    <3>1. 2 * n + 1 \in 1..Cardinality(K) /\ 2 * n + 1 <= FromEnd(K, i)
      BY <1>1, <2>1, <2>5
    <3>2. PICK t \in F : FromEnd(K, t) = 2 * n + 1
      BY <2>3, <3>1
    <3>3. IsResult(list[t])
      BY <1>3, <1>5, <2>1, <2>5, <3>2
    <3> QED BY <1>2, <2>5, <3>2, <3>3
  <2> QED BY <2>2, <2>4, <2>5
<1>9. IsFiniteSet(F) /\ IsFiniteSet(T) /\ IsFiniteSet(C)
  BY <1>1, <1>5, FS_Subset
<1>10. Cardinality(F) \in Nat /\ Cardinality(T) \in Nat /\ Cardinality(C) \in Nat
  BY <1>9, FS_CardinalityType
<1>11. \A j \in C : f[j] \in T /\ Couple(j, f[j])
  BY <1>8
<1>12. f \in [C -> T]
  BY <1>11
<1>13. \A j, k \in C : f[j] = f[k] => j = k
  <2> SUFFICES ASSUME NEW j \in C, NEW k \in C, f[j] = f[k] PROVE j = k
    OBVIOUS
  <2> DEFINE t == f[j]
  <2>1. Couple(j, t) /\ Couple(k, t) /\ t \in T
    BY <1>11
  <2> HIDE DEF f, t
  <2>2. j \in K /\ k \in K /\ t \in K
    BY <1>2, <1>7, <2>1
  <2>3. FromEnd(K, j) \in Nat /\ FromEnd(K, k) \in Nat /\ FromEnd(K, t) \in Nat
    BY <1>4, <2>2
  <2>4. FromEnd(K, j) = FromEnd(K, k)
    <3>1. PICK n \in Nat : \/ FromEnd(K, j) = 2 * n + 1 /\ FromEnd(K, t) = 2 * n + 2
                           \/ FromEnd(K, j) = 2 * n + 2 /\ FromEnd(K, t) = 2 * n + 1
      BY <2>1
    <3>2. PICK m \in Nat : \/ FromEnd(K, k) = 2 * m + 1 /\ FromEnd(K, t) = 2 * m + 2
                           \/ FromEnd(K, k) = 2 * m + 2 /\ FromEnd(K, t) = 2 * m + 1
      BY <2>1
    <3> HIDE DEF Couple
    <3> QED BY <3>1, <3>2
  <2> QED BY <1>1, <2>2, <2>4, FromEndDiffers
<1>14. Cardinality(C) <= Cardinality(T)
  <2>1. f \in Injection(C, T)
    BY <1>12, <1>13 DEF Injection, IsInjective
  <2> HIDE DEF f, C
  <2> QED BY <1>9, <2>1, FS_Injection
<1>15. Cardinality(F) = Cardinality(T) + Cardinality(C)
  <2>1. C = F \ T /\ F \cap T = T
    BY <1>2
  <2> HIDE DEF F, C
  <2>2. Cardinality(F \ T) = Cardinality(F) - Cardinality(F \cap T)
    BY <1>9, FS_Difference
  <2>3. Cardinality(C) = Cardinality(F) - Cardinality(T)
    BY <2>1, <2>2
  <2> QED BY <1>10, <2>3
<1>16. FromEnd(K, i) = Cardinality(F)
  BY DEF FromEnd
<1> HIDE DEF F, C
<1>17. FromEnd(K, i) <= 2 * Cardinality(T)
  BY <1>10, <1>14, <1>15, <1>16
<1> QED BY <1>1, <1>10, <1>17 DEF K, T

-----------------------------------------------------------------------------
(* CompactInv is inductive *)

LEMMA CoupledInit == CompactInit => CoupledInv
<1> SUFFICES ASSUME CompactInit PROVE CoupledInv
  OBVIOUS
<1>1. Kept(messages) = {} /\ turn = "open"
  BY DEF CompactInit, Kept
<1>2. Cardinality({}) = 2 * 0 + 0
  BY FS_EmptySet
<1> QED BY <1>1, <1>2 DEF CoupledInv, Coupled

LEMMA MicroCoupled ==
  ASSUME ContinuesInv, CoupledInv, turn # "tool"
  PROVE  Coupled(Micro, 0)
<1>1. messages \in Seq(AnyMessage) /\ Coupled(messages, 0)
  BY DEF ContinuesInv, CompactTyped, CoupledInv
<1>2. Kept(Micro) = Kept(messages) /\ \A i \in DOMAIN messages : IsResult(Micro[i]) <=> IsResult(messages[i])
  BY <1>1, MicroKeeps DEF Micro
<1>3. Kept(messages) \subseteq DOMAIN messages
  BY <1>1, KeptFinite
<1> QED BY <1>1, <1>2, <1>3, CoupledSame

\* What BeforeModel makes of the messages, as BuiltOf needs it.
LEMMA MicroReady ==
  ASSUME ContinuesInv
  PROVE  /\ Micro \in Seq(AnyMessage) /\ DOMAIN Micro = DOMAIN messages
         /\ \A i \in DOMAIN Micro : IsSystem(Micro[i]) => i = 1
         /\ \A path \in {second, NoPath} : path \in Nat \union {NoPath}
<1>1. messages \in Seq(AnyMessage) /\ second \in Nat
  BY DEF ContinuesInv, CompactTyped
<1>2. /\ Micro \in Seq(AnyMessage) /\ DOMAIN Micro = DOMAIN messages
      /\ \A i \in DOMAIN messages : IsSystem(Micro[i]) <=> IsSystem(messages[i])
  BY <1>1, MicroKeeps DEF Micro
<1> QED BY <1>1, <1>2 DEF ContinuesInv, SystemFirst

LEMMA CoupledStep == ContinuesInv /\ CoupledInv /\ [CompactNext]_compactVars => CoupledInv'
<1> SUFFICES ASSUME ContinuesInv, CoupledInv, [CompactNext]_compactVars PROVE CoupledInv'
  OBVIOUS
<1>0. Len(said) \in Nat /\ messages \in Seq(AnyMessage)
  BY DEF ContinuesInv, CompactTyped
<1>1. ASSUME NEW m \in Spoken, ~ IsResult(m), ~ IsCall(m), Say(m), turn # "tool", turn' # "tool"
      PROVE  CoupledInv'
  <2>1. m \in AnyMessage /\ Coupled(messages, 0) /\ messages' = Append(messages, m)
    BY <1>1 DEF AnyMessage, CoupledInv, Say
  <2>2. Coupled(Append(messages, m), 0)
    BY <1>0, <1>1, <2>1, OthersCoupled
  <2> QED BY <1>1, <2>1, <2>2 DEF CoupledInv
<1>2. CASE SystemSpeaks
  <2> DEFINE m == Message("system", 40, 0)
  <2>1. m \in Spoken /\ ~ IsResult(m) /\ ~ IsCall(m)
    BY <1>0 DEF Message, Spoken, Roles, IsResult, IsCall
  <2>2. Say(m) /\ turn = "open" /\ turn' = "open"
    BY <1>2 DEF SystemSpeaks
  <2> HIDE DEF m
  <2> QED BY <1>1, <2>1, <2>2
<1>3. CASE ModelCalls
  <2> DEFINE m == Message("assistant", 0, 1)
  <2>1. m \in AnyMessage /\ IsCall(m)
    BY <1>0 DEF Message, AnyMessage, Spoken, Roles, IsCall
  <2>2. Say(m) /\ turn = "model" /\ turn' = "tool"
    BY <1>3 DEF ModelCalls
  <2> HIDE DEF m
  <2>3. Coupled(messages, 0) /\ messages' = Append(messages, m)
    BY <2>2 DEF CoupledInv, Say
  <2>4. Coupled(Append(messages, m), 1)
    BY <1>0, <2>1, <2>3, CallOpens
  <2> QED BY <2>2, <2>3, <2>4 DEF CoupledInv
<1>4. CASE Tick
  BY <1>4 DEF Tick, CoupledInv
<1>5. CASE StaysAsItIs
  <2>1. Coupled(Micro, 0)
    BY <1>5, MicroCoupled DEF StaysAsItIs
  <2> QED BY <1>5, <2>1 DEF StaysAsItIs, CoupledInv
<1>6. ASSUME NEW size \in Sizes, UserSpeaks(size)
      PROVE  CoupledInv'
  <2> DEFINE m == Message("user", size, 0)
  <2>1. m \in Spoken /\ ~ IsResult(m) /\ ~ IsCall(m)
    BY <1>0, CompactAssumption DEF Message, Spoken, Roles, IsResult, IsCall
  <2>2. Say(m) /\ turn = "open" /\ turn' = "before"
    BY <1>6 DEF UserSpeaks
  <2> HIDE DEF m
  <2> QED BY <1>1, <2>1, <2>2
<1>7. ASSUME NEW size \in Sizes, ModelSpeaks(size)
      PROVE  CoupledInv'
  <2> DEFINE m == Message("assistant", size, 0)
  <2>1. m \in Spoken /\ ~ IsResult(m) /\ ~ IsCall(m)
    BY <1>0, CompactAssumption DEF Message, Spoken, Roles, IsResult, IsCall
  <2>2. Say(m) /\ turn = "model" /\ turn' = "open"
    BY <1>7 DEF ModelSpeaks
  <2> HIDE DEF m
  <2> QED BY <1>1, <2>1, <2>2
<1>8. ASSUME NEW size \in Sizes, ToolAnswers(size)
      PROVE  CoupledInv'
  <2> DEFINE m == Message("tool", size, 0)
  <2>1. m \in AnyMessage /\ IsResult(m)
    BY <1>0, CompactAssumption DEF Message, AnyMessage, Spoken, Roles, IsResult
  <2>2. Say(m) /\ turn = "tool" /\ turn' = "before"
    BY <1>8 DEF ToolAnswers
  <2> HIDE DEF m
  <2>3. Coupled(messages, 1) /\ messages' = Append(messages, m)
    BY <2>2 DEF CoupledInv, Say
  <2>4. Coupled(Append(messages, m), 0)
    BY <1>0, <2>1, <2>3, ResultCloses
  <2> QED BY <2>2, <2>3, <2>4 DEF CoupledInv
<1>9. ASSUME NEW path \in {second, NoPath}, Compacts(path)
      PROVE  CoupledInv'
  <2>1. turn = "before" /\ turn' = "model" /\ messages' = BuildCompactedState(Micro, path)
    BY <1>9 DEF Compacts
  <2>2. Coupled(Micro, 0)
    BY <2>1, MicroCoupled
  <2>3. Micro \in Seq(AnyMessage)
    BY MicroReady
  <2>4. path \in Nat \union {NoPath}
    BY MicroReady
  <2>5. \A i \in DOMAIN Micro : IsSystem(Micro[i]) => i = 1
    BY MicroReady
  <2>6. Coupled(BuildCompactedState(Micro, path), 0)
    BY <2>2, <2>3, <2>4, <2>5, BuiltCoupled
  <2> QED BY <2>1, <2>6 DEF CoupledInv
<1>10. ASSUME NEW path \in {second, NoPath}, SummaryFails(path)
       PROVE  CoupledInv'
  <2>1. turn = "before" /\ turn' = turn /\ messages' = Micro
    BY <1>10 DEF SummaryFails
  <2>2. Coupled(Micro, 0)
    BY <2>1, MicroCoupled
  <2> QED BY <2>1, <2>2 DEF CoupledInv
<1>11. CASE UNCHANGED compactVars
  BY <1>11 DEF compactVars, CoupledInv
<1> QED BY <1>2, <1>3, <1>4, <1>5, <1>6, <1>7, <1>8, <1>9, <1>10, <1>11 DEF CompactNext

LEMMA CompactInductive == CompactSpec => []CompactInv
<1>1. CompactInit => CompactInv
  BY ContinuesInit, CoupledInit DEF CompactInv
<1>2. CompactInv /\ [CompactNext]_compactVars => CompactInv'
  BY ContinuesStep, CoupledStep DEF CompactInv
<1> QED BY <1>1, <1>2, PTL DEF CompactSpec

\* The conversation is all there, in messages or in the one summary, whatever the
\* model, the tools and the disk do between the calls of BeforeModel.
THEOREM ConversationKept == CompactSpec => []ConversationContinues
<1>1. CompactInv => ConversationContinues
  <2> SUFFICES ASSUME ContinuesInv PROVE ConversationContinues
    BY DEF CompactInv
  <2>1. Cardinality({i \in DOMAIN messages : messages[i].id = 0}) <= 1
    <3> DEFINE Z == {i \in DOMAIN messages : messages[i].id = 0}
    <3>1. CASE Z = {}
      <4>1. Cardinality(Z) = 0
        BY <3>1, FS_EmptySet
      <4> HIDE DEF Z
      <4> QED BY <4>1 DEF Z
    <3>2. CASE Z # {}
      <4>1. PICK z \in Z : TRUE
        BY <3>2
      <4>2. Z = {z}
        BY <4>1 DEF ContinuesInv, IDsDiffer
      <4>3. Cardinality(Z) = 1
        BY <4>2, FS_Singleton
      <4> QED BY <4>3
    <3> QED BY <3>1, <3>2
  <2> QED BY <2>1 DEF ContinuesInv, ConversationContinues, EverythingHeld, SystemFirst, SummariesFiled
<1> QED BY <1>1, CompactInductive, PTL

-----------------------------------------------------------------------------
(* The last results stay *)

LastResultsWhole ==
    \A i \in DOMAIN messages :
        /\ IsResult(messages[i]) /\ messages[i].whole
        /\ Cardinality(ResultsFrom(messages, i)) <= KeepRecentMessages
        => \E j \in DOMAIN messages' : messages'[j] = messages[i]

GoneStaysGone ==
    \A i \in DOMAIN messages, j \in DOMAIN messages' :
        messages[i].id > 0 /\ messages'[j].id = messages[i].id /\ ~ messages[i].whole
           => ~ messages'[j].whole

LEMMA SayKeepsResults ==
  ASSUME ContinuesInv, NEW m, m \in Spoken, m.id = Len(said) + 1, Say(m)
  PROVE  LastResultsWhole /\ GoneStaysGone
<1> DEFINE n == Len(messages)
<1>1. messages \in Seq(AnyMessage) /\ m \in AnyMessage /\ messages' = Append(messages, m) /\ Len(said) \in Nat
  BY DEF ContinuesInv, CompactTyped, Say, AnyMessage
<1>2. /\ n \in Nat /\ DOMAIN messages = 1..n /\ DOMAIN messages' = 1..(n + 1)
      /\ \A i \in 1..n : messages'[i] = messages[i]
      /\ messages'[n + 1] = m
      /\ \A i \in 1..(n + 1) : i \in 1..n \/ i = n + 1
  BY <1>1, Appended
<1>3. \A i \in 1..n : i \in 1..(n + 1)
  BY <1>2
<1>4. \A i \in DOMAIN messages : messages[i].id # m.id
  BY <1>1, IDsWereSaid
<1> HIDE DEF n
<1>5. LastResultsWhole
  BY <1>2, <1>3 DEF LastResultsWhole
<1>6. GoneStaysGone
  BY <1>2, <1>4 DEF GoneStaysGone, ContinuesInv, IDsDiffer
<1> QED BY <1>5, <1>6

LEMMA MicroKeepsResults ==
  ASSUME ContinuesInv, messages' = Micro
  PROVE  LastResultsWhole /\ GoneStaysGone
<1>1. messages \in Seq(AnyMessage) /\ DOMAIN messages' = DOMAIN messages
  BY MicroReady DEF ContinuesInv, CompactTyped
<1>2. \A i \in DOMAIN messages :
        /\ messages'[i].id = messages[i].id
        /\ messages'[i] # messages[i] => /\ ~ messages'[i].whole
                                         /\ ~ (Cardinality(ResultsFrom(messages, i)) <= KeepRecentMessages)
  BY <1>1, MicroOf DEF Micro
<1>3. LastResultsWhole
  BY <1>1, <1>2 DEF LastResultsWhole
<1>4. GoneStaysGone
  <2> SUFFICES ASSUME NEW i \in DOMAIN messages, NEW j \in DOMAIN messages,
                      messages'[j].id = messages[i].id, ~ messages[i].whole
               PROVE  ~ messages'[j].whole
    BY <1>1 DEF GoneStaysGone
  <2>1. i = j
    BY <1>2 DEF ContinuesInv, IDsDiffer
  <2> QED BY <1>2, <2>1
<1> QED BY <1>3, <1>4

LEMMA CompactsKeepsResults ==
  ASSUME CompactInv, NEW path \in {second, NoPath}, Compacts(path)
  PROVE  LastResultsWhole /\ GoneStaysGone
<1> DEFINE list == Micro
           K == Kept(list)
           B == BuildCompactedState(list, path)
<1>1. turn = "before" /\ messages' = B /\ messages \in Seq(AnyMessage) /\ ContinuesInv /\ CoupledInv
  BY DEF Compacts, CompactInv, ContinuesInv, CompactTyped
<1>2. /\ list \in Seq(AnyMessage) /\ DOMAIN list = DOMAIN messages
      /\ \A i \in DOMAIN list : IsSystem(list[i]) => i = 1
      /\ path \in Nat \union {NoPath}
  BY <1>1, MicroReady
<1>3. Coupled(list, 0)
  BY <1>1, MicroCoupled
<1>4. \A i \in DOMAIN messages :
        /\ list[i].id = messages[i].id
        /\ list[i] # messages[i] => /\ ~ list[i].whole
                                    /\ ~ (Cardinality(ResultsFrom(messages, i)) <= KeepRecentMessages)
  BY <1>1, MicroOf DEF Micro
<1>5. \A i : ResultsFrom(list, i) = ResultsFrom(messages, i)
  <2>1. \A j \in DOMAIN messages : IsResult(list[j]) <=> IsResult(messages[j])
    BY <1>1, MicroKeeps DEF Micro
  <2> HIDE DEF list
  <2> QED BY <1>2, <2>1 DEF ResultsFrom
<1> HIDE DEF list
<1>built. PICK s \in {0, 1}, M \in Nat : IsBuilt(B, list, path, s, M)
  BY <1>2, BuiltOf
<1>6. /\ B \in Seq(AnyMessage) /\ Len(B) = s + 1 + M
      /\ M = IF 2 * KeepRecentMessages <= Cardinality(K)
             THEN 2 * KeepRecentMessages ELSE Cardinality(K)
      /\ s = 1 => list # <<>> /\ IsSystem(list[1]) /\ B[1] = list[1]
      /\ B[s + 1] = Summary(list, path)
      /\ \A k \in 1..M : \E i \in K : FromEnd(K, i) = k /\ B[s + 1 + k] = list[i]
  BY <1>built DEF IsBuilt
<1>7. /\ K \subseteq Nat /\ K \subseteq DOMAIN list /\ IsFiniteSet(K) /\ Cardinality(K) \in Nat
  BY <1>2, KeptFinite
<1>8. Summary(list, path).id = 0
  BY DEF Summary
<1>9. \A i \in DOMAIN list : IsResult(list[i])
         => /\ i \in K /\ Cardinality(ResultsFrom(list, i)) \in Nat
            /\ FromEnd(K, i) <= 2 * Cardinality(ResultsFrom(list, i))
  BY <1>2, <1>3, ResultsAreHalf
<1> HIDE DEF K, B
<1>10. DOMAIN B = 1..(s + 1 + M)
  BY <1>6
<1>11. LastResultsWhole
  <2> SUFFICES ASSUME NEW i \in DOMAIN messages, IsResult(messages[i]), messages[i].whole,
                      Cardinality(ResultsFrom(messages, i)) <= KeepRecentMessages
               PROVE  \E j \in DOMAIN messages' : messages'[j] = messages[i]
    BY DEF LastResultsWhole
  <2>1. list[i] = messages[i] /\ i \in DOMAIN list
    BY <1>2, <1>4
  <2>2. i \in K /\ Cardinality(ResultsFrom(list, i)) \in Nat
        /\ FromEnd(K, i) <= 2 * Cardinality(ResultsFrom(list, i))
        /\ Cardinality(ResultsFrom(list, i)) <= KeepRecentMessages
    BY <1>5, <1>9, <2>1
  <2>3. FromEnd(K, i) \in 1..Cardinality(K)
    BY <1>7, <2>2, FromEndBounds
  <2>4. FromEnd(K, i) \in 1..M
    BY <1>6, <1>7, <2>2, <2>3, CompactAssumption
  <2>5. PICK j \in K : FromEnd(K, j) = FromEnd(K, i) /\ B[s + 1 + FromEnd(K, i)] = list[j]
    BY <1>6, <2>4
  <2>6. j = i
    BY <1>7, <2>2, <2>5, FromEndDiffers
  <2>7. s + 1 + FromEnd(K, i) \in DOMAIN B
    BY <1>10, <2>4
  <2> QED BY <1>1, <2>1, <2>5, <2>6, <2>7
<1>12. GoneStaysGone
  <2> SUFFICES ASSUME NEW i \in DOMAIN messages, NEW p \in DOMAIN B,
                      messages[i].id > 0, B[p].id = messages[i].id, ~ messages[i].whole
               PROVE  ~ B[p].whole
    BY <1>1 DEF GoneStaysGone
  <2>1. p \in 1..(s + 1 + M)
    BY <1>10
  <2>2. (p = 1 /\ s = 1) \/ p = s + 1 \/ \E k \in 1..M : p = s + 1 + k
    BY <2>1, BuiltPlaces
  <2>3. B[s + 1].id = 0
    BY <1>6, <1>8
  <2>4. \E j \in DOMAIN list : B[p] = list[j]
    <3>1. CASE p = 1 /\ s = 1
      <4>1. list # <<>> /\ B[p] = list[1]
        BY <1>6, <3>1
      <4>2. 1 \in DOMAIN list
        BY <1>2, <4>1
      <4> QED BY <4>1, <4>2
    <3>2. CASE p = s + 1
      BY <2>3, <3>2
    <3>3. CASE \E k \in 1..M : p = s + 1 + k
      BY <1>6, <1>7, <3>3
    <3> QED BY <2>2, <3>1, <3>2, <3>3
  <2>5. PICK j \in DOMAIN messages : B[p] = list[j]
    BY <1>2, <2>4
  <2>6. messages[j].id = messages[i].id
    BY <1>4, <2>5
  <2>7. j = i
    BY <1>1, <2>6 DEF ContinuesInv, IDsDiffer
  <2> QED BY <1>4, <2>5, <2>7
<1> QED BY <1>11, <1>12

LEMMA ResultsStep == CompactInv /\ CompactNext => LastResultsWhole /\ GoneStaysGone
<1> SUFFICES ASSUME CompactInv, CompactNext PROVE LastResultsWhole /\ GoneStaysGone
  OBVIOUS
<1>0. ContinuesInv /\ Len(said) \in Nat
  BY DEF CompactInv, ContinuesInv, CompactTyped
<1>1. CASE SystemSpeaks
  <2> DEFINE m == Message("system", 40, 0)
  <2>1. m \in Spoken /\ m.id = Len(said) + 1
    BY <1>0 DEF Message, Spoken, Roles
  <2>2. Say(m)
    BY <1>1 DEF SystemSpeaks
  <2> HIDE DEF m
  <2> QED BY <1>0, <2>1, <2>2, SayKeepsResults
<1>2. CASE ModelCalls
  <2> DEFINE m == Message("assistant", 0, 1)
  <2>1. m \in Spoken /\ m.id = Len(said) + 1
    BY <1>0 DEF Message, Spoken, Roles
  <2>2. Say(m)
    BY <1>2 DEF ModelCalls
  <2> HIDE DEF m
  <2> QED BY <1>0, <2>1, <2>2, SayKeepsResults
<1>3. CASE Tick
  <2>1. messages' = messages
    BY <1>3 DEF Tick
  <2> QED BY <1>0, <2>1 DEF LastResultsWhole, GoneStaysGone, ContinuesInv, IDsDiffer
<1>4. CASE StaysAsItIs
  BY <1>0, <1>4, MicroKeepsResults DEF StaysAsItIs
<1>5. ASSUME NEW size \in Sizes, NEW role \in {"user", "assistant", "tool"}, Say(Message(role, size, 0))
      PROVE  LastResultsWhole /\ GoneStaysGone
  <2> DEFINE m == Message(role, size, 0)
  <2>1. m \in Spoken /\ m.id = Len(said) + 1
    BY <1>0, CompactAssumption DEF Message, Spoken, Roles
  <2>2. Say(m)
    BY <1>5
  <2> HIDE DEF m
  <2> QED BY <1>0, <2>1, <2>2, SayKeepsResults
<1>6. CASE \E size \in Sizes : UserSpeaks(size) \/ ModelSpeaks(size) \/ ToolAnswers(size)
  BY <1>5, <1>6 DEF UserSpeaks, ModelSpeaks, ToolAnswers
<1>7. ASSUME NEW path \in {second, NoPath}, Compacts(path)
      PROVE  LastResultsWhole /\ GoneStaysGone
  BY <1>7, CompactsKeepsResults
<1>8. ASSUME NEW path \in {second, NoPath}, SummaryFails(path)
      PROVE  LastResultsWhole /\ GoneStaysGone
  BY <1>0, <1>8, MicroKeepsResults DEF SummaryFails
<1> QED BY <1>1, <1>2, <1>3, <1>4, <1>6, <1>7, <1>8 DEF CompactNext

\* A round of BeforeModel leaves the last KeepRecentMessages results whole, whatever
\* was put back in reverse before, and brings no content back.
THEOREM LastResultsKept == CompactSpec => LastResultsStay
<1>1. CompactInv /\ [CompactNext]_compactVars => [LastResultsWhole /\ GoneStaysGone]_compactVars
  BY ResultsStep
<1>2. [LastResultsWhole /\ GoneStaysGone]_compactVars
        => [/\ \A i \in DOMAIN messages :
                 /\ IsResult(messages[i]) /\ messages[i].whole
                 /\ Cardinality(ResultsFrom(messages, i)) <= KeepRecentMessages
                 => \E j \in DOMAIN messages' : messages'[j] = messages[i]
            /\ \A i \in DOMAIN messages, j \in DOMAIN messages' :
                 messages[i].id > 0 /\ messages'[j].id = messages[i].id /\ ~ messages[i].whole
                    => ~ messages'[j].whole]_compactVars
  BY DEF LastResultsWhole, GoneStaysGone
<1> QED BY <1>1, <1>2, CompactInductive, PTL DEF CompactSpec, LastResultsStay

=============================================================================
