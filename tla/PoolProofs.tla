----------------------------- MODULE PoolProofs -----------------------------
(***************************************************************************)
(* Proofs about the three components that own a pool of goroutines:        *)
(* EmbedBatch, DocPipeline and RedisPubSub.  Each has an inductive         *)
(* invariant of its own; the last theorem puts their types together for    *)
(* the composition that MCPools checks.                                    *)
(***************************************************************************)
EXTENDS MCPools, FiniteSetTheorems, TLAPS

-----------------------------------------------------------------------------
(* EmbedBatch: the inductive invariant *)

\* The tasks of the batches before next exist; the caller waits when all do.
TasksInOrder ==
    /\ \A b \in B : task[b] = "none" <=> b >= next
    /\ epc = "wait" => next > Batches

\* The batch whose error is recorded had one, and no error goes unrecorded.
ErrorsRecorded ==
    /\ firstErr # NoErr => firstErr \in erred
    /\ \A b \in B : task[b] = "error" => b \in erred
    /\ \A b \in erred : task[b] = "error" \/ (task[b] = "ended" /\ firstErr # NoErr)

\* A task that stores has an answer, and a short one is remembered.
AnswersKnown ==
    /\ \A b \in B : task[b] = "store" => answer[b] # "none"
    /\ \A b \in B : answer[b] = "some" => short

\* A task ends without all its vectors only after an error or a short answer.
TasksEndWell ==
    \A b \in B : task[b] = "ended" => vectors[b] = "all" \/ firstErr # NoErr \/ short

\* What the caller has got when it has returned.
CallerKnows ==
    /\ eret = "results" =>
          /\ firstErr = NoErr /\ epc = "returned"
          /\ \A b \in B : task[b] = "ended"
    /\ eret = "error" => released \/ firstErr # NoErr
    /\ epc = "returned" => released \/ \A b \in B : task[b] \in {"none", "ended"}

EmbedInv ==
    /\ EmbedTypes
    /\ TasksInOrder
    /\ ErrorsRecorded
    /\ AnswersKnown
    /\ TasksEndWell
    /\ CallerKnows

LEMMA EmbedInitHolds == EmbedInit => EmbedInv
<1> SUFFICES ASSUME EmbedInit PROVE EmbedInv
  OBVIOUS
<1>1. EmbedTypes
  <2>1. next \in 1..(Batches + 1)
    BY EmbedAssumption DEF EmbedInit
  <2>2. /\ task \in [B -> {"none", "check", "embed", "error", "store", "ended"}]
        /\ vectors \in [B -> {"none", "some", "all"}]
        /\ answer \in [B -> {"none", "some", "all"}]
    BY DEF EmbedInit
  <2> QED BY <2>1, <2>2 DEF EmbedInit, EmbedTypes
<1>2. TasksInOrder
  BY EmbedAssumption DEF EmbedInit, TasksInOrder, B
<1>3. ErrorsRecorded /\ AnswersKnown /\ TasksEndWell /\ CallerKnows
  BY DEF EmbedInit, ErrorsRecorded, AnswersKnown, TasksEndWell, CallerKnows
<1> QED BY <1>1, <1>2, <1>3 DEF EmbedInv

LEMMA SubmitKeepsInv == EmbedInv /\ Submit => EmbedInv'
BY EmbedAssumption
   DEF Submit, EmbedInv, EmbedTypes, TasksInOrder, ErrorsRecorded, AnswersKnown,
       TasksEndWell, CallerKnows, B

LEMMA AllSubmittedKeepsInv == EmbedInv /\ AllSubmitted => EmbedInv'
BY EmbedAssumption
   DEF AllSubmitted, EmbedInv, EmbedTypes, TasksInOrder, ErrorsRecorded, AnswersKnown,
       TasksEndWell, CallerKnows, B

LEMMA EmbedReturnKeepsInv == EmbedInv /\ EmbedReturn => EmbedInv'
BY SMTT(30), EmbedAssumption
   DEF EmbedReturn, WaitOver, Pending, EmbedInv, EmbedTypes, TasksInOrder, ErrorsRecorded,
       AnswersKnown, TasksEndWell, CallerKnows, B

LEMMA CheckKeepsInv ==
    ASSUME EmbedInv, NEW b \in B, Check(b)
    PROVE  EmbedInv'
BY SMTT(30), EmbedAssumption
   DEF Check, EmbedInv, EmbedTypes, TasksInOrder, ErrorsRecorded, AnswersKnown,
       TasksEndWell, CallerKnows, B

LEMMA EmbedKeepsInv ==
    ASSUME EmbedInv, NEW b \in B, Embed(b)
    PROVE  EmbedInv'
<1>1. EmbedTypes'
  BY ZenonT(30) DEF Embed, EmbedInv, EmbedTypes
<1>2. TasksInOrder'
  BY DEF Embed, EmbedInv, EmbedTypes, TasksInOrder
<1>3. ErrorsRecorded'
  BY DEF Embed, EmbedInv, EmbedTypes, ErrorsRecorded
<1>4. AnswersKnown'
  BY DEF Embed, EmbedInv, EmbedTypes, AnswersKnown
<1>5. TasksEndWell'
  BY DEF Embed, EmbedInv, EmbedTypes, TasksEndWell
<1>6. CallerKnows'
  BY DEF Embed, EmbedInv, EmbedTypes, CallerKnows
<1> QED BY <1>1, <1>2, <1>3, <1>4, <1>5, <1>6 DEF EmbedInv

LEMMA RecordErrorKeepsInv ==
    ASSUME EmbedInv, NEW b \in B, RecordError(b)
    PROVE  EmbedInv'
<1>1. b # NoErr
  BY EmbedAssumption DEF B
<1>2. EmbedTypes'
  BY DEF RecordError, KeepFirst, EmbedInv, EmbedTypes
<1>3. TasksInOrder'
  BY DEF RecordError, EmbedInv, EmbedTypes, TasksInOrder
<1>4. ErrorsRecorded'
  BY <1>1 DEF RecordError, KeepFirst, EmbedInv, EmbedTypes, ErrorsRecorded
<1>5. AnswersKnown'
  BY DEF RecordError, EmbedInv, EmbedTypes, AnswersKnown
<1>6. TasksEndWell'
  BY <1>1 DEF RecordError, KeepFirst, EmbedInv, EmbedTypes, TasksEndWell
<1>7. CallerKnows'
  BY DEF RecordError, KeepFirst, EmbedInv, EmbedTypes, CallerKnows
<1> QED BY <1>2, <1>3, <1>4, <1>5, <1>6, <1>7 DEF EmbedInv

LEMMA StoreKeepsInv ==
    ASSUME EmbedInv, NEW b \in B, Store(b)
    PROVE  EmbedInv'
BY EmbedAssumption
   DEF Store, EmbedInv, EmbedTypes, TasksInOrder, ErrorsRecorded, AnswersKnown,
       TasksEndWell, CallerKnows, B

LEMMA ReleasePoolKeepsInv == EmbedInv /\ ReleasePool => EmbedInv'
BY EmbedAssumption
   DEF ReleasePool, EmbedInv, EmbedTypes, TasksInOrder, ErrorsRecorded, AnswersKnown,
       TasksEndWell, CallerKnows, B

LEMMA EmbedStutterKeepsInv == EmbedInv /\ UNCHANGED embedVars => EmbedInv'
BY DEF embedVars, EmbedInv, EmbedTypes, TasksInOrder, ErrorsRecorded, AnswersKnown,
       TasksEndWell, CallerKnows

LEMMA EmbedStepKeepsInv == EmbedInv /\ [EmbedNext]_embedVars => EmbedInv'
<1> SUFFICES ASSUME EmbedInv, [EmbedNext]_embedVars
             PROVE  EmbedInv'
  OBVIOUS
<1>1. CASE CallerStep
  BY <1>1, SubmitKeepsInv, AllSubmittedKeepsInv, EmbedReturnKeepsInv DEF CallerStep
<1>2. CASE ReleasePool
  BY <1>2, ReleasePoolKeepsInv
<1>3. ASSUME NEW b \in B, TaskStep(b)
      PROVE  EmbedInv'
  BY <1>3, CheckKeepsInv, EmbedKeepsInv, RecordErrorKeepsInv, StoreKeepsInv DEF TaskStep
<1>4. CASE UNCHANGED embedVars
  BY <1>4, EmbedStutterKeepsInv
<1> QED
  BY <1>1, <1>2, <1>3, <1>4 DEF EmbedNext

LEMMA EmbedInvAlways == EmbedSpec => []EmbedInv
BY EmbedInitHolds, EmbedStepKeepsInv, PTL DEF EmbedSpec

LEMMA EmbedInvIsEnough == EmbedInv => EmbedTypes /\ EmbedAnswers
BY EmbedAssumption
   DEF EmbedInv, EmbedTypes, TasksInOrder, ErrorsRecorded, AnswersKnown, TasksEndWell,
       CallerKnows, EmbedAnswers, ResultsComplete, ErrorForAReason, Pending, B

\* BatchEmbedWithPool: however the tasks, the caller and the owner of the pool are
\* scheduled, and although firstErr is read without its mutex, results are complete,
\* errors have a cause, and a caller that has waited is alone with them.
THEOREM EmbeddingsComplete == EmbedSpec => []EmbedAnswers
BY EmbedInvAlways, EmbedInvIsEnough, PTL
-----------------------------------------------------------------------------
(* RedisPubSub: how often a message is in a queue *)

Places(m, q) == {n \in 1..Len(q) : q[n] = m}

LEMMA PlacesFinite ==
    ASSUME NEW q \in Seq(Posts), NEW m
    PROVE  /\ IsFiniteSet(Places(m, q))
           /\ Occurrences(m, q) = Cardinality(Places(m, q))
           /\ Occurrences(m, q) \in Nat
<1>1. IsFiniteSet(1..Len(q))
  BY FS_Interval
<1>2. Places(m, q) \subseteq 1..Len(q)
  BY DEF Places
<1>3. IsFiniteSet(Places(m, q))
  BY <1>1, <1>2, FS_Subset
<1> QED BY <1>3, FS_CardinalityType DEF Occurrences, Places

LEMMA NoneInEmpty == ASSUME NEW m PROVE Occurrences(m, <<>>) = 0
<1>1. {n \in 1..Len(<<>>) : <<>>[n] = m} = {}
  OBVIOUS
<1> QED BY <1>1, FS_EmptySet DEF Occurrences

LEMMA OccurrencesOfAppend ==
    ASSUME NEW q \in Seq(Posts), NEW x \in Posts, NEW m
    PROVE  Occurrences(m, Append(q, x)) = Occurrences(m, q) + (IF x = m THEN 1 ELSE 0)
<1> DEFINE r == Append(q, x)
           l == Len(q) + 1
<1>1. r \in Seq(Posts) /\ Len(r) = l /\ l \in Nat
  OBVIOUS
<1>2. \A n \in 1..Len(q) : r[n] = q[n]
  OBVIOUS
<1>3. r[l] = x
  OBVIOUS
<1>4. l \notin Places(m, q)
  BY DEF Places
<1>5. /\ Occurrences(m, q) = Cardinality(Places(m, q)) /\ IsFiniteSet(Places(m, q))
      /\ Occurrences(m, r) = Cardinality(Places(m, r)) /\ Occurrences(m, q) \in Nat
  BY <1>1, PlacesFinite
<1> HIDE DEF r
<1>6. ASSUME x = m PROVE Places(m, r) = Places(m, q) \cup {l}
  BY <1>1, <1>2, <1>3, <1>6 DEF Places
<1>7. ASSUME x # m PROVE Places(m, r) = Places(m, q)
  BY <1>1, <1>2, <1>3, <1>7 DEF Places
<1>8. Occurrences(m, r) = Occurrences(m, q) + (IF x = m THEN 1 ELSE 0)
  <2>1. CASE x = m
    <3>1. Cardinality(Places(m, q) \cup {l}) = Cardinality(Places(m, q)) + 1
      BY <1>4, <1>5, FS_AddElement
    <3> QED BY <2>1, <3>1, <1>5, <1>6
  <2>2. CASE x # m
    BY <2>2, <1>5, <1>7
  <2> QED BY <2>1, <2>2
<1> QED BY <1>8 DEF r

LEMMA OccurrencesOfTail ==
    ASSUME NEW q \in Seq(Posts), q # <<>>, NEW m
    PROVE  Occurrences(m, q) = Occurrences(m, Tail(q)) + (IF Head(q) = m THEN 1 ELSE 0)
<1> DEFINE r == Tail(q)
           Q == Places(m, q) \ {1}
           R == Places(m, r)
           f == [n \in R |-> n + 1]
<1>1. /\ r \in Seq(Posts) /\ Len(q) \in Nat /\ Len(q) >= 1 /\ Len(r) = Len(q) - 1
      /\ \A n \in 1..(Len(q) - 1) : r[n] = q[n + 1]
      /\ Head(q) = q[1]
  OBVIOUS
<1>2. /\ Occurrences(m, q) = Cardinality(Places(m, q)) /\ IsFiniteSet(Places(m, q))
      /\ Occurrences(m, r) = Cardinality(R) /\ IsFiniteSet(R) /\ Occurrences(m, r) \in Nat
  BY <1>1, PlacesFinite
<1> HIDE DEF r
<1>3. f \in [R -> Q]
  BY <1>1 DEF Places
<1>4. \A a, b \in R : f[a] = f[b] => a = b
  BY DEF Places
<1>5. \A k \in Q : \E n \in R : f[n] = k
  <2> SUFFICES ASSUME NEW k \in Q PROVE k - 1 \in R /\ f[k - 1] = k
    OBVIOUS
  <2> QED BY <1>1 DEF Places
<1>6. f \in Bijection(R, Q)
  BY <1>3, <1>4, <1>5 DEF Bijection, Injection, Surjection, IsInjective
<1> HIDE DEF f, Q, R
<1>7. IsFiniteSet(Q) /\ Cardinality(Q) = Cardinality(R)
  BY <1>2, <1>6, FS_Bijection DEF ExistsBijection
<1>8. CASE Head(q) = m
  <2>1. 1 \notin Q /\ Places(m, q) = Q \cup {1}
    BY <1>8, <1>1 DEF Places, Q
  <2>2. Cardinality(Q \cup {1}) = Cardinality(Q) + 1
    BY <1>7, <2>1, FS_AddElement
  <2> QED BY <1>8, <2>1, <2>2, <1>2, <1>7 DEF r
<1>9. CASE Head(q) # m
  <2>1. Places(m, q) = Q
    BY <1>9, <1>1 DEF Places, Q
  <2> QED BY <1>9, <2>1, <1>2, <1>7 DEF r
<1> QED BY <1>8, <1>9
-----------------------------------------------------------------------------
(* RedisPubSub: the inductive invariant *)

\* Sub has a message in its hand exactly while it waits for space.
HandWhenFull == spc = "full" <=> hand # Nobody

PubSubInv == PubSubTypes /\ HandWhenFull /\ DeliveriesAddUp

LEMMA PoolCounts == Concurrency \in Nat
BY PubSubAssumption, FS_CardinalityType DEF Concurrency

LEMMA PubSubInitHolds == PubSubInit => PubSubInv
<1> SUFFICES ASSUME PubSubInit PROVE PubSubInv
  OBVIOUS
<1>1. PubSubTypes
  <2>1. /\ ppc \in [Posts -> {"new", "send", "ok", "error"}]
        /\ consumer \in [Pool -> {"none", "range", "wait", "ended"}]
    BY DEF PubSubInit
  <2>2. /\ ptries \in [Posts -> 0..(MaxTries - 1)]
        /\ delivered \in [Posts -> Nat] /\ called \in [Posts -> Nat]
        /\ inbox \in Seq(Posts) /\ Len(inbox) <= InboxSize
        /\ work \in Seq(Posts) /\ Len(work) <= Concurrency
        /\ abandoned \in Nat
    BY PubSubAssumption, PoolCounts DEF PubSubInit
  <2> QED BY <2>1, <2>2 DEF PubSubInit, PubSubTypes
<1>2. HandWhenFull
  BY DEF PubSubInit, HandWhenFull
<1>3. DeliveriesAddUp
  BY NoneInEmpty, PubSubAssumption DEF PubSubInit, DeliveriesAddUp
<1> QED BY <1>1, <1>2, <1>3 DEF PubSubInv

LEMMA PostKeepsInv ==
    ASSUME PubSubInv, NEW m \in Posts, Post(m)
    PROVE  PubSubInv'
BY ZenonT(30) DEF Post, poolVars, PubSubInv, PubSubTypes, HandWhenFull, DeliveriesAddUp, Occurrences,
       Concurrency

\* A message that reaches the subscription is one more delivery, at the end of
\* the inbox.
LEMMA ReachingAddsUp ==
    ASSUME PubSubInv, NEW m \in Posts, Reaches(m), UNCHANGED <<called, work, hand>>
    PROVE  /\ inbox' \in Seq(Posts) /\ Len(inbox') <= InboxSize
           /\ delivered' \in [Posts -> Nat]
           /\ DeliveriesAddUp'
<1>1. CASE UNCHANGED <<inbox, delivered>>
  BY ZenonT(30), <1>1 DEF PubSubInv, PubSubTypes, DeliveriesAddUp, Occurrences
<1>2. CASE /\ Len(inbox) < InboxSize
           /\ inbox' = Append(inbox, m)
           /\ delivered' = [delivered EXCEPT ![m] = @ + 1]
  <2>1. /\ inbox' \in Seq(Posts) /\ Len(inbox') <= InboxSize
        /\ delivered' \in [Posts -> Nat]
    BY SMTT(30), <1>2, PubSubAssumption DEF PubSubInv, PubSubTypes
  <2>2. ASSUME NEW x \in Posts
        PROVE  delivered'[x] = called'[x] + Occurrences(x, inbox') + Occurrences(x, work')
                                 + (IF hand' = x THEN 1 ELSE 0)
    <3>1. Occurrences(x, inbox') = Occurrences(x, inbox) + (IF m = x THEN 1 ELSE 0)
      BY <1>2, OccurrencesOfAppend DEF PubSubInv, PubSubTypes
    <3>2. delivered'[x] = delivered[x] + (IF m = x THEN 1 ELSE 0)
      BY <1>2 DEF PubSubInv, PubSubTypes
    <3>3. /\ Occurrences(x, inbox) \in Nat /\ Occurrences(x, work) \in Nat
          /\ called[x] \in Nat /\ delivered[x] \in Nat
      BY PlacesFinite DEF PubSubInv, PubSubTypes
    <3>4. delivered[x] = called[x] + Occurrences(x, inbox) + Occurrences(x, work)
                           + (IF hand = x THEN 1 ELSE 0)
      BY DEF PubSubInv, DeliveriesAddUp
    <3>5. Occurrences(x, work') = Occurrences(x, work)
      BY DEF Occurrences
    <3> QED BY <3>1, <3>2, <3>3, <3>4, <3>5
  <2> QED BY <2>1, <2>2 DEF DeliveriesAddUp
<1> QED BY <1>1, <1>2 DEF Reaches

LEMMA PublishKeepsInv ==
    ASSUME PubSubInv, NEW m \in Posts, Publish(m)
    PROVE  PubSubInv'
<1>1. UNCHANGED <<spc, hand, work, workOpen, consumer, abandoned, called, signalled, gone>>
  BY DEF Publish, poolVars
<1>2. /\ inbox' \in Seq(Posts) /\ Len(inbox') <= InboxSize
      /\ delivered' \in [Posts -> Nat]
      /\ DeliveriesAddUp'
  <2>1. Reaches(m)
    BY DEF Publish, Reaches
  <2> QED BY <1>1, <2>1, ReachingAddsUp
<1>3. ppc' \in [Posts -> {"new", "send", "ok", "error"}]
  BY DEF Publish, PubSubInv, PubSubTypes
<1>4. ptries' \in [Posts -> 0..(MaxTries - 1)]
  <2>1. ptries \in [Posts -> 0..(MaxTries - 1)]
    BY DEF PubSubInv, PubSubTypes
  <2>2. ptries' = ptries \/ (ptries[m] < MaxTries - 1
                               /\ ptries' = [ptries EXCEPT ![m] = @ + 1])
    BY DEF Publish
  <2> QED BY <2>1, <2>2, PubSubAssumption
<1>5. PubSubTypes'
  BY <1>1, <1>2, <1>3, <1>4 DEF PubSubInv, PubSubTypes, Concurrency
<1>6. HandWhenFull'
  BY <1>1 DEF PubSubInv, HandWhenFull
<1> QED BY <1>2, <1>5, <1>6 DEF PubSubInv

\* Steps that leave the messages where they are.
LEMMA OtherStepsKeepInv ==
    ASSUME PubSubInv,
           \/ SubBegin \/ LoopTop \/ SubscribeFails \/ PauseOver \/ StartWorkers
           \/ SubscriptionOver \/ LateHandlerReturns \/ Signal \/ CloseClient
           \/ UNCHANGED pubsubVars
    PROVE  PubSubInv'
<1>1. UNCHANGED <<ppc, ptries, inbox, hand, work, called, delivered>>
  BY DEF SubBegin, LoopTop, SubscribeFails, PauseOver, StartWorkers, SubscriptionOver,
         LateHandlerReturns, Signal, CloseClient, pubsubVars, postVars, poolVars
<1>2. /\ spc' \in {"off", "top", "subscribe", "range", "full", "pause", "returned"}
      /\ spc' = "full" <=> spc = "full"
      /\ workOpen' \in BOOLEAN /\ signalled' \in BOOLEAN /\ gone' \in BOOLEAN
      /\ consumer' \in [Pool -> {"none", "range", "wait", "ended"}]
      /\ abandoned' \in Nat
  <2> USE DEF pubsubVars, poolVars, PubSubInv, PubSubTypes
  <2>1. CASE SubBegin \/ LoopTop \/ SubscribeFails \/ PauseOver
    BY <2>1 DEF SubBegin, LoopTop, SubscribeFails, PauseOver
  <2>2. CASE StartWorkers \/ SubscriptionOver
    BY <2>2 DEF StartWorkers, SubscriptionOver, CloseWork
  <2>3. CASE LateHandlerReturns \/ UNCHANGED pubsubVars
    BY <2>3 DEF LateHandlerReturns
  <2>4. CASE Signal \/ CloseClient
    BY <2>4 DEF Signal, CloseClient
  <2> QED BY <2>1, <2>2, <2>3, <2>4
<1>3. PubSubTypes'
  BY <1>1, <1>2 DEF PubSubInv, PubSubTypes, Concurrency
<1>4. HandWhenFull'
  BY <1>1, <1>2 DEF PubSubInv, HandWhenFull
<1>5. DeliveriesAddUp'
  BY <1>1 DEF PubSubInv, DeliveriesAddUp, Occurrences
<1> QED BY <1>3, <1>4, <1>5 DEF PubSubInv

\* The head of the inbox goes to the work channel, or into the hand.
LEMMA DispatchKeepsInv == PubSubInv /\ Dispatch => PubSubInv'
<1> SUFFICES ASSUME PubSubInv, Dispatch PROVE PubSubInv'
  OBVIOUS
<1>1. /\ UNCHANGED <<ppc, ptries, workOpen, consumer, abandoned, called, signalled, gone,
                     delivered>>
      /\ inbox # <<>> /\ inbox' = Tail(inbox) /\ spc = "range"
  BY DEF Dispatch, postVars
<1>2. /\ inbox \in Seq(Posts) /\ work \in Seq(Posts) /\ Len(inbox) <= InboxSize
      /\ Head(inbox) \in Posts /\ hand = Nobody
  BY <1>1 DEF PubSubInv, PubSubTypes, HandWhenFull
<1>3. inbox' \in Seq(Posts) /\ Len(inbox') <= InboxSize
  BY <1>1, <1>2, PubSubAssumption
<1>4. ASSUME NEW x \in Posts
      PROVE  /\ Occurrences(x, inbox) = Occurrences(x, inbox')
                                          + (IF Head(inbox) = x THEN 1 ELSE 0)
             /\ Occurrences(x, inbox') \in Nat /\ Occurrences(x, work) \in Nat
             /\ called[x] \in Nat
             /\ delivered[x] = called[x] + Occurrences(x, inbox) + Occurrences(x, work)
  <2>1. Occurrences(x, inbox) = Occurrences(x, inbox') + (IF Head(inbox) = x THEN 1 ELSE 0)
    BY <1>1, <1>2, OccurrencesOfTail
  <2>2. Occurrences(x, inbox') \in Nat /\ Occurrences(x, work) \in Nat
        /\ Occurrences(x, inbox) \in Nat
    BY <1>2, <1>3, PlacesFinite
  <2>3. called[x] \in Nat
    BY DEF PubSubInv, PubSubTypes
  <2>4. delivered[x] = called[x] + Occurrences(x, inbox) + Occurrences(x, work)
                         + (IF hand = x THEN 1 ELSE 0)
    BY DEF PubSubInv, DeliveriesAddUp
  <2>5. hand # x
    BY <1>2, PubSubAssumption
  <2> QED BY <2>1, <2>2, <2>3, <2>4, <2>5
<1>5. CASE HasSpace /\ work' = Append(work, Head(inbox)) /\ UNCHANGED <<spc, hand>>
  <2>1. work' \in Seq(Posts) /\ Len(work') <= Concurrency
    BY <1>2, <1>5, PoolCounts DEF HasSpace
  <2>2. PubSubTypes'
    BY <1>1, <1>3, <1>5, <2>1 DEF PubSubInv, PubSubTypes, Concurrency
  <2>3. HandWhenFull'
    BY <1>5 DEF PubSubInv, HandWhenFull
  <2>4. ASSUME NEW x \in Posts
        PROVE  delivered'[x] = called'[x] + Occurrences(x, inbox') + Occurrences(x, work')
                                 + (IF hand' = x THEN 1 ELSE 0)
    <3>1. Occurrences(x, work') = Occurrences(x, work)
                                    + (IF Head(inbox) = x THEN 1 ELSE 0)
      BY <1>2, <1>5, OccurrencesOfAppend
    <3>2. hand' # x
      BY <1>2, <1>5, PubSubAssumption
    <3>3. delivered'[x] = delivered[x] /\ called'[x] = called[x]
      BY <1>1
    <3> QED BY <1>4, <3>1, <3>2, <3>3
  <2>5. DeliveriesAddUp'
    BY <2>4 DEF DeliveriesAddUp
  <2> QED BY <2>2, <2>3, <2>5 DEF PubSubInv
<1>6. CASE ~HasSpace /\ WaitWhenFull /\ UNCHANGED work
  <2>1. spc' = "full" /\ hand' = Head(inbox) /\ work' = work
    BY <1>6 DEF WaitWhenFull
  <2>2. PubSubTypes'
    BY <1>1, <1>2, <1>3, <2>1 DEF PubSubInv, PubSubTypes, Concurrency
  <2>3. HandWhenFull'
    BY <1>2, <2>1, PubSubAssumption DEF HandWhenFull
  <2>4. ASSUME NEW x \in Posts
        PROVE  delivered'[x] = called'[x] + Occurrences(x, inbox') + Occurrences(x, work')
                                 + (IF hand' = x THEN 1 ELSE 0)
    BY SMTT(30), <1>1, <1>4, <2>1
  <2>5. DeliveriesAddUp'
    BY <2>4 DEF DeliveriesAddUp
  <2> QED BY <2>2, <2>3, <2>5 DEF PubSubInv
<1> QED BY <1>5, <1>6 DEF Dispatch

\* The message in the hand goes to the work channel.
LEMMA SendBlockingKeepsInv == PubSubInv /\ SendBlocking => PubSubInv'
<1> SUFFICES ASSUME PubSubInv, SendBlocking PROVE PubSubInv'
  OBVIOUS
<1>1. /\ UNCHANGED <<ppc, ptries, inbox, workOpen, consumer, abandoned, called, signalled,
                     gone, delivered>>
      /\ work' = Append(work, hand) /\ hand' = Nobody /\ spc' = "range" /\ spc = "full"
      /\ HasSpace
  BY DEF SendBlocking, postVars
<1>2. inbox \in Seq(Posts) /\ work \in Seq(Posts) /\ hand \in Posts
  BY <1>1 DEF PubSubInv, PubSubTypes, HandWhenFull
<1>3. work' \in Seq(Posts) /\ Len(work') <= Concurrency
  BY <1>1, <1>2, PoolCounts DEF HasSpace
<1>4. PubSubTypes'
  BY <1>1, <1>3 DEF PubSubInv, PubSubTypes, Concurrency
<1>5. HandWhenFull'
  BY <1>1 DEF HandWhenFull
<1>6. ASSUME NEW x \in Posts
      PROVE  delivered'[x] = called'[x] + Occurrences(x, inbox') + Occurrences(x, work')
                               + (IF hand' = x THEN 1 ELSE 0)
  <2>1. Occurrences(x, work') = Occurrences(x, work) + (IF hand = x THEN 1 ELSE 0)
    BY <1>1, <1>2, OccurrencesOfAppend
  <2>2. /\ Occurrences(x, inbox) \in Nat /\ Occurrences(x, work) \in Nat
        /\ called[x] \in Nat
    BY <1>2, PlacesFinite DEF PubSubInv, PubSubTypes
  <2>3. delivered[x] = called[x] + Occurrences(x, inbox) + Occurrences(x, work)
                         + (IF hand = x THEN 1 ELSE 0)
    BY DEF PubSubInv, DeliveriesAddUp
  <2>4. hand' # x
    BY <1>1, PubSubAssumption
  <2>5. /\ Occurrences(x, inbox') = Occurrences(x, inbox)
        /\ delivered'[x] = delivered[x] /\ called'[x] = called[x]
    BY <1>1
  <2> QED BY <2>1, <2>2, <2>3, <2>4, <2>5
<1> QED BY <1>4, <1>5, <1>6 DEF PubSubInv, DeliveriesAddUp

\* The head of the work channel goes to a handler.
LEMMA TakeMessageKeepsInv ==
    ASSUME PubSubInv, NEW w \in Pool, TakeMessage(w)
    PROVE  PubSubInv'
<1>1. /\ UNCHANGED <<ppc, ptries, inbox, spc, hand, workOpen, abandoned, signalled, gone,
                     delivered>>
      /\ work # <<>> /\ work' = Tail(work)
      /\ called' = [called EXCEPT ![Head(work)] = @ + 1]
      /\ consumer' = [consumer EXCEPT ![w] = "wait"]
  BY DEF TakeMessage, postVars
<1>2. /\ inbox \in Seq(Posts) /\ work \in Seq(Posts) /\ Len(work) <= Concurrency
      /\ called \in [Posts -> Nat] /\ Head(work) \in Posts
  BY <1>1 DEF PubSubInv, PubSubTypes
<1>3. /\ work' \in Seq(Posts) /\ Len(work') <= Concurrency
      /\ called' \in [Posts -> Nat]
  BY <1>1, <1>2, PoolCounts
<1>4. consumer' \in [Pool -> {"none", "range", "wait", "ended"}]
  BY <1>1 DEF PubSubInv, PubSubTypes
<1>5. PubSubTypes'
  BY <1>1, <1>3, <1>4 DEF PubSubInv, PubSubTypes, Concurrency
<1>6. HandWhenFull'
  BY <1>1 DEF PubSubInv, HandWhenFull
<1>7. ASSUME NEW x \in Posts
      PROVE  delivered'[x] = called'[x] + Occurrences(x, inbox') + Occurrences(x, work')
                               + (IF hand' = x THEN 1 ELSE 0)
  <2>1. Occurrences(x, work) = Occurrences(x, work') + (IF Head(work) = x THEN 1 ELSE 0)
    BY <1>1, <1>2, OccurrencesOfTail
  <2>2. Occurrences(x, inbox) \in Nat /\ Occurrences(x, work') \in Nat /\ called[x] \in Nat
    BY <1>2, <1>3, PlacesFinite
  <2>3. called'[x] = called[x] + (IF Head(work) = x THEN 1 ELSE 0)
    BY <1>1, <1>2
  <2>4. delivered[x] = called[x] + Occurrences(x, inbox) + Occurrences(x, work)
                         + (IF hand = x THEN 1 ELSE 0)
    BY DEF PubSubInv, DeliveriesAddUp
  <2>5. /\ Occurrences(x, inbox') = Occurrences(x, inbox)
        /\ delivered'[x] = delivered[x] /\ hand' = hand
    BY <1>1
  <2> QED BY <2>1, <2>2, <2>3, <2>4, <2>5
<1> QED BY <1>5, <1>6, <1>7 DEF PubSubInv, DeliveriesAddUp

LEMMA WorkerStepsKeepInv ==
    ASSUME PubSubInv, NEW w \in Pool, HandlerReturns(w) \/ Timeout(w) \/ WorkerEnds(w)
    PROVE  PubSubInv'
<1>1. UNCHANGED <<ppc, ptries, inbox, spc, hand, work, workOpen, called, signalled, gone,
                  delivered>>
  BY DEF HandlerReturns, Timeout, WorkerEnds, postVars
<1>2. /\ consumer \in [Pool -> {"none", "range", "wait", "ended"}]
      /\ abandoned \in Nat
  BY DEF PubSubInv, PubSubTypes
<1>3. consumer' \in [Pool -> {"none", "range", "wait", "ended"}]
  BY <1>2 DEF HandlerReturns, Timeout, WorkerEnds
<1>4. abandoned' \in Nat
  <2>1. abandoned' = abandoned \/ abandoned' = abandoned + 1
    BY DEF HandlerReturns, Timeout, WorkerEnds
  <2> QED BY <1>2, <2>1
<1>5. PubSubTypes'
  BY <1>1, <1>3, <1>4 DEF PubSubInv, PubSubTypes, Concurrency
<1>6. HandWhenFull'
  BY <1>1 DEF PubSubInv, HandWhenFull
<1>7. DeliveriesAddUp'
  BY <1>1 DEF PubSubInv, DeliveriesAddUp, Occurrences
<1> QED BY <1>5, <1>6, <1>7 DEF PubSubInv

LEMMA PubSubStepKeepsInv == PubSubInv /\ [PubSubNext]_pubsubVars => PubSubInv'
<1> SUFFICES ASSUME PubSubInv, [PubSubNext]_pubsubVars
             PROVE  PubSubInv'
  OBVIOUS
<1>1. ASSUME NEW m \in Posts, Post(m) \/ Publish(m)
      PROVE  PubSubInv'
  BY <1>1, PostKeepsInv, PublishKeepsInv
<1>2. CASE SubBegin \/ LoopStep
  BY <1>2, OtherStepsKeepInv, DispatchKeepsInv, SendBlockingKeepsInv DEF LoopStep
<1>3. ASSUME NEW w \in Pool, PoolStep(w) \/ HandlerReturns(w)
      PROVE  PubSubInv'
  BY <1>3, TakeMessageKeepsInv, WorkerStepsKeepInv DEF PoolStep
<1>4. CASE LateHandlerReturns \/ Signal \/ CloseClient \/ UNCHANGED pubsubVars
  BY <1>4, OtherStepsKeepInv
<1> QED
  BY <1>1, <1>2, <1>3, <1>4 DEF PubSubNext

\* The Redis pub/sub subscription: whatever the server, the handlers and the clock
\* do, each delivery is at one place until one handler is called with it.
THEOREM NoDeliveryLost == PubSubSpec => []DeliveriesAddUp
<1>1. PubSubInv => DeliveriesAddUp
  BY DEF PubSubInv
<1> QED BY <1>1, PubSubInitHolds, PubSubStepKeepsInv, PTL DEF PubSubSpec
-----------------------------------------------------------------------------
(* DocPipeline: the inductive invariant *)

\* Tasks whose text is not yet in the results, and not given up.
Working(t) == worker[t] \in {"check", "process", "error", "write"}

\* The semaphore holds a message for each goroutine, and for the one the caller is
\* about to submit.
InSemaphore == Cardinality(InPool) + (IF dpc = "submit" THEN 1 ELSE 0)
SemaphoreAddsUp == sem = IF concurrent /\ Limited THEN InSemaphore ELSE 0

\* Texts get a task in the order of the loop, or none at all.
TextsInOrder ==
    /\ \A t \in T : worker[t] # "none" <=> (concurrent /\ t < i)
    /\ ~concurrent => results = {t \in T : t < i} /\ dpc \in {"loop", "returned"}
    /\ dpc \in {"acquire", "submit"} => concurrent /\ i <= Texts
    /\ dpc = "wait" => concurrent /\ (i > Texts \/ first # Nothing)

\* A text is in the results when its Process came to a good end, for good.
ResultsGood ==
    /\ \A t \in results : t < i /\ out[t].err = "nil" /\ ~Working(t)
    /\ \A t \in T : worker[t] = "write" => out[t].err = "nil"
    /\ \A t \in T : worker[t] \in {"release", "ended"} => t \in results \/ first # Nothing

AllTextsServed == dret = "results" => dpc = "returned" /\ results = T

PipeInv ==
    /\ PipeTypes
    /\ SemaphoreAddsUp
    /\ TextsInOrder
    /\ ResultsGood
    /\ AllTextsServed

\* Process returns no error only when no slice failed.
LEMMA GoodOutcomes ==
    ASSUME NEW o \in Outcomes \cup {NoOutcome}, o.err = "nil"
    PROVE  \A d \in Slices : o.fate[d] # "failed"
<1>1. o # ChunkFails /\ o # NoOutcome
  BY DEF ChunkFails, NoOutcome
<1>2. PICK empty \in SUBSET Slices, embedding \in {"all", "some", "none"}, bad \in SUBSET Slices :
          o = Process(empty, embedding, bad)
  BY <1>1 DEF Outcomes
<1>3. empty = Slices \/ embedding # "none"
  BY <1>2 DEF Process
<1> QED BY <1>2, <1>3 DEF Process

LEMMA InPoolCounts ==
    ASSUME NEW S \in SUBSET T
    PROVE  IsFiniteSet(S) /\ Cardinality(S) \in Nat
<1>1. IsFiniteSet(T)
  BY FS_Interval, PipelineAssumption DEF T
<1> QED BY <1>1, FS_Subset, FS_CardinalityType

LEMMA PipeInitHolds == PipeInit => PipeInv
<1> SUFFICES ASSUME PipeInit PROVE PipeInv
  OBVIOUS
<1>1. PipeTypes
  <2>1. /\ worker \in [T -> {"none", "check", "process", "error", "write", "release",
                             "ended"}]
        /\ out \in [T -> Outcomes \cup {NoOutcome}]
    BY DEF PipeInit
  <2>2. i \in 1..(Texts + 1) /\ sem \in 0..limit
    BY PipelineAssumption DEF PipeInit
  <2>3. concurrent \in BOOLEAN
    BY Zenon DEF PipeInit
  <2> QED BY <2>1, <2>2, <2>3 DEF PipeInit, PipeTypes
<1>2. SemaphoreAddsUp
  <2>1. InPool = {}
    BY DEF PipeInit, InPool
  <2>2. Cardinality(InPool) = 0
    BY <2>1, FS_EmptySet
  <2> QED BY <2>2 DEF PipeInit, SemaphoreAddsUp, InSemaphore
<1>3. TextsInOrder
  BY PipelineAssumption DEF PipeInit, TextsInOrder, T
<1>4. ResultsGood /\ AllTextsServed
  BY DEF PipeInit, ResultsGood, AllTextsServed
<1> QED BY <1>1, <1>2, <1>3, <1>4 DEF PipeInv

LEMMA OneByOneKeepsInv == PipeInv /\ OneByOne => PipeInv'
<1> SUFFICES ASSUME PipeInv, OneByOne PROVE PipeInv'
  OBVIOUS
<1>0. /\ ~concurrent /\ dpc = "loop"
      /\ UNCHANGED <<concurrent, limit, worker, first, sem, closed>>
  BY DEF OneByOne
<1>1. PipeTypes /\ Texts \in Nat
  BY PipelineAssumption DEF PipeInv
<1>2. SemaphoreAddsUp'
  BY <1>0 DEF PipeInv, SemaphoreAddsUp
<1>3. CASE i > Texts /\ BatchReturns("results") /\ UNCHANGED <<i, out, results>>
  <2>1. PipeTypes'
    BY <1>0, <1>1, <1>3 DEF PipeTypes, BatchReturns
  <2>2. TextsInOrder'
    BY <1>0, <1>3 DEF PipeInv, TextsInOrder, BatchReturns
  <2>3. ResultsGood'
    BY <1>0, <1>3 DEF PipeInv, ResultsGood, Working
  <2>4. results = T
    <3>1. results = {t \in T : t < i}
      BY <1>0 DEF PipeInv, TextsInOrder
    <3>2. \A t \in T : t < i
      BY <1>1, <1>3 DEF PipeTypes, T
    <3> QED BY <3>1, <3>2
  <2>5. AllTextsServed'
    BY <1>3, <2>4 DEF AllTextsServed, BatchReturns
  <2> QED BY <1>2, <2>1, <2>2, <2>3, <2>5 DEF PipeInv
<1>4. ASSUME i <= Texts, NEW o \in Outcomes, out' = [out EXCEPT ![i] = o],
             \/ /\ o.err = "nil" /\ results' = results \cup {i} /\ i' = i + 1
                /\ UNCHANGED <<dpc, dret>>
             \/ o.err # "nil" /\ BatchReturns("error") /\ UNCHANGED <<i, results>>
      PROVE  PipeInv'
  <2>0. i \in T /\ i \in Int
    BY <1>1, <1>4 DEF PipeTypes, T
  <2>1. PipeTypes'
    <3>1. out' \in [T -> Outcomes \cup {NoOutcome}]
      BY <1>1, <1>4 DEF PipeTypes
    <3>2. i' \in 1..(Texts + 1) /\ results' \subseteq T
      <4>1. i \in 1..(Texts + 1) /\ results \subseteq T
        BY <1>1 DEF PipeTypes
      <4>2. i' = i \/ i' = i + 1
        BY <1>4
      <4>3. results' = results \/ results' = results \cup {i}
        BY <1>4
      <4>4. i' \in 1..(Texts + 1)
        <5>1. i <= Texts
          BY <1>4
        <5> QED BY <1>1, <4>1, <4>2, <5>1
      <4> QED BY <2>0, <4>1, <4>3, <4>4
    <3>3. /\ dpc' \in {"loop", "acquire", "submit", "wait", "returned"}
          /\ dret' \in {"none", "results", "error"}
      BY <1>1, <1>4 DEF PipeTypes, BatchReturns
    <3> QED BY <1>0, <1>1, <3>1, <3>2, <3>3 DEF PipeTypes
  <2>2. TextsInOrder'
    <3>1. \A t \in T : worker'[t] # "none" <=> (concurrent' /\ t < i')
      BY <1>0 DEF PipeInv, TextsInOrder
    <3>2. results' = {t \in T : t < i'}
      <4>1. results = {t \in T : t < i}
        BY <1>0 DEF PipeInv, TextsInOrder
      <4>2. \A t \in T : t < i + 1 <=> (t < i \/ t = i)
        BY <1>1 DEF PipeTypes, T
      <4> QED BY <1>4, <2>0, <4>1, <4>2
    <3>3. dpc' \in {"loop", "returned"}
      BY <1>0, <1>4 DEF BatchReturns
    <3> QED BY <1>0, <3>1, <3>2, <3>3 DEF TextsInOrder
  <2>3. ResultsGood'
    <3>1. results = {t \in T : t < i}
      BY <1>0 DEF PipeInv, TextsInOrder
    <3>2. \A t \in T : worker'[t] = "none"
      BY <1>0, <1>1 DEF PipeInv, TextsInOrder, PipeTypes
    <3>3. \A t \in T : ~Working(t)'
      BY <3>2 DEF Working
    <3>4. ASSUME NEW t \in results' PROVE t < i' /\ out'[t].err = "nil"
      <4>1. CASE t \in results
        <5>1. t # i /\ t < i /\ t \in T /\ t \in Int
          BY <4>1, <3>1, <2>0 DEF T
        <5>2. out'[t] = out[t] /\ out[t].err = "nil"
          BY <1>1, <1>4, <4>1, <5>1 DEF PipeInv, ResultsGood, PipeTypes
        <5> QED BY <1>4, <2>0, <5>1, <5>2
      <4>2. CASE t \notin results
        BY <1>1, <1>4, <2>0, <4>2 DEF PipeTypes
      <4> QED BY <4>1, <4>2
    <3>5. results' \subseteq T
      BY <2>1 DEF PipeTypes
    <3> QED BY <3>2, <3>3, <3>4, <3>5 DEF ResultsGood
  <2>4. AllTextsServed'
    BY <1>0, <1>4 DEF PipeInv, AllTextsServed, BatchReturns
  <2> QED BY <1>2, <2>1, <2>2, <2>3, <2>4 DEF PipeInv
<1> QED BY <1>3, <1>4 DEF OneByOne

LEMMA LoopHeadKeepsInv == PipeInv /\ LoopHead => PipeInv'
<1> SUFFICES ASSUME PipeInv, LoopHead PROVE PipeInv'
  OBVIOUS
<1>1. PipeTypes'
  BY DEF LoopHead, PipeInv, PipeTypes
<1>2. SemaphoreAddsUp'
  <2>1. InSemaphore' = InSemaphore /\ Limited' = Limited
    BY DEF LoopHead, InSemaphore, InPool, Limited
  <2> QED BY <2>1 DEF LoopHead, PipeInv, SemaphoreAddsUp
<1>3. TextsInOrder'
  BY DEF LoopHead, PipeInv, TextsInOrder
<1>4. ResultsGood'
  BY DEF LoopHead, PipeInv, ResultsGood, Working
<1>5. AllTextsServed'
  BY DEF LoopHead, PipeInv, AllTextsServed
<1> QED BY <1>1, <1>2, <1>3, <1>4, <1>5 DEF PipeInv

LEMMA AcquireKeepsInv == PipeInv /\ AcquireSemaphore => PipeInv'
<1> SUFFICES ASSUME PipeInv, AcquireSemaphore PROVE PipeInv'
  OBVIOUS
<1>0. /\ dpc = "acquire" /\ dpc' = "submit" /\ (Limited => sem < limit)
      /\ sem' = IF Limited THEN sem + 1 ELSE sem
      /\ UNCHANGED <<concurrent, limit, i, worker, first, out, results, dret, closed>>
  BY DEF AcquireSemaphore
<1>1. PipeTypes'
  <2>1. sem \in 0..limit /\ limit \in Nat
    BY PipelineAssumption DEF PipeInv, PipeTypes
  <2>2. sem' \in 0..limit'
    BY <1>0, <2>1
  <2> QED BY <1>0, <2>2 DEF PipeInv, PipeTypes
<1>2. SemaphoreAddsUp'
  <2>1. InPool' = InPool /\ Limited' = Limited
    BY <1>0 DEF InPool, Limited
  <2>2. Cardinality(InPool) \in Nat
    BY InPoolCounts DEF InPool
  <2>3. concurrent
    BY <1>0 DEF PipeInv, TextsInOrder
  <2>4. sem = IF Limited THEN Cardinality(InPool) ELSE 0
    BY <1>0, <2>2, <2>3 DEF PipeInv, SemaphoreAddsUp, InSemaphore
  <2> QED BY <1>0, <2>1, <2>2, <2>3, <2>4 DEF SemaphoreAddsUp, InSemaphore
<1>3. TextsInOrder'
  BY <1>0 DEF PipeInv, TextsInOrder
<1>4. ResultsGood'
  BY <1>0 DEF PipeInv, ResultsGood, Working
<1>5. AllTextsServed'
  BY <1>0 DEF PipeInv, AllTextsServed
<1> QED BY <1>1, <1>2, <1>3, <1>4, <1>5 DEF PipeInv
LEMMA SubmitTaskKeepsInv == PipeInv /\ SubmitTask => PipeInv'
<1> SUFFICES ASSUME PipeInv, SubmitTask PROVE PipeInv'
  OBVIOUS
<1>0. /\ dpc = "submit" /\ concurrent /\ i <= Texts
      /\ UNCHANGED <<concurrent, limit, first, out, results, closed>>
  BY DEF SubmitTask, PipeInv, TextsInOrder
<1>1. PipeTypes /\ Texts \in Nat
  BY PipelineAssumption DEF PipeInv
<1>2. i \in T /\ i \in Int /\ worker[i] = "none"
  <2>1. i \in T /\ i \in Int
    BY <1>0, <1>1 DEF PipeTypes, T
  <2>2. ~(i < i)
    BY <2>1
  <2> QED BY <2>1, <2>2 DEF PipeInv, TextsInOrder
<1>3. /\ IsFiniteSet(InPool) /\ Cardinality(InPool) \in Nat
      /\ sem = IF Limited THEN Cardinality(InPool) + 1 ELSE 0
  BY <1>0, InPoolCounts DEF PipeInv, SemaphoreAddsUp, InSemaphore, InPool
<1>4. CASE /\ worker' = [worker EXCEPT ![i] = "check"]
           /\ i' = i + 1
           /\ dpc' = "loop"
           /\ UNCHANGED <<sem, dret>>
  <2>1. PipeTypes'
    <3>1. worker' \in [T -> {"none", "check", "process", "error", "write", "release",
                             "ended"}]
      BY <1>1, <1>4 DEF PipeTypes
    <3>2. i' \in 1..(Texts + 1)
      BY <1>0, <1>1, <1>4 DEF PipeTypes
    <3> QED BY <1>0, <1>1, <1>4, <3>1, <3>2 DEF PipeTypes
  <2>2. SemaphoreAddsUp'
    <3>1. i \notin InPool /\ InPool' = InPool \cup {i}
      BY <1>1, <1>2, <1>4 DEF InPool, PipeTypes
    <3>2. Cardinality(InPool') = Cardinality(InPool) + 1
      BY <1>3, <3>1, FS_AddElement
    <3>3. Limited' = Limited
      BY <1>0 DEF Limited
    <3>4. InSemaphore' = Cardinality(InPool) + 1
      BY <1>3, <1>4, <3>2 DEF InSemaphore
    <3> QED BY <1>0, <1>3, <1>4, <3>3, <3>4 DEF SemaphoreAddsUp
  <2>3. TextsInOrder'
    <3>1. ASSUME NEW t \in T PROVE worker'[t] # "none" <=> (concurrent' /\ t < i')
      <4>1. t \in Int
        BY DEF T
      <4>2. CASE t = i
        BY <1>0, <1>1, <1>2, <1>4, <4>2 DEF PipeTypes
      <4>3. CASE t # i
        <5>1. worker'[t] = worker[t]
          BY <1>1, <1>4, <4>3 DEF PipeTypes
        <5>2. t < i' <=> t < i
          BY <1>2, <1>4, <4>1, <4>3
        <5> QED BY <1>0, <5>1, <5>2 DEF PipeInv, TextsInOrder
      <4> QED BY <4>2, <4>3
    <3> QED BY <1>0, <1>4, <3>1 DEF TextsInOrder
  <2>4. ResultsGood'
    <3>1. \A t \in T : worker'[t] = (IF t = i THEN "check" ELSE worker[t])
      BY <1>1, <1>4 DEF PipeTypes
    <3>2. ASSUME NEW t \in results PROVE t \in T /\ t # i /\ t < i /\ t < i + 1
      <4>1. t \in T /\ t < i
        BY <1>1 DEF PipeInv, PipeTypes, ResultsGood
      <4> QED BY <1>2, <4>1 DEF T
    <3> QED BY <1>0, <1>4, <3>1, <3>2 DEF PipeInv, ResultsGood, Working
  <2>5. AllTextsServed'
    BY <1>0, <1>4 DEF PipeInv, AllTextsServed
  <2> QED BY <2>1, <2>2, <2>3, <2>4, <2>5 DEF PipeInv
<1>5. CASE ReleaseSemaphore /\ BatchReturns("error") /\ UNCHANGED <<worker, i>>
  <2>1. PipeTypes'
    <3>1. sem \in 0..limit /\ limit \in Nat
      BY <1>1, PipelineAssumption DEF PipeTypes
    <3>2. sem' \in 0..limit'
      BY <1>0, <1>3, <1>5, <3>1 DEF ReleaseSemaphore
    <3> QED BY <1>0, <1>1, <1>5, <3>2 DEF PipeTypes, BatchReturns
  <2>2. SemaphoreAddsUp'
    <3>1. InPool' = InPool /\ Limited' = Limited
      BY <1>0, <1>5 DEF InPool, Limited
    <3>2. InSemaphore' = Cardinality(InPool)
      BY <1>3, <1>5, <3>1 DEF InSemaphore, BatchReturns
    <3> QED BY <1>0, <1>3, <1>5, <3>1, <3>2 DEF SemaphoreAddsUp, ReleaseSemaphore
  <2>3. TextsInOrder'
    BY <1>0, <1>5 DEF PipeInv, TextsInOrder, BatchReturns
  <2>4. ResultsGood'
    BY <1>0, <1>5 DEF PipeInv, ResultsGood, Working
  <2>5. AllTextsServed'
    BY <1>5 DEF AllTextsServed, BatchReturns
  <2> QED BY <2>1, <2>2, <2>3, <2>4, <2>5 DEF PipeInv
<1> QED BY <1>4, <1>5 DEF SubmitTask

LEMMA WaitForTasksKeepsInv == PipeInv /\ WaitForTasks => PipeInv'
<1> SUFFICES ASSUME PipeInv, WaitForTasks PROVE PipeInv'
  OBVIOUS
<1>0. /\ dpc = "wait" /\ dpc' = "returned" /\ Waited = {}
      /\ dret' = IF first # Nothing THEN "error" ELSE "results"
      /\ UNCHANGED <<concurrent, limit, i, worker, first, sem, out, results, closed>>
  BY DEF WaitForTasks, BatchReturns
<1>1. PipeTypes'
  BY <1>0 DEF PipeInv, PipeTypes
<1>2. SemaphoreAddsUp'
  <2>1. InSemaphore' = InSemaphore /\ Limited' = Limited
    BY <1>0 DEF InSemaphore, InPool, Limited
  <2> QED BY <1>0, <2>1 DEF PipeInv, SemaphoreAddsUp
<1>3. TextsInOrder'
  BY <1>0 DEF PipeInv, TextsInOrder
<1>4. ResultsGood'
  BY <1>0 DEF PipeInv, ResultsGood, Working
<1>5. AllTextsServed'
  <2>1. CASE first # Nothing
    BY <1>0, <2>1 DEF AllTextsServed
  <2>2. CASE first = Nothing
    <3>1. concurrent /\ i > Texts
      BY <1>0, <2>2 DEF PipeInv, TextsInOrder
    <3>2. \A t \in T : t < i
      BY <3>1, PipelineAssumption DEF PipeInv, PipeTypes, T
    <3>3. \A t \in T : worker[t] \in {"release", "ended"}
      BY <1>0, <3>1, <3>2 DEF PipeInv, PipeTypes, TextsInOrder, Waited
    <3>4. \A t \in T : t \in results
      BY <2>2, <3>3 DEF PipeInv, ResultsGood
    <3>5. results = T
      BY <3>4 DEF PipeInv, PipeTypes
    <3> QED BY <1>0, <3>5 DEF AllTextsServed
  <2> QED BY <2>1, <2>2
<1> QED BY <1>1, <1>2, <1>3, <1>4, <1>5 DEF PipeInv

\* A step of a task that goes on: it changes neither the pool nor the semaphore.
LEMMA TaskGoesOn ==
    ASSUME PipeInv, NEW t \in T, NEW c,
           c \in {"process", "error", "write", "release"},
           worker[t] \notin {"none", "ended"},
           worker' = [worker EXCEPT ![t] = c],
           UNCHANGED <<concurrent, limit, i, dpc, sem>>,
           first' = first \/ first' # Nothing
    PROVE  /\ worker' \in [T -> {"none", "check", "process", "error", "write", "release",
                                 "ended"}]
           /\ SemaphoreAddsUp'
           /\ TextsInOrder'
<1>1. worker \in [T -> {"none", "check", "process", "error", "write", "release", "ended"}]
  BY DEF PipeInv, PipeTypes
<1>2. worker' \in [T -> {"none", "check", "process", "error", "write", "release", "ended"}]
  BY <1>1
<1>3. \A s \in T : worker'[s] = (IF s = t THEN c ELSE worker[s])
  BY <1>1
<1>4. InPool' = InPool
  BY <1>1, <1>3 DEF InPool
<1>5. SemaphoreAddsUp'
  <2>1. InSemaphore' = InSemaphore /\ Limited' = Limited
    BY <1>4 DEF InSemaphore, Limited
  <2> QED BY <2>1 DEF PipeInv, SemaphoreAddsUp
<1>6. concurrent
  BY DEF PipeInv, TextsInOrder
<1>7. TextsInOrder'
  <2>1. \A s \in T : worker'[s] # "none" <=> worker[s] # "none"
    BY <1>3
  <2> QED BY <1>6, <2>1 DEF PipeInv, TextsInOrder
<1> QED BY <1>2, <1>5, <1>7
LEMMA CheckFirstKeepsInv ==
    ASSUME PipeInv, NEW t \in T, CheckFirst(t)
    PROVE  PipeInv'
<1>1. PICK c \in {"process", "release"} :
          /\ worker' = [worker EXCEPT ![t] = c]
          /\ c = "release" => first # Nothing
  BY DEF CheckFirst
<1>2. /\ worker[t] = "check"
      /\ UNCHANGED <<concurrent, limit, i, dpc, first, sem, out, results, dret, closed>>
  BY DEF CheckFirst
<1>3. /\ worker' \in [T -> {"none", "check", "process", "error", "write", "release",
                            "ended"}]
      /\ SemaphoreAddsUp'
      /\ TextsInOrder'
  BY <1>1, <1>2, TaskGoesOn
<1>4. PipeTypes'
  BY <1>2, <1>3 DEF PipeInv, PipeTypes
<1>5. ResultsGood'
  <2>1. \A s \in T : worker'[s] = (IF s = t THEN c ELSE worker[s])
    BY <1>1 DEF PipeInv, PipeTypes
  <2>2. t \notin results
    BY <1>2 DEF PipeInv, ResultsGood, Working
  <2>3. \A s \in results' : s < i' /\ out'[s].err = "nil" /\ ~Working(s)'
    BY <1>2, <2>1, <2>2 DEF PipeInv, PipeTypes, ResultsGood, Working
  <2>4. \A s \in T : worker'[s] = "write" => out'[s].err = "nil"
    BY <1>1, <1>2, <2>1 DEF PipeInv, ResultsGood
  <2>5. \A s \in T : worker'[s] \in {"release", "ended"} => s \in results' \/ first' # Nothing
    BY <1>1, <1>2, <2>1 DEF PipeInv, ResultsGood
  <2> QED BY <2>3, <2>4, <2>5 DEF ResultsGood
<1>6. AllTextsServed'
  BY <1>2 DEF PipeInv, AllTextsServed
<1> QED BY <1>3, <1>4, <1>5, <1>6 DEF PipeInv

LEMMA RunProcessKeepsInv ==
    ASSUME PipeInv, NEW t \in T, RunProcess(t)
    PROVE  PipeInv'
<1>1. PICK o \in Outcomes :
          /\ out' = [out EXCEPT ![t] = o]
          /\ worker' = [worker EXCEPT ![t] = AfterProcess(o)]
  BY DEF RunProcess
<1>2. /\ worker[t] = "process"
      /\ UNCHANGED <<concurrent, limit, i, dpc, first, sem, results, dret, closed>>
  BY DEF RunProcess
<1> DEFINE c == AfterProcess(o)
<1>3. c \in {"error", "write"} /\ (c = "write" => o.err = "nil")
  BY DEF AfterProcess
<1>4. worker' = [worker EXCEPT ![t] = c]
  BY <1>1
<1> HIDE DEF c
<1>5. /\ worker' \in [T -> {"none", "check", "process", "error", "write", "release",
                            "ended"}]
      /\ SemaphoreAddsUp'
      /\ TextsInOrder'
  BY <1>2, <1>3, <1>4, TaskGoesOn
<1>6. PipeTypes'
  <2>1. out' \in [T -> Outcomes \cup {NoOutcome}]
    BY <1>1 DEF PipeInv, PipeTypes
  <2> QED BY <1>2, <1>5, <2>1 DEF PipeInv, PipeTypes
<1>7. ResultsGood'
  <2>1. \A s \in T : /\ worker'[s] = (IF s = t THEN c ELSE worker[s])
                     /\ out'[s] = (IF s = t THEN o ELSE out[s])
    BY <1>1, <1>4 DEF PipeInv, PipeTypes
  <2>2. t \notin results
    BY <1>2 DEF PipeInv, ResultsGood, Working
  <2>3. \A s \in results' : s < i' /\ out'[s].err = "nil" /\ ~Working(s)'
    BY <1>2, <2>1, <2>2 DEF PipeInv, PipeTypes, ResultsGood, Working
  <2>4. \A s \in T : worker'[s] = "write" => out'[s].err = "nil"
    BY <1>3, <2>1 DEF PipeInv, ResultsGood
  <2>5. \A s \in T : worker'[s] \in {"release", "ended"} => s \in results' \/ first' # Nothing
    BY <1>2, <1>3, <2>1 DEF PipeInv, ResultsGood
  <2> QED BY <2>3, <2>4, <2>5 DEF ResultsGood
<1>8. AllTextsServed'
  BY <1>2 DEF PipeInv, AllTextsServed
<1> QED BY <1>5, <1>6, <1>7, <1>8 DEF PipeInv

LEMMA RecordFirstKeepsInv ==
    ASSUME PipeInv, NEW t \in T, RecordFirst(t)
    PROVE  PipeInv'
<1>1. /\ worker[t] = "error"
      /\ first' = (IF first = Nothing THEN t ELSE first)
      /\ worker' = [worker EXCEPT ![t] = "release"]
      /\ UNCHANGED <<concurrent, limit, i, dpc, sem, out, results, dret, closed>>
  BY DEF RecordFirst
<1>2. first' # Nothing /\ first' \in T
  BY <1>1, PipelineAssumption DEF T, PipeInv, PipeTypes
<1>3. /\ worker' \in [T -> {"none", "check", "process", "error", "write", "release",
                            "ended"}]
      /\ SemaphoreAddsUp'
      /\ TextsInOrder'
  BY <1>1, <1>2, TaskGoesOn
<1>4. PipeTypes'
  BY <1>1, <1>2, <1>3 DEF PipeInv, PipeTypes
<1>5. ResultsGood'
  <2>1. \A s \in T : worker'[s] = (IF s = t THEN "release" ELSE worker[s])
    BY <1>1 DEF PipeInv, PipeTypes
  <2>2. \A s \in results' : s < i' /\ out'[s].err = "nil" /\ ~Working(s)'
    BY <1>1, <2>1 DEF PipeInv, PipeTypes, ResultsGood, Working
  <2>3. \A s \in T : worker'[s] = "write" => out'[s].err = "nil"
    BY <1>1, <2>1 DEF PipeInv, ResultsGood
  <2> QED BY <1>2, <2>2, <2>3 DEF ResultsGood
<1>6. AllTextsServed'
  BY <1>1 DEF PipeInv, AllTextsServed
<1> QED BY <1>3, <1>4, <1>5, <1>6 DEF PipeInv

LEMMA WriteResultKeepsInv ==
    ASSUME PipeInv, NEW t \in T, WriteResult(t)
    PROVE  PipeInv'
<1>1. /\ worker[t] = "write"
      /\ results' = results \cup {t}
      /\ worker' = [worker EXCEPT ![t] = "release"]
      /\ UNCHANGED <<concurrent, limit, i, dpc, first, sem, out, dret, closed>>
  BY DEF WriteResult
<1>2. /\ worker' \in [T -> {"none", "check", "process", "error", "write", "release",
                            "ended"}]
      /\ SemaphoreAddsUp'
      /\ TextsInOrder'
  BY <1>1, TaskGoesOn
<1>3. PipeTypes'
  BY <1>1, <1>2 DEF PipeInv, PipeTypes
<1>4. t < i /\ out[t].err = "nil"
  BY <1>1 DEF PipeInv, TextsInOrder, ResultsGood
<1>5. ResultsGood'
  <2>1. \A s \in T : worker'[s] = (IF s = t THEN "release" ELSE worker[s])
    BY <1>1 DEF PipeInv, PipeTypes
  <2>2. \A s \in results' : s < i' /\ out'[s].err = "nil" /\ ~Working(s)'
    BY <1>1, <1>4, <2>1 DEF PipeInv, PipeTypes, ResultsGood, Working
  <2>3. \A s \in T : worker'[s] = "write" => out'[s].err = "nil"
    BY <1>1, <2>1 DEF PipeInv, ResultsGood
  <2>4. \A s \in T : worker'[s] \in {"release", "ended"} => s \in results' \/ first' # Nothing
    BY <1>1, <2>1 DEF PipeInv, ResultsGood
  <2> QED BY <2>2, <2>3, <2>4 DEF ResultsGood
<1>6. AllTextsServed'
  BY <1>1, <1>3 DEF PipeInv, AllTextsServed, PipeTypes
<1> QED BY <1>2, <1>3, <1>5, <1>6 DEF PipeInv

LEMMA TaskEndsKeepsInv ==
    ASSUME PipeInv, NEW t \in T, TaskEnds(t)
    PROVE  PipeInv'
<1>1. /\ worker[t] = "release"
      /\ sem' = (IF Limited THEN sem - 1 ELSE sem)
      /\ worker' = [worker EXCEPT ![t] = "ended"]
      /\ UNCHANGED <<concurrent, limit, i, dpc, first, out, results, dret, closed>>
  BY DEF TaskEnds, ReleaseSemaphore
<1>2. concurrent
  BY <1>1 DEF PipeInv, TextsInOrder
<1>3. \A s \in T : worker'[s] = (IF s = t THEN "ended" ELSE worker[s])
  BY <1>1 DEF PipeInv, PipeTypes
<1>4. /\ IsFiniteSet(InPool) /\ Cardinality(InPool) \in Nat
      /\ t \in InPool /\ InPool' = InPool \ {t}
      /\ Limited' = Limited
  <2>1. t \in InPool /\ InPool' = InPool \ {t}
    BY <1>1, <1>3 DEF InPool
  <2>2. Limited' = Limited
    BY <1>1 DEF Limited
  <2> QED BY <2>1, <2>2, InPoolCounts DEF InPool
<1>5. Cardinality(InPool') = Cardinality(InPool) - 1 /\ Cardinality(InPool') \in Nat
  <2>1. Cardinality(InPool') = Cardinality(InPool) - 1
    BY <1>4, FS_RemoveElement
  <2>2. IsFiniteSet(InPool')
    BY <1>4, FS_RemoveElement
  <2> QED BY <2>1, <2>2, FS_CardinalityType
<1>6. sem = (IF Limited THEN InSemaphore ELSE 0)
  BY <1>2 DEF PipeInv, SemaphoreAddsUp
<1>7. InSemaphore = InSemaphore' + 1 /\ InSemaphore' \in Nat
  BY <1>1, <1>4, <1>5 DEF InSemaphore
<1>8. SemaphoreAddsUp'
  <2>1. sem' = (IF Limited THEN InSemaphore' ELSE 0)
    <3>1. ASSUME NEW n \in Nat, InSemaphore' = n
          PROVE  sem' = (IF Limited THEN n ELSE 0)
      <4>1. sem = (IF Limited THEN n + 1 ELSE 0)
        BY <1>6, <1>7, <3>1
      <4> QED BY <1>1, <4>1
    <3> QED BY <1>7, <3>1
  <2> QED BY <1>1, <1>2, <1>4, <2>1 DEF SemaphoreAddsUp
<1>9. PipeTypes'
  <2>1. sem \in 0..limit /\ limit \in Nat
    BY PipelineAssumption DEF PipeInv, PipeTypes
  <2>2. sem' \in 0..limit'
    <3>1. \/ Limited /\ sem' = sem - 1 /\ sem # 0
          \/ sem' = sem
      <4>1. CASE Limited
        <5>1. sem' = sem - 1 /\ sem = InSemaphore
          BY <1>1, <1>6, <4>1
        <5>2. InSemaphore # 0
          <6>1. \A n \in Nat : n + 1 # 0
            OBVIOUS
          <6> QED BY ONLY <1>7, <6>1
        <5> QED BY <4>1, <5>1, <5>2
      <4>2. CASE ~Limited
        BY <1>1, <4>2
      <4> QED BY <4>1, <4>2
    <3> QED BY <1>1, <2>1, <3>1
  <2>3. worker' \in [T -> {"none", "check", "process", "error", "write", "release",
                           "ended"}]
    BY <1>1 DEF PipeInv, PipeTypes
  <2> QED BY <1>1, <2>2, <2>3 DEF PipeInv, PipeTypes
<1>10. TextsInOrder'
  <2>1. \A s \in T : worker'[s] # "none" <=> worker[s] # "none"
    BY <1>1, <1>3
  <2> QED BY <1>1, <1>2, <2>1 DEF PipeInv, TextsInOrder
<1>11. ResultsGood'
  BY <1>1, <1>3 DEF PipeInv, PipeTypes, ResultsGood, Working
<1>12. AllTextsServed'
  BY <1>1 DEF PipeInv, AllTextsServed
<1> QED BY <1>8, <1>9, <1>10, <1>11, <1>12 DEF PipeInv

LEMMA ClosePoolKeepsInv == PipeInv /\ (ClosePool \/ UNCHANGED pipeVars) => PipeInv'
<1> SUFFICES ASSUME PipeInv, ClosePool \/ UNCHANGED pipeVars PROVE PipeInv'
  OBVIOUS
<1>1. UNCHANGED <<concurrent, limit, i, dpc, worker, first, sem, out, results, dret>>
  BY DEF ClosePool, pipeVars
<1>2. closed' \in BOOLEAN
  BY DEF ClosePool, pipeVars, PipeInv, PipeTypes
<1>3. PipeTypes'
  BY <1>1, <1>2 DEF PipeInv, PipeTypes
<1>4. InSemaphore' = InSemaphore /\ Limited' = Limited
  BY <1>1 DEF InSemaphore, InPool, Limited
<1>5. SemaphoreAddsUp'
  BY <1>1, <1>4 DEF PipeInv, SemaphoreAddsUp
<1>6. TextsInOrder' /\ ResultsGood' /\ AllTextsServed'
  BY <1>1 DEF PipeInv, TextsInOrder, ResultsGood, AllTextsServed, Working
<1> QED BY <1>3, <1>5, <1>6 DEF PipeInv

LEMMA PipeStepKeepsInv == PipeInv /\ [PipeNext]_pipeVars => PipeInv'
<1> SUFFICES ASSUME PipeInv, [PipeNext]_pipeVars
             PROVE  PipeInv'
  OBVIOUS
<1>1. CASE BatchStep
  BY <1>1, OneByOneKeepsInv, LoopHeadKeepsInv, AcquireKeepsInv, SubmitTaskKeepsInv,
     WaitForTasksKeepsInv DEF BatchStep
<1>2. CASE ClosePool \/ UNCHANGED pipeVars
  BY <1>2, ClosePoolKeepsInv
<1>3. ASSUME NEW t \in T, WorkerStep(t)
      PROVE  PipeInv'
  BY <1>3, CheckFirstKeepsInv, RunProcessKeepsInv, RecordFirstKeepsInv,
     WriteResultKeepsInv, TaskEndsKeepsInv DEF WorkerStep
<1> QED
  BY <1>1, <1>2, <1>3 DEF PipeNext

\* All texts served, by a Process without error, have all their documents; the tasks
\* at work are among those the semaphore counts.
LEMMA PipeInvIsEnough == PipeInv => PipelineAnswers
<1> SUFFICES ASSUME PipeInv PROVE PipelineAnswers
  OBVIOUS
<1>1. DocumentsComplete
  <2> SUFFICES ASSUME dret = "results"
               PROVE  results = T /\ \A t \in T : \A d \in Slices : out[t].fate[d] # "failed"
    BY DEF DocumentsComplete
  <2>1. results = T
    BY DEF PipeInv, AllTextsServed
  <2>2. ASSUME NEW t \in T PROVE \A d \in Slices : out[t].fate[d] # "failed"
    <3>1. out[t].err = "nil" /\ out[t] \in Outcomes \cup {NoOutcome}
      BY <2>1 DEF PipeInv, PipeTypes, ResultsGood
    <3> QED BY <3>1, GoodOutcomes
  <2> QED BY <2>1, <2>2
<1>2. WithinLimit
  <2> DEFINE W == {t \in T : worker[t] \in {"check", "process", "error", "write"}}
  <2> SUFFICES ASSUME Limited PROVE Cardinality(W) <= limit
    BY DEF WithinLimit
  <2>1. limit \in Nat /\ sem <= limit /\ sem \in Nat
    BY PipelineAssumption DEF PipeInv, PipeTypes
  <2>2. CASE concurrent
    <3>1. W \in SUBSET InPool /\ InPool \in SUBSET T
      BY DEF InPool
    <3>2. /\ Cardinality(W) <= Cardinality(InPool)
          /\ Cardinality(W) \in Nat /\ Cardinality(InPool) \in Nat
      <4> HIDE DEF W
      <4> QED BY <3>1, InPoolCounts, FS_Subset
    <3>3. Cardinality(InPool) <= sem
      BY <2>2, <3>2 DEF PipeInv, SemaphoreAddsUp, InSemaphore
    <3> HIDE DEF W
    <3> QED BY <2>1, <3>2, <3>3
  <2>3. CASE ~concurrent
    <3>1. W = {}
      BY <2>3 DEF PipeInv, TextsInOrder
    <3> QED BY <2>1, <3>1, FS_EmptySet
  <2> QED BY <2>2, <2>3
<1> QED BY <1>1, <1>2 DEF PipelineAnswers

\* BatchProcess: however its goroutines are scheduled and whatever their Process
\* returns, results mean that every text was processed, and no more texts are in work
\* than MaxConcurrency allows.
THEOREM DocumentsServed == PipeSpec => []PipelineAnswers
BY PipeInitHolds, PipeStepKeepsInv, PipeInvIsEnough, PTL DEF PipeSpec

-----------------------------------------------------------------------------
(* The composition of MCPools *)

\* The three components keep their state well typed; the pipeline's semaphore stays
\* between empty and full because it counts the goroutines.
THEOREM PoolsTyped == PoolsSpec => []PoolTypes
<1> DEFINE Inv == EmbedInv /\ PipeInv /\ PubSubInv
<1>1. PoolsInit => Inv
  BY EmbedInitHolds, PipeInitHolds, PubSubInitHolds DEF PoolsInit
<1>2. Inv /\ [PoolsNext]_PoolsVars => Inv'
  <2> SUFFICES ASSUME Inv, [PoolsNext]_PoolsVars PROVE Inv'
    OBVIOUS
  <2>1. /\ [EmbedNext]_embedVars /\ [PipeNext]_pipeVars /\ [PubSubNext]_pubsubVars
    BY DEF PoolsNext, PoolsVars, Embedding, Piping, Subscribing
  <2> QED BY <2>1, EmbedStepKeepsInv, PipeStepKeepsInv, PubSubStepKeepsInv
<1>3. Inv => PoolTypes
  BY DEF PoolTypes, EmbedInv, PipeInv, PubSubInv
<1> QED BY <1>1, <1>2, <1>3, PTL DEF PoolsSpec

=============================================================================
