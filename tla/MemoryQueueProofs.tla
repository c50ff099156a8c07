------------------------- MODULE MemoryQueueProofs -------------------------
(***************************************************************************)
(* Safety of the in-memory queue, proved for any number of publishers,     *)
(* subscribers and messages, any queue size and any message lifetime.      *)
(***************************************************************************)
EXTENDS MemoryQueue, FiniteSetTheorems, TLAPS

\* A part of the state that a step leaves alone keeps its type.
LEMMA SameTypes ==
    /\ ProcessTypes /\ UNCHANGED <<now, mu, count, panicked, crashed>> => ProcessTypes'
    /\ PubTypes /\ UNCHANGED pubVars => PubTypes'
    /\ DispTypes /\ UNCHANGED dispVars => DispTypes'
    /\ SubTypes /\ UNCHANGED subVars => SubTypes'
    /\ JanTypes /\ UNCHANGED <<mu, janVars>> => JanTypes'
    /\ ChanTypes /\ UNCHANGED chanVars => ChanTypes'
    /\ SinkTypes /\ UNCHANGED sinkVars => SinkTypes'
    /\ MsgTypes /\ UNCHANGED msgVars => MsgTypes'
    /\ LifeTypes /\ UNCHANGED lifeVars => LifeTypes'
  BY DEF ProcessTypes, PubTypes, DispTypes, SubTypes, JanTypes, ChanTypes,
         SinkTypes, MsgTypes, LifeTypes, pubVars, dispVars, subVars,
         janVars, chanVars, sinkVars, msgVars, lifeVars

LEMMA TypeInit == Init => TypeOK
<1> SUFFICES ASSUME Init PROVE TypeOK
  OBVIOUS
<1>1. LifeTypes
  BY DEF Init, LifeTypes
<1>5. ProcessTypes
  BY QueueAssumption DEF Init, ProcessTypes, Holders
<1>4. JanTypes
  BY DEF Init, JanTypes, Free
<1>2. PubTypes /\ SubTypes /\ MsgTypes
  BY QueueAssumption DEF Init, PubTypes, SubTypes, MsgTypes, Fates
<1>3. DispTypes /\ ChanTypes /\ SinkTypes
  BY DEF Init, DispTypes, ChanTypes, SinkTypes
<1> QED BY <1>1, <1>2, <1>3, <1>4, <1>5 DEF TypeOK

LEMMA TypePubBegin ==
  ASSUME TypeOK, NEW p \in Pubs, NEW m \in Msgs, PubBegin(p, m)
  PROVE  TypeOK'
<1>1. PubTypes'
  BY QueueAssumption DEF PubBegin, TypeOK, PubTypes
<1>2. MsgTypes'
  BY DEF PubBegin, TypeOK, ProcessTypes, MsgTypes, Fates
<1> QED BY <1>1, <1>2, SameTypes DEF PubBegin, TypeOK

LEMMA TypePubLocked ==
  ASSUME TypeOK, NEW p \in Pubs, PubLocked(p)
  PROVE  TypeOK'
<1>1. PubTypes'
  BY DEF PubLocked, TypeOK, PubTypes
<1>2. ChanTypes'
  <2>1. CASE queue # Nil
    BY <2>1 DEF PubLocked, EnsureQueue, TypeOK, ChanTypes, chanVars
  <2>2. CASE queue = Nil
    <3>1. PICK c \in Fresh : /\ queue' = c
                            /\ buf' = [buf EXCEPT ![c] = <<>>]
                            /\ open' = open \cup {c}
      BY <2>2 DEF PubLocked, EnsureQueue
    <3>2. c \in Chans
      BY DEF Fresh
    <3> QED BY <3>1, <3>2 DEF TypeOK, ChanTypes
  <2> QED BY <2>1, <2>2
<1>3. LifeTypes'
  BY DEF PubLocked, EnsureQueue, TypeOK, LifeTypes
<1> QED BY <1>1, <1>2, <1>3, SameTypes DEF PubLocked, EnsureQueue, TypeOK

LEMMA TypePubCheckDone ==
  ASSUME TypeOK, NEW p \in Pubs, PubCheckDone(p)
  PROVE  TypeOK'
<1>1. PubTypes'
  BY DEF PubCheckDone, PubRejected, PubReturn, TypeOK, PubTypes
<1>2. MsgTypes'
  BY DEF PubCheckDone, PubRejected, TypeOK, MsgTypes, Fates
<1> QED BY <1>1, <1>2, SameTypes DEF PubCheckDone, PubRejected, TypeOK

LEMMA TypePubReadMap ==
  ASSUME TypeOK, NEW p \in Pubs, PubReadMap(p)
  PROVE  TypeOK'
<1>1. PubTypes'
  BY DEF PubReadMap, TypeOK, PubTypes, ChanTypes
<1> QED BY <1>1, SameTypes DEF PubReadMap, TypeOK

LEMMA TypePubReadMapRace ==
  ASSUME TypeOK, NEW p \in Pubs, PubReadMapRace(p)
  PROVE  TypeOK'
<1>1. ProcessTypes'
  BY DEF PubReadMapRace, TypeOK, ProcessTypes, Holders
<1> QED BY <1>1, SameTypes DEF PubReadMapRace, TypeOK

LEMMA TypePubSend ==
  ASSUME TypeOK, NEW p \in Pubs, PubSend(p)
  PROVE  TypeOK'
<1>1. ProcessTypes'
  BY DEF PubSend, PubRejected, TypeOK, ProcessTypes
<1>2. PubTypes'
  BY DEF PubSend, PubRejected, PubReturn, TypeOK, PubTypes
<1>3. ChanTypes'
  <2>1. pmsg[p] \in Msgs
    BY DEF PubSend, TypeOK, PubTypes
  <2>2. CASE chanVars' = chanVars
    BY <2>2, SameTypes DEF TypeOK
  <2>3. CASE chanVars' # chanVars
    <3>1. /\ pch[p] \in Chans
          /\ buf' = [buf EXCEPT ![pch[p]] = Append(@, pmsg[p])]
          /\ UNCHANGED <<queue, open>>
      BY <2>3 DEF PubSend, PubRejected, TypeOK, PubTypes, ChanTypes
    <3> QED BY <2>1, <3>1 DEF TypeOK, ChanTypes
  <2> QED BY <2>2, <2>3
<1>4. MsgTypes'
  <2>1. Rng(subscribers) \in SUBSET Subs
    BY DEF TypeOK, SinkTypes, Rng
  <2> QED BY <2>1 DEF PubSend, PubRejected, TypeOK, MsgTypes, Fates
<1> QED BY <1>1, <1>2, <1>3, <1>4, SameTypes DEF PubSend, PubRejected, TypeOK

LEMMA TypePubCount ==
  ASSUME TypeOK, NEW p \in Pubs, PubCount(p)
  PROVE  TypeOK'
<1>1. ProcessTypes'
  BY DEF PubCount, TypeOK, ProcessTypes, Holders
<1>2. PubTypes'
  BY DEF PubCount, PubReturn, TypeOK, PubTypes
<1> QED BY <1>1, <1>2, SameTypes DEF PubCount, TypeOK

LEMMA TypeSubRegister ==
  ASSUME TypeOK, NEW s \in Subs, SubRegister(s)
  PROVE  TypeOK'
<1>1. SinkTypes'
  BY DEF SubRegister, TypeOK, SinkTypes
<1>2. SubTypes'
  BY DEF SubRegister, TypeOK, SubTypes
<1>3. DispTypes'
  BY DEF SubRegister, TypeOK, DispTypes
<1>4. ChanTypes'
  <2>1. CASE queue # Nil
    BY <2>1 DEF SubRegister, EnsureQueue, TypeOK, ChanTypes, chanVars
  <2>2. CASE queue = Nil
    <3>1. PICK c \in Fresh : /\ queue' = c
                            /\ buf' = [buf EXCEPT ![c] = <<>>]
                            /\ open' = open \cup {c}
      BY <2>2 DEF SubRegister, EnsureQueue
    <3>2. c \in Chans
      BY DEF Fresh
    <3> QED BY <3>1, <3>2 DEF TypeOK, ChanTypes
  <2> QED BY <2>1, <2>2
<1>5. LifeTypes'
  BY DEF SubRegister, EnsureQueue, TypeOK, LifeTypes
<1> QED BY <1>1, <1>2, <1>3, <1>4, <1>5, SameTypes DEF SubRegister, EnsureQueue, TypeOK

LEMMA TypeSubExit ==
  ASSUME TypeOK, NEW s \in Subs, SubExit(s)
  PROVE  TypeOK'
<1>1. SubTypes'
  BY DEF SubExit, TypeOK, SubTypes
<1> QED BY <1>1, SameTypes DEF SubExit, TypeOK

LEMMA TypeSubReceive ==
  ASSUME TypeOK, NEW s \in Subs, SubReceive(s)
  PROVE  TypeOK'
<1>1. SubTypes'
  <2>1. Head(sbuf[s]) \in Msgs
    BY DEF SubReceive, TypeOK, SinkTypes
  <2> QED BY <2>1, QueueAssumption DEF SubReceive, TypeOK, SubTypes
<1>2. SinkTypes'
  <2>1. Tail(sbuf[s]) \in Seq(Msgs)
    BY DEF SubReceive, TypeOK, SinkTypes
  <2> QED BY <2>1 DEF SubReceive, TypeOK, SinkTypes
<1> QED BY <1>1, <1>2, SameTypes DEF SubReceive, TypeOK

LEMMA TypeSubStartHandler ==
  ASSUME TypeOK, NEW s \in Subs, SubStartHandler(s)
  PROVE  TypeOK'
<1>1. SubTypes'
  BY DEF SubStartHandler, TypeOK, SubTypes
<1> QED BY <1>1, SameTypes DEF SubStartHandler, TypeOK

LEMMA TypeHandlerDone ==
  ASSUME TypeOK, NEW s \in Subs, NEW m \in Msgs, HandlerDone(s, m)
  PROVE  TypeOK'
<1>1. SubTypes'
  BY DEF HandlerDone, TypeOK, SubTypes
<1> QED BY <1>1, SameTypes DEF HandlerDone, TypeOK

LEMMA TypeDispatchSnapshot ==
  ASSUME TypeOK, NEW s \in Subs, DispatchSnapshot(s)
  PROVE  TypeOK'
<1>1. DispTypes'
  <2>1. CASE DispatchReturn(s)
    BY <2>1 DEF DispatchSnapshot, DispatchReturn, TypeOK, DispTypes
  <2>2. CASE ~DispatchReturn(s)
    <3>1. /\ queue \in Chans /\ queue # Nil /\ subscribers \in Seq(Subs)
      BY <2>2 DEF DispatchSnapshot, TypeOK, ChanTypes, SinkTypes
    <3>2. /\ dpc' = [dpc EXCEPT ![s] = "recv"]
          /\ dch' = [dch EXCEPT ![s] = queue]
          /\ dtargets' = [dtargets EXCEPT ![s] = subscribers]
          /\ UNCHANGED dmsg
      BY <2>2 DEF DispatchSnapshot
    <3> QED BY <3>1, <3>2 DEF TypeOK, DispTypes
  <2> QED BY <2>1, <2>2
<1> QED BY <1>1, SameTypes DEF DispatchSnapshot, TypeOK

LEMMA TypeDispatchReceive ==
  ASSUME TypeOK, NEW s \in Subs, DispatchReceive(s)
  PROVE  TypeOK'
<1>1. DispTypes'
  <2>1. CASE DispatchReturn(s)
    BY <2>1 DEF DispatchReceive, DispatchReturn, TypeOK, DispTypes
  <2>2. CASE ~DispatchReturn(s)
    <3>1. dch[s] \in Chans
      BY DEF DispatchReceive, TypeOK, DispTypes
    <3>2. Head(buf[dch[s]]) \in Msgs
      BY <2>2, <3>1 DEF DispatchReceive, TypeOK, ChanTypes
    <3>3. Head(buf[dch[s]]) # Nil
      BY <3>2, QueueAssumption
    <3>4. CASE Expired(Head(buf[dch[s]]))
      <4>1. /\ dpc' = [dpc EXCEPT ![s] = "loop"]
            /\ dch' = [dch EXCEPT ![s] = Nil]
            /\ dtargets' = [dtargets EXCEPT ![s] = <<>>]
            /\ UNCHANGED dmsg
        BY <2>2, <3>4 DEF DispatchReceive
      <4> QED BY <4>1 DEF TypeOK, DispTypes
    <3>5. CASE ~Expired(Head(buf[dch[s]]))
      <4>1. /\ dmsg' = [dmsg EXCEPT ![s] = Head(buf[dch[s]])]
            /\ dpc' = [dpc EXCEPT ![s] = "send"]
            /\ dch' = [dch EXCEPT ![s] = Nil]
            /\ UNCHANGED dtargets
        BY <2>2, <3>5 DEF DispatchReceive
      <4> QED BY <3>2, <3>3, <4>1 DEF TypeOK, DispTypes
    <3> QED BY <3>4, <3>5
  <2> QED BY <2>1, <2>2
<1>2. ChanTypes'
  <2>1. CASE buf' = buf
    BY <2>1 DEF DispatchReceive, TypeOK, ChanTypes
  <2>2. CASE buf' # buf
    <3>1. dch[s] \in Chans
      BY DEF DispatchReceive, TypeOK, DispTypes
    <3>2. Tail(buf[dch[s]]) \in Seq(Msgs)
      BY <2>2, <3>1 DEF DispatchReceive, TypeOK, ChanTypes
    <3> QED BY <2>2, <3>1, <3>2 DEF DispatchReceive, Receive, TypeOK, ChanTypes
  <2> QED BY <2>1, <2>2
<1>3. MsgTypes'
  BY DEF DispatchReceive, TypeOK, MsgTypes, Fates
<1> QED BY <1>1, <1>2, <1>3, SameTypes DEF DispatchReceive, TypeOK

LEMMA TypeDispatchSend ==
  ASSUME TypeOK, NEW s \in Subs, DispatchSend(s)
  PROVE  TypeOK'
<1>1. ProcessTypes'
  BY DEF DispatchSend, TypeOK, ProcessTypes, Holders
<1>2. DispTypes'
  <2>1. Tail(dtargets[s]) \in Seq(Subs)
    BY DEF DispatchSend, TypeOK, DispTypes
  <2> QED BY <2>1 DEF DispatchSend, TypeOK, DispTypes
<1>3. SinkTypes'
  <2> DEFINE t == Head(dtargets[s])
  <2>1. t \in Subs /\ dmsg[s] \in Msgs
    BY DEF DispatchSend, TypeOK, DispTypes
  <2>2. /\ Append(sbuf[t], dmsg[s]) \in Seq(Msgs)
        /\ Append(log[t], dmsg[s]) \in Seq(Msgs)
    BY <2>1 DEF TypeOK, SinkTypes
  <2>3. /\ sbuf' \in [Subs -> Seq(Msgs)]
        /\ log' \in [Subs -> Seq(Msgs)]
    BY ZenonT(30), <2>1, <2>2 DEF DispatchSend, TypeOK, SinkTypes
  <2>4. offered' \in [Subs -> SUBSET Msgs]
    <3>1. \/ UNCHANGED offered
          \/ offered' = [offered EXCEPT ![t] = @ \cup {dmsg[s]}]
      BY DEF DispatchSend
    <3>2. offered[t] \cup {dmsg[s]} \in SUBSET Msgs
      BY <2>1 DEF TypeOK, SinkTypes
    <3> QED BY <2>1, <3>1, <3>2 DEF TypeOK, SinkTypes
  <2> QED BY <2>3, <2>4 DEF DispatchSend, TypeOK, SinkTypes
<1> QED BY <1>1, <1>2, <1>3, SameTypes DEF DispatchSend, TypeOK

LEMMA TypeDispatchDone ==
  ASSUME TypeOK, NEW s \in Subs, DispatchDone(s)
  PROVE  TypeOK'
<1>1. DispTypes'
  BY DEF DispatchDone, TypeOK, DispTypes
<1>2. MsgTypes'
  BY DEF DispatchDone, TypeOK, MsgTypes, Fates
<1> QED BY <1>1, <1>2, SameTypes DEF DispatchDone, TypeOK

LEMMA TypeReplaceBegin ==
  ASSUME TypeOK, NEW who \in {"cleaner", "monitor"}, ReplaceBegin(who)
  PROVE  TypeOK'
<1>1. ProcessTypes'
  BY DEF ReplaceBegin, TypeOK, ProcessTypes, Holders
<1>2. JanTypes'
  BY QueueAssumption DEF ReplaceBegin, Fresh, TypeOK, JanTypes, ChanTypes
<1>3. ChanTypes'
  BY DEF ReplaceBegin, Fresh, TypeOK, ChanTypes
<1> QED BY <1>1, <1>2, <1>3, SameTypes DEF ReplaceBegin, TypeOK

LEMMA TypeReplaceDrain ==
  ASSUME TypeOK, NEW who \in {"cleaner", "monitor"}, NEW kept,
         NEW droppedAs \in {"expired", "evicted"}, ReplaceDrain(who, kept, droppedAs)
  PROVE  TypeOK'
<1>1. ProcessTypes'
  BY DEF ReplaceDrain, DiscountDropped, TypeOK, ProcessTypes, Holders
<1>2. JanTypes'
  BY DEF ReplaceDrain, TypeOK, JanTypes
<1>3. ChanTypes'
  <2>1. jold \in Chans /\ jnew \in Chans
    BY DEF ReplaceDrain, TypeOK, JanTypes
  <2>2. Head(buf[jold]) \in Msgs /\ Tail(buf[jold]) \in Seq(Msgs)
    BY <2>1 DEF ReplaceDrain, TypeOK, ChanTypes
  <2>3. Append(buf[jnew], Head(buf[jold])) \in Seq(Msgs)
    BY <2>1, <2>2 DEF TypeOK, ChanTypes
  <2>4. \/ buf' = [buf EXCEPT ![jold] = Tail(@), ![jnew] = Append(@, Head(buf[jold]))]
        \/ buf' = [buf EXCEPT ![jold] = Tail(@)]
    BY DEF ReplaceDrain, Move
  <2>5. jold # jnew \/ jold = jnew
    OBVIOUS
  <2>6. buf' \in [Chans -> Seq(Msgs)]
    <3>1. \A c \in Chans : Append(Tail(buf[jold]), Head(buf[jold])) \in Seq(Msgs)
      BY <2>2
    <3> QED BY <2>1, <2>2, <2>3, <2>4, <3>1 DEF TypeOK, ChanTypes
  <2> QED BY <2>6 DEF ReplaceDrain, TypeOK, ChanTypes
<1>4. MsgTypes'
  BY DEF ReplaceDrain, TypeOK, MsgTypes, Fates
<1> QED BY <1>1, <1>2, <1>3, <1>4, SameTypes DEF ReplaceDrain, TypeOK

LEMMA TypeReplaceEnd ==
  ASSUME TypeOK, NEW who \in {"cleaner", "monitor"}, ReplaceEnd(who)
  PROVE  TypeOK'
<1>1. ProcessTypes'
  BY DEF ReplaceEnd, TypeOK, ProcessTypes, Holders, Free
<1>2. JanTypes'
  BY DEF ReplaceEnd, TypeOK, JanTypes, Free
<1>3. ChanTypes'
  BY DEF ReplaceEnd, InstallQueue, TypeOK, JanTypes, ChanTypes
<1> QED BY <1>1, <1>2, <1>3, SameTypes DEF ReplaceEnd, TypeOK

LEMMA TypeCleanerExit ==
  ASSUME TypeOK, CleanerExit
  PROVE  TypeOK'
<1>1. LifeTypes'
  BY DEF CleanerExit, IdleCleaner, TypeOK, LifeTypes
<1> QED BY <1>1, SameTypes DEF CleanerExit, TypeOK

LEMMA TypeMonitorExit ==
  ASSUME TypeOK, MonitorExit
  PROVE  TypeOK'
<1>1. LifeTypes'
  BY DEF MonitorExit, TypeOK, LifeTypes
<1> QED BY <1>1, SameTypes DEF MonitorExit, TypeOK

LEMMA TypeCloseBegin ==
  ASSUME TypeOK, CloseBegin
  PROVE  TypeOK'
<1>1. LifeTypes'
  BY DEF CloseBegin, TypeOK, LifeTypes
<1> QED BY <1>1, SameTypes DEF CloseBegin, TypeOK

LEMMA TypeCloseQueues ==
  ASSUME TypeOK, CloseQueues
  PROVE  TypeOK'
<1>1. ProcessTypes'
  BY DEF CloseQueues, TypeOK, ProcessTypes, Holders
<1>2. JanTypes'
  BY DEF CloseQueues, TypeOK, JanTypes, janVars
<1>3. ChanTypes'
  BY DEF CloseQueues, TypeOK, ChanTypes
<1>4. LifeTypes'
  BY DEF CloseQueues, TypeOK, LifeTypes
<1> QED BY <1>1, <1>2, <1>3, <1>4, SameTypes DEF CloseQueues, TypeOK

LEMMA TypeCloseSubscribers ==
  ASSUME TypeOK, CloseSubscribers
  PROVE  TypeOK'
<1>1. ProcessTypes'
  BY DEF CloseSubscribers, TypeOK, ProcessTypes, Holders, Free
<1>2. JanTypes'
  BY DEF CloseSubscribers, TypeOK, JanTypes, janVars, Free
<1>3. SinkTypes'
  <2>1. Rng(subscribers) \in SUBSET Subs
    BY DEF TypeOK, SinkTypes, Rng
  <2> QED BY <2>1 DEF CloseSubscribers, TypeOK, SinkTypes
<1>4. LifeTypes'
  BY DEF CloseSubscribers, TypeOK, LifeTypes
<1> QED BY <1>1, <1>2, <1>3, <1>4, SameTypes DEF CloseSubscribers, TypeOK

LEMMA TypeTick ==
  ASSUME TypeOK, Tick
  PROVE  TypeOK'
<1>1. ProcessTypes'
  BY QueueAssumption DEF Tick, TypeOK, ProcessTypes, Holders
<1> QED BY <1>1, SameTypes DEF Tick, TypeOK

LEMMA TypeStep == TypeOK /\ [Next]_vars => TypeOK'
<1> SUFFICES ASSUME TypeOK, [Next]_vars PROVE TypeOK'
  OBVIOUS
<1>1. CASE UNCHANGED vars
  BY <1>1, SameTypes DEF vars, TypeOK
<1>2. CASE Next
  BY <1>2, TypePubBegin, TypePubLocked, TypePubCheckDone, TypePubReadMap,
     TypePubReadMapRace, TypePubSend, TypePubCount, TypeSubRegister, TypeSubExit,
     TypeSubReceive, TypeSubStartHandler, TypeHandlerDone, TypeDispatchSnapshot,
     TypeDispatchReceive, TypeDispatchSend, TypeDispatchDone, TypeReplaceBegin,
     TypeReplaceDrain, TypeReplaceEnd, TypeCleanerExit, TypeMonitorExit,
     TypeCloseBegin, TypeCloseQueues, TypeCloseSubscribers, TypeTick
     DEF Next, PubStep, SubStep, DispatchStep, CleanerStep, MonitorStep, CloseStep,
         CleanBegin, CleanDrain, CleanEnd, EvictBegin, EvictDrain, EvictEnd
<1> QED BY <1>1, <1>2

\* The state is well typed at every step of every behaviour: channels are read
\* from the map only as channels that exist, the count of clean-up goroutines
\* never runs below zero, a message is always in one of the states of its life.
THEOREM TypeCorrect == Spec => []TypeOK
  BY TypeInit, TypeStep, PTL DEF Spec

-----------------------------------------------------------------------------
(* The clean-ups and the mutex: the inductive invariant *)

Janitors == {"cleaner", "monitor"}

\* A clean-up holds the mutex exactly while it has an old and a new queue: the
\* old one is in the map and closed, the new one is open.
CleanupHoldsMutex ==
    /\ mu \in Janitors => /\ queue = jold /\ jold # jnew
                          /\ jold \notin open /\ jnew \in open
    /\ mu \notin Janitors => jold = Nil /\ jnew = Nil
    /\ closing = "subs" => mu = "closer"

\* Without a clean-up, the queue in the map is open.
MapQueueOpen == mu \notin Janitors /\ queue # Nil => queue \in open

\* Nobody but its clean-up knows a new queue.
NewQueuePrivate ==
    jnew # Nil => /\ \A p \in Pubs : pch[p] # jnew
                  /\ \A s \in Subs : dch[s] # jnew

QueueInv ==
    TypeOK /\ CleanupHoldsMutex /\ MapQueueOpen /\ NewQueuePrivate /\ CleanupFits
           /\ NoDoubleClose

LEMMA QueueInit == Init => QueueInv
<1> SUFFICES ASSUME Init PROVE QueueInv
  OBVIOUS
<1>1. CleanupHoldsMutex /\ MapQueueOpen /\ NewQueuePrivate /\ NoDoubleClose
  BY DEF Init, CleanupHoldsMutex, MapQueueOpen, NewQueuePrivate, NoDoubleClose, Janitors,
         Free
<1>2. CleanupFits
  BY QueueAssumption DEF Init, CleanupFits, Free
<1> QED BY <1>1, <1>2, TypeInit DEF QueueInv

\* Steps that only change who knows which channel, or the progress of the process.
LEMMA QueueUntouched ==
  ASSUME QueueInv, TypeOK', UNCHANGED <<mu, jold, jnew, chanVars>>,
         closing' = closing \/ closing' = "lock",
         crashed' = crashed \/ crashed' \in {"sendOnClosed", "mapRace"},
         \A p \in Pubs : pch'[p] \in {pch[p], queue, Nil},
         \A s \in Subs : dch'[s] \in {dch[s], queue, Nil}
  PROVE  QueueInv'
<1>1. CleanupHoldsMutex' /\ MapQueueOpen' /\ NoDoubleClose'
  BY DEF QueueInv, CleanupHoldsMutex, MapQueueOpen, NoDoubleClose, chanVars
<1>2. jnew # Nil => queue # jnew
  BY DEF QueueInv, CleanupHoldsMutex
<1>3. NewQueuePrivate'
  BY <1>2 DEF QueueInv, NewQueuePrivate
<1>4. CleanupFits'
  BY DEF QueueInv, CleanupFits, chanVars
<1> QED BY <1>1, <1>3, <1>4 DEF QueueInv

LEMMA QueueSimpleSteps ==
  ASSUME QueueInv, TypeOK',
         \/ \E p \in Pubs, m \in Msgs : PubBegin(p, m)
         \/ \E p \in Pubs : PubCheckDone(p)
         \/ \E p \in Pubs : PubReadMap(p)
         \/ \E p \in Pubs : PubReadMapRace(p)
         \/ \E p \in Pubs : PubCount(p)
         \/ \E s \in Subs : SubExit(s)
         \/ \E s \in Subs : SubReceive(s)
         \/ \E s \in Subs : SubStartHandler(s)
         \/ \E s \in Subs, m \in Msgs : HandlerDone(s, m)
         \/ \E s \in Subs : DispatchSnapshot(s)
         \/ \E s \in Subs : DispatchSend(s)
         \/ \E s \in Subs : DispatchDone(s)
         \/ CleanerExit
         \/ MonitorExit
         \/ CloseBegin
         \/ Tick
  PROVE  QueueInv'
<1>1. ASSUME NEW p \in Pubs, NEW m \in Msgs, PubBegin(p, m)
      PROVE  QueueInv'
  BY <1>1, QueueUntouched DEF PubBegin, pubVars, dispVars, subVars, janVars, lifeVars, QueueInv, TypeOK, PubTypes, DispTypes
<1>2. ASSUME NEW p \in Pubs, PubCheckDone(p)
      PROVE  QueueInv'
  BY <1>2, QueueUntouched DEF PubCheckDone, PubRejected, PubReturn, pubVars, dispVars, subVars, janVars, lifeVars, QueueInv, TypeOK, PubTypes, DispTypes
<1>3. ASSUME NEW p \in Pubs, PubReadMap(p)
      PROVE  QueueInv'
  BY <1>3, QueueUntouched DEF PubReadMap, pubVars, dispVars, subVars, janVars, lifeVars, QueueInv, TypeOK, PubTypes, DispTypes
<1>4. ASSUME NEW p \in Pubs, PubReadMapRace(p)
      PROVE  QueueInv'
  BY <1>4, QueueUntouched DEF PubReadMapRace, pubVars, dispVars, subVars, janVars, lifeVars, QueueInv, TypeOK, PubTypes, DispTypes
<1>5. ASSUME NEW p \in Pubs, PubCount(p)
      PROVE  QueueInv'
  BY <1>5, QueueUntouched DEF PubCount, PubReturn, pubVars, dispVars, subVars, janVars, lifeVars, QueueInv, TypeOK, PubTypes, DispTypes
<1>6. ASSUME NEW s \in Subs, SubExit(s)
      PROVE  QueueInv'
  BY <1>6, QueueUntouched DEF SubExit, pubVars, dispVars, subVars, janVars, lifeVars, QueueInv, TypeOK, PubTypes, DispTypes
<1>7. ASSUME NEW s \in Subs, SubReceive(s)
      PROVE  QueueInv'
  BY <1>7, QueueUntouched DEF SubReceive, pubVars, dispVars, subVars, janVars, lifeVars, QueueInv, TypeOK, PubTypes, DispTypes
<1>8. ASSUME NEW s \in Subs, SubStartHandler(s)
      PROVE  QueueInv'
  BY <1>8, QueueUntouched DEF SubStartHandler, pubVars, dispVars, subVars, janVars, lifeVars, QueueInv, TypeOK, PubTypes, DispTypes
<1>9. ASSUME NEW s \in Subs, NEW m \in Msgs, HandlerDone(s, m)
      PROVE  QueueInv'
  BY <1>9, QueueUntouched DEF HandlerDone, pubVars, dispVars, subVars, janVars, lifeVars, QueueInv, TypeOK, PubTypes, DispTypes
<1>10. ASSUME NEW s \in Subs, DispatchSnapshot(s)
      PROVE  QueueInv'
  BY <1>10, QueueUntouched DEF DispatchSnapshot, DispatchReturn, pubVars, dispVars, subVars, janVars, lifeVars, QueueInv, TypeOK, PubTypes, DispTypes
<1>11. ASSUME NEW s \in Subs, DispatchSend(s)
      PROVE  QueueInv'
  BY <1>11, QueueUntouched DEF DispatchSend, pubVars, dispVars, subVars, janVars, lifeVars, QueueInv, TypeOK, PubTypes, DispTypes
<1>12. ASSUME NEW s \in Subs, DispatchDone(s)
      PROVE  QueueInv'
  BY <1>12, QueueUntouched DEF DispatchDone, pubVars, dispVars, subVars, janVars, lifeVars, QueueInv, TypeOK, PubTypes, DispTypes
<1>13. CASE CleanerExit
  BY <1>13, QueueUntouched DEF CleanerExit, pubVars, dispVars, subVars, janVars, lifeVars, QueueInv, TypeOK, PubTypes, DispTypes
<1>14. CASE MonitorExit
  BY <1>14, QueueUntouched DEF MonitorExit, pubVars, dispVars, subVars, janVars, lifeVars, QueueInv, TypeOK, PubTypes, DispTypes
<1>15. CASE CloseBegin
  BY <1>15, QueueUntouched DEF CloseBegin, pubVars, dispVars, subVars, janVars, lifeVars, QueueInv, TypeOK, PubTypes, DispTypes
<1>16. CASE Tick
  BY <1>16, QueueUntouched DEF Tick, pubVars, dispVars, subVars, janVars, lifeVars, QueueInv, TypeOK, PubTypes, DispTypes
<1> QED BY <1>1, <1>2, <1>3, <1>4, <1>5, <1>6, <1>7, <1>8, <1>9, <1>10, <1>11, <1>12, <1>13, <1>14, <1>15, <1>16

LEMMA SumsShrink ==
  ASSUME NEW a \in Nat, NEW b \in Nat, NEW a1 \in Nat, NEW b1 \in Nat, NEW max \in Nat,
         a + b <= max, a1 + b1 <= a + b
  PROVE  a1 + b1 <= max
  OBVIOUS

LEMMA MoveOne ==
  ASSUME NEW a \in Nat, NEW b \in Nat, a # 0
  PROVE  a - 1 \in Nat /\ b + 1 \in Nat /\ (a - 1) + (b + 1) = a + b
  OBVIOUS

LEMMA SumMonotone ==
  ASSUME NEW a \in Nat, NEW b \in Nat, NEW a1 \in Nat, NEW b1 \in Nat, a1 <= a, b1 <= b
  PROVE  a1 + b1 <= a + b
  OBVIOUS

\* What a queue channel holds only shrinks, or grows by one where there was room.
LEMMA EnsureQueueStep ==
  ASSUME QueueInv, TypeOK', EnsureQueue, mu = Free,
         UNCHANGED <<mu, janVars, closing, crashed, pch, dch>>
  PROVE  QueueInv'
<1>1. CASE queue # Nil
  BY <1>1, QueueUntouched DEF EnsureQueue, janVars, QueueInv, TypeOK, PubTypes, DispTypes
<1>2. CASE queue = Nil
  <2>1. PICK c \in Fresh : /\ queue' = c
                          /\ buf' = [buf EXCEPT ![c] = <<>>]
                          /\ open' = open \cup {c}
    BY <1>2 DEF EnsureQueue
  <2>2. c \in Chans /\ jold = Nil /\ jnew = Nil
    BY DEF Fresh, QueueInv, CleanupHoldsMutex, Janitors, Free
  <2>3. CleanupHoldsMutex' /\ MapQueueOpen' /\ NewQueuePrivate' /\ NoDoubleClose'
    BY <2>1, <2>2 DEF QueueInv, CleanupHoldsMutex, MapQueueOpen, NewQueuePrivate,
       NoDoubleClose, janVars
  <2>4. CleanupFits'
    BY <2>1, <2>2, QueueAssumption
       DEF QueueInv, CleanupFits, TypeOK, ChanTypes, Free
  <2> QED BY <2>3, <2>4 DEF QueueInv
<1> QED BY <1>1, <1>2

LEMMA QueuePubLocked ==
  ASSUME QueueInv, TypeOK', NEW p \in Pubs, PubLocked(p)
  PROVE  QueueInv'
  BY EnsureQueueStep DEF PubLocked, dispVars

LEMMA QueueSubRegister ==
  ASSUME QueueInv, TypeOK', NEW s \in Subs, SubRegister(s)
  PROVE  QueueInv'
  BY EnsureQueueStep DEF SubRegister, pubVars

LEMMA QueuePubSend ==
  ASSUME QueueInv, TypeOK', NEW p \in Pubs, PubSend(p)
  PROVE  QueueInv'
<1>1. CASE PubRejected(p)
  BY <1>1, QueueUntouched
     DEF PubSend, PubRejected, PubReturn, janVars, dispVars, lifeVars, QueueInv, TypeOK,
         PubTypes, DispTypes
<1>2. CASE ~PubRejected(p)
  <2>1. /\ pch[p] \in Chans
        /\ pch[p] \in open
        /\ HasRoom(pch[p])
        /\ buf' = [buf EXCEPT ![pch[p]] = Append(@, pmsg[p])]
        /\ UNCHANGED <<queue, open, jold, jnew, mu, closing, crashed, pch, dch>>
    BY <1>2 DEF PubSend, QueueInv, TypeOK, PubTypes, janVars, dispVars, lifeVars
  <2>2. CleanupHoldsMutex' /\ MapQueueOpen' /\ NewQueuePrivate' /\ NoDoubleClose'
    BY <2>1 DEF QueueInv, CleanupHoldsMutex, MapQueueOpen, NewQueuePrivate, NoDoubleClose
  <2>3. mu \in Janitors => pch[p] # jold /\ pch[p] # jnew
    <3>1. mu \in Janitors => jold \notin open /\ jnew # Nil
      BY DEF QueueInv, TypeOK, JanTypes, CleanupHoldsMutex, Janitors
    <3> QED BY <2>1, <3>1 DEF QueueInv, NewQueuePrivate
  <2>4. /\ buf[pch[p]] \in Seq(Msgs)
        /\ pmsg[p] \in Msgs
    BY <2>1 DEF PubSend, QueueInv, TypeOK, ChanTypes, PubTypes
  <2>5. Len(Append(buf[pch[p]], pmsg[p])) <= MaxQueueSize
    BY <2>1, <2>4, QueueAssumption DEF HasRoom
  <2>6. CleanupFits'
    BY <2>1, <2>3, <2>5 DEF QueueInv, TypeOK, ChanTypes, JanTypes, CleanupFits, Janitors
  <2> QED BY <2>2, <2>6 DEF QueueInv
<1> QED BY <1>1, <1>2

LEMMA QueueDispatchReceive ==
  ASSUME QueueInv, TypeOK', NEW s \in Subs, DispatchReceive(s)
  PROVE  QueueInv'
<1>1. CASE buf' = buf
  BY SMTT(30), <1>1, QueueUntouched
     DEF DispatchReceive, DispatchReturn, pubVars, janVars, chanVars, lifeVars, QueueInv,
         TypeOK, PubTypes, DispTypes
<1>2. CASE buf' # buf
  <2>1. /\ dch[s] \in Chans
        /\ buf[dch[s]] # <<>>
        /\ buf' = [buf EXCEPT ![dch[s]] = Tail(@)]
        /\ dch' = [dch EXCEPT ![s] = Nil]
        /\ UNCHANGED <<queue, open, jold, jnew, mu, closing, crashed, pch>>
    BY <1>2 DEF DispatchReceive, Receive, QueueInv, TypeOK, DispTypes, janVars, pubVars,
       lifeVars
  <2>2. CleanupHoldsMutex' /\ MapQueueOpen' /\ NewQueuePrivate' /\ NoDoubleClose'
    BY <2>1 DEF QueueInv, CleanupHoldsMutex, MapQueueOpen, NewQueuePrivate, NoDoubleClose,
       TypeOK, DispTypes
  <2>3. Len(Tail(buf[dch[s]])) = Len(buf[dch[s]]) - 1 /\ Len(buf[dch[s]]) \in Nat
    BY <2>1 DEF QueueInv, TypeOK, ChanTypes
  <2>4. mu \in Janitors => dch[s] # jnew /\ jold \in Chans /\ jnew \in Chans
    BY DEF QueueInv, NewQueuePrivate, TypeOK, JanTypes, Janitors
  <2>5. \A c \in Chans : Len(buf[c]) \in Nat /\ Len(buf'[c]) \in Nat /\ Len(buf'[c]) <= Len(buf[c])
    BY <2>1, <2>3 DEF QueueInv, TypeOK, ChanTypes
  <2>6. CleanupFits'
    <3>1. \A c \in Chans : Len(buf'[c]) <= MaxQueueSize
      BY <2>5, QueueAssumption DEF QueueInv, CleanupFits
    <3>2. mu \in Janitors => Len(buf'[jold]) + Len(buf'[jnew]) <= MaxQueueSize
      <4> SUFFICES ASSUME mu \in Janitors
                   PROVE  Len(buf'[jold]) + Len(buf'[jnew]) <= MaxQueueSize
        OBVIOUS
      <4>1. Len(buf[jold]) + Len(buf[jnew]) <= MaxQueueSize /\ MaxQueueSize \in Nat
        BY QueueAssumption DEF QueueInv, CleanupFits, Janitors
      <4>2. jold \in Chans /\ jnew \in Chans
        BY <2>4
      <4>3. /\ Len(buf[jold]) \in Nat /\ Len(buf'[jold]) \in Nat
            /\ Len(buf[jnew]) \in Nat /\ Len(buf'[jnew]) \in Nat
            /\ Len(buf'[jold]) <= Len(buf[jold]) /\ Len(buf'[jnew]) <= Len(buf[jnew])
        BY <2>5, <4>2
      <4>4. Len(buf'[jold]) + Len(buf'[jnew]) <= Len(buf[jold]) + Len(buf[jnew])
        BY <4>3, SumMonotone
      <4> QED BY <4>1, <4>3, <4>4, SumsShrink
    <3> QED BY <2>1, <3>1, <3>2 DEF CleanupFits, Janitors
  <2> QED BY <2>2, <2>6 DEF QueueInv
<1> QED BY <1>1, <1>2

LEMMA QueueReplaceBegin ==
  ASSUME QueueInv, TypeOK', NEW who \in Janitors, ReplaceBegin(who)
  PROVE  QueueInv'
<1>1. PICK c \in Fresh : /\ jnew' = c
                        /\ buf' = [buf EXCEPT ![c] = <<>>]
                        /\ open' = (open \ {queue}) \cup {c}
  BY DEF ReplaceBegin
<1>2. /\ c \in Chans /\ c # queue
      /\ \A p \in Pubs : pch[p] # c
      /\ \A s \in Subs : dch[s] # c
  BY DEF Fresh, Referenced
<1>3. /\ queue \in Chans /\ queue \in open
      /\ mu' = who /\ jold' = queue
      /\ crashed' = crashed
      /\ UNCHANGED <<queue, closing, pch, dch>>
  BY DEF ReplaceBegin, QueueInv, MapQueueOpen, TypeOK, ChanTypes, Free, Janitors, pubVars,
     dispVars, lifeVars
<1>4. closing # "subs"
  BY DEF ReplaceBegin, QueueInv, CleanupHoldsMutex, Free
<1>5. CleanupHoldsMutex' /\ MapQueueOpen' /\ NewQueuePrivate' /\ NoDoubleClose'
  BY <1>1, <1>2, <1>3, <1>4 DEF QueueInv, CleanupHoldsMutex, MapQueueOpen,
     NewQueuePrivate, NoDoubleClose
<1>6. /\ Len(buf'[c]) = 0
      /\ buf'[queue] = buf[queue]
      /\ Len(buf[queue]) \in Nat
      /\ \A d \in Chans : d # c => buf'[d] = buf[d]
  BY <1>1, <1>2, <1>3 DEF QueueInv, TypeOK, ChanTypes
<1>7. CleanupFits'
  <2>1. \A d \in Chans : Len(buf'[d]) <= MaxQueueSize
    BY <1>6, QueueAssumption DEF QueueInv, CleanupFits
  <2>2. Len(buf'[queue]) + Len(buf'[c]) <= MaxQueueSize
    BY <1>3, <1>6, QueueAssumption DEF QueueInv, CleanupFits
  <2> QED BY <1>1, <1>3, <2>1, <2>2 DEF CleanupFits
<1> QED BY <1>5, <1>7 DEF QueueInv

LEMMA QueueReplaceDrain ==
  ASSUME QueueInv, TypeOK', NEW who \in Janitors, NEW kept, NEW droppedAs,
         ReplaceDrain(who, kept, droppedAs)
  PROVE  QueueInv'
<1>1. /\ mu \in Janitors /\ jold \in Chans /\ jnew \in Chans /\ jold # jnew
      /\ buf[jold] # <<>>
      /\ UNCHANGED <<mu, jold, jnew, queue, open, closing, crashed, pch, dch>>
  BY DEF ReplaceDrain, QueueInv, CleanupHoldsMutex, TypeOK, JanTypes, Janitors, pubVars,
     dispVars, lifeVars
<1>2. CleanupHoldsMutex' /\ MapQueueOpen' /\ NewQueuePrivate' /\ NoDoubleClose'
  BY <1>1 DEF QueueInv, CleanupHoldsMutex, MapQueueOpen, NewQueuePrivate, NoDoubleClose
<1>3. /\ buf[jold] \in Seq(Msgs) /\ buf[jnew] \in Seq(Msgs)
      /\ Head(buf[jold]) \in Msgs
  BY <1>1 DEF QueueInv, TypeOK, ChanTypes
<1>4. /\ Len(Tail(buf[jold])) = Len(buf[jold]) - 1
      /\ Len(Append(buf[jnew], Head(buf[jold]))) = Len(buf[jnew]) + 1
      /\ Len(buf[jold]) \in Nat /\ Len(buf[jnew]) \in Nat
  BY <1>1, <1>3
<1>0. MaxQueueSize \in Nat
  BY QueueAssumption
<1>5. CASE buf' = [buf EXCEPT ![jold] = Tail(@), ![jnew] = Append(@, Head(buf[jold]))]
  <2>1. /\ Len(buf'[jold]) = Len(buf[jold]) - 1
        /\ Len(buf'[jnew]) = Len(buf[jnew]) + 1
        /\ \A d \in Chans : d \notin {jold, jnew} => buf'[d] = buf[d]
    BY <1>1, <1>4, <1>5 DEF QueueInv, TypeOK, ChanTypes
  <2>2. RoomInNewQueue
    BY <1>1, <1>5, <1>3, <1>4 DEF ReplaceDrain, Move, QueueInv, TypeOK, ChanTypes
  <2>3. CleanupFits'
    <3>1. Len(buf[jold]) + Len(buf[jnew]) <= MaxQueueSize
      BY <1>1 DEF QueueInv, CleanupFits, Janitors
    <3>2. Len(buf[jnew]) < MaxQueueSize
      BY <2>2 DEF RoomInNewQueue, HasRoom
    <3>3. \A d \in Chans : Len(buf'[d]) <= MaxQueueSize
      BY <1>4, <2>1, <3>1, <3>2, QueueAssumption DEF QueueInv, CleanupFits
    <3>4. Len(buf'[jold]) + Len(buf'[jnew]) <= MaxQueueSize
      <4>1. /\ Len(buf'[jold]) \in Nat /\ Len(buf'[jnew]) \in Nat
            /\ Len(buf'[jold]) + Len(buf'[jnew]) = Len(buf[jold]) + Len(buf[jnew])
        <5>1. Len(buf[jold]) # 0
          BY <1>1, <1>3
        <5> QED BY ZenonT(30), <1>4, <2>1, <5>1, MoveOne
      <4> QED BY <1>0, <1>4, <3>1, <4>1
    <3> QED BY <1>1, <3>3, <3>4 DEF CleanupFits
  <2> QED BY <1>2, <2>3 DEF QueueInv
<1>6. CASE buf' = [buf EXCEPT ![jold] = Tail(@)]
  <2>1. /\ Len(buf'[jold]) = Len(buf[jold]) - 1
        /\ \A d \in Chans : d # jold => buf'[d] = buf[d]
    BY <1>1, <1>4, <1>6 DEF QueueInv, TypeOK, ChanTypes
  <2>2. CleanupFits'
    <3>1. Len(buf[jold]) + Len(buf[jnew]) <= MaxQueueSize
      BY <1>1 DEF QueueInv, CleanupFits, Janitors
    <3>2. \A d \in Chans : Len(buf'[d]) <= MaxQueueSize
      BY <1>4, <2>1, <3>1, QueueAssumption DEF QueueInv, CleanupFits
    <3>3. Len(buf'[jold]) + Len(buf'[jnew]) <= MaxQueueSize
      <4>1. buf'[jnew] = buf[jnew]
        BY <1>1, <2>1
      <4>2. Len(buf[jold]) # 0
        BY <1>1, <1>3
      <4>3. Len(buf'[jold]) \in Nat /\ Len(buf'[jold]) <= Len(buf[jold])
        BY <1>4, <2>1, <4>2
      <4>4. Len(buf'[jold]) + Len(buf'[jnew]) <= Len(buf[jold]) + Len(buf[jnew])
        BY <1>4, <4>1, <4>3, SumMonotone
      <4> QED BY <1>0, <1>4, <3>1, <4>1, <4>3, <4>4, SumsShrink
    <3> QED BY <1>1, <3>2, <3>3 DEF CleanupFits
  <2> QED BY <1>2, <2>2 DEF QueueInv
<1> QED BY <1>5, <1>6 DEF ReplaceDrain, Move

LEMMA QueueReplaceEnd ==
  ASSUME QueueInv, TypeOK', NEW who \in Janitors, ReplaceEnd(who)
  PROVE  QueueInv'
<1>1. /\ mu \in Janitors /\ jnew \in open
      /\ queue' = jnew /\ mu' = Free /\ jold' = Nil /\ jnew' = Nil
      /\ UNCHANGED <<buf, open, closing, crashed, pch, dch>>
  BY DEF ReplaceEnd, InstallQueue, QueueInv, CleanupHoldsMutex, Janitors, pubVars,
     dispVars, lifeVars
<1>2. closing # "subs"
  BY <1>1 DEF QueueInv, CleanupHoldsMutex, Janitors
<1>3. CleanupHoldsMutex' /\ MapQueueOpen' /\ NewQueuePrivate' /\ NoDoubleClose'
  BY <1>1, <1>2 DEF QueueInv, CleanupHoldsMutex, MapQueueOpen, NewQueuePrivate,
     NoDoubleClose, Janitors, Free
<1>4. CleanupFits'
  BY <1>1 DEF QueueInv, CleanupFits, Free
<1> QED BY <1>3, <1>4 DEF QueueInv

LEMMA QueueClose ==
  ASSUME QueueInv, TypeOK', CloseQueues \/ CloseSubscribers
  PROVE  QueueInv'
<1>1. CASE CloseQueues
  <2>1. crashed' = crashed /\ jold = Nil /\ jnew = Nil
    BY <1>1 DEF CloseQueues, QueueInv, MapQueueOpen, CleanupHoldsMutex, Janitors, Free
  <2>2. CleanupHoldsMutex' /\ MapQueueOpen' /\ NewQueuePrivate' /\ NoDoubleClose'
    BY <1>1, <2>1 DEF CloseQueues, QueueInv, CleanupHoldsMutex, MapQueueOpen,
       NewQueuePrivate, NoDoubleClose, Janitors, pubVars, dispVars, janVars
  <2>3. CleanupFits'
    BY <1>1 DEF CloseQueues, QueueInv, CleanupFits
  <2> QED BY <2>2, <2>3 DEF QueueInv
<1>2. CASE CloseSubscribers
  <2>1. mu = "closer" /\ jold = Nil /\ jnew = Nil
    BY <1>2 DEF CloseSubscribers, QueueInv, CleanupHoldsMutex, Janitors
  <2>2. CleanupHoldsMutex' /\ MapQueueOpen' /\ NewQueuePrivate' /\ NoDoubleClose'
    BY <1>2, <2>1 DEF CloseSubscribers, QueueInv, CleanupHoldsMutex, MapQueueOpen,
       NewQueuePrivate, NoDoubleClose, Janitors, Free, pubVars, dispVars, janVars, chanVars
  <2>3. CleanupFits'
    BY <1>2 DEF CloseSubscribers, QueueInv, CleanupFits, Free, chanVars
  <2> QED BY <2>2, <2>3 DEF QueueInv
<1> QED BY <1>1, <1>2

LEMMA QueueStep == QueueInv /\ [Next]_vars => QueueInv'
<1> SUFFICES ASSUME QueueInv, [Next]_vars PROVE QueueInv'
  OBVIOUS
<1>1. TypeOK'
  BY TypeStep DEF QueueInv
<1>2. CASE UNCHANGED vars
  BY <1>1, <1>2, QueueUntouched DEF vars, pubVars, dispVars, janVars, lifeVars, QueueInv,
     TypeOK, PubTypes, DispTypes
<1>3. CASE Next
  BY <1>1, <1>3, QueueSimpleSteps, QueuePubLocked, QueueSubRegister, QueuePubSend,
     QueueDispatchReceive, QueueReplaceBegin, QueueReplaceDrain, QueueReplaceEnd, QueueClose
     DEF Next, PubStep, SubStep, DispatchStep, CleanerStep, MonitorStep, CloseStep,
         CleanBegin, CleanDrain, CleanEnd, EvictBegin, EvictDrain, EvictEnd, Janitors
<1> QED BY <1>2, <1>3

\* The blocking send of a clean-up, made with the mutex held, always finds room:
\* no publisher or dispatcher can put a message in its way.
THEOREM CleanupNeverBlocks == Spec => []CleanupFits
<1>1. QueueInv => CleanupFits
  BY DEF QueueInv
<1> QED BY <1>1, QueueInit, QueueStep, PTL DEF Spec

\* A clean-up and Close never close a channel twice.
THEOREM ClosedOnce == Spec => []NoDoubleClose
<1>1. QueueInv => NoDoubleClose
  BY DEF QueueInv
<1> QED BY <1>1, QueueInit, QueueStep, PTL DEF Spec
-----------------------------------------------------------------------------
(* Where the messages are: the inductive invariant *)

NoRepeat(q) == \A i, j \in 1..Len(q) : q[i] = q[j] => i = j

LEMMA EmptyRng == Rng(<<>>) = {} /\ NoRepeat(<<>>)
  BY DEF Rng, NoRepeat

LEMMA AppendRng ==
  ASSUME NEW S, NEW q \in Seq(S), NEW x \in S
  PROVE  /\ Rng(Append(q, x)) = Rng(q) \cup {x}
         /\ NoRepeat(q) /\ x \notin Rng(q) => NoRepeat(Append(q, x))
<1> DEFINE r == Append(q, x)
<1>1. /\ Len(q) \in Nat /\ Len(r) = Len(q) + 1 /\ r[Len(q) + 1] = x
      /\ \A i \in 1..Len(q) : r[i] = q[i]
  OBVIOUS
<1>2. \A i \in 1..Len(r) : i \in 1..Len(q) \/ i = Len(q) + 1
  BY <1>1
<1>3. \A i \in 1..Len(q) : i \in 1..Len(r)
  BY <1>1
<1>4. Len(q) + 1 \in 1..Len(r)
  BY <1>1
<1> HIDE DEF r
<1>5. Rng(r) = Rng(q) \cup {x}
  <2>1. Rng(r) \subseteq Rng(q) \cup {x}
    BY <1>1, <1>2 DEF Rng
  <2>2. Rng(q) \cup {x} \subseteq Rng(r)
    BY <1>1, <1>3, <1>4 DEF Rng
  <2> QED BY <2>1, <2>2
<1>6. ASSUME NoRepeat(q), x \notin Rng(q), NEW i \in 1..Len(r), NEW j \in 1..Len(r), r[i] = r[j]
      PROVE  i = j
  BY <1>1, <1>2, <1>6 DEF NoRepeat, Rng
<1>7. NoRepeat(q) /\ x \notin Rng(q) => NoRepeat(r)
  BY <1>6 DEF NoRepeat
<1> QED BY <1>5, <1>7 DEF r

LEMMA TailRng ==
  ASSUME NEW S, NEW q \in Seq(S), q # <<>>, NoRepeat(q)
  PROVE  /\ Head(q) \in S /\ Head(q) \in Rng(q) /\ Tail(q) \in Seq(S)
         /\ NoRepeat(Tail(q))
         /\ Rng(Tail(q)) = Rng(q) \ {Head(q)}
<1>1. /\ Len(q) \in Nat /\ Len(q) > 0 /\ Head(q) = q[1] /\ Head(q) \in S
      /\ Tail(q) \in Seq(S) /\ Len(Tail(q)) = Len(q) - 1
      /\ \A n \in 1..(Len(q) - 1) : Tail(q)[n] = q[n + 1]
  OBVIOUS
<1>2. NoRepeat(Tail(q))
  <2> SUFFICES ASSUME NEW m \in 1..(Len(q) - 1), NEW n \in 1..(Len(q) - 1),
                      q[m + 1] = q[n + 1]
               PROVE  m = n
    BY <1>1 DEF NoRepeat
  <2>1. m + 1 \in 1..Len(q) /\ n + 1 \in 1..Len(q)
    BY <1>1
  <2>2. m + 1 = n + 1
    BY <2>1 DEF NoRepeat
  <2> QED BY <2>2
<1>3. Rng(Tail(q)) \subseteq Rng(q) \ {Head(q)}
  <2> SUFFICES ASSUME NEW n \in 1..(Len(q) - 1) PROVE q[n + 1] \in Rng(q) /\ q[n + 1] # q[1]
    BY <1>1 DEF Rng
  <2>1. n + 1 \in 1..Len(q) /\ 1 \in 1..Len(q) /\ n + 1 # 1
    BY <1>1
  <2> QED BY <2>1 DEF Rng, NoRepeat
<1>4. Rng(q) \ {Head(q)} \subseteq Rng(Tail(q))
  <2> SUFFICES ASSUME NEW n \in 1..Len(q), q[n] # q[1] PROVE q[n] \in Rng(Tail(q))
    BY <1>1 DEF Rng
  <2>1. n - 1 \in 1..(Len(q) - 1) /\ (n - 1) + 1 = n
    BY <1>1
  <2>2. Tail(q)[n - 1] = q[n]
    BY <1>1, <2>1
  <2> QED BY <1>1, <2>1, <2>2 DEF Rng
<1>5. Head(q) \in Rng(q)
  BY <1>1 DEF Rng
<1> QED BY <1>1, <1>2, <1>3, <1>4, <1>5

\* Pub has a message, and it is not yet decided what becomes of it.
Sending(p) == ppc[p] \in {"lock", "check", "read", "send"}

\* No message is in two places of the channels.
BuffersApart ==
    \A c \in Chans :
        /\ NoRepeat(buf[c])
        /\ \A d \in Chans, m \in Msgs : m \in Rng(buf[c]) /\ m \in Rng(buf[d]) => c = d

\* A dispatcher with a message in its hands is the only one who has it.
InHand ==
    \A s \in Subs : dmsg[s] # Nil =>
        /\ dpc[s] = "send"
        /\ \A c \in Chans : dmsg[s] \notin Rng(buf[c])
        /\ \A t \in Subs : dmsg[t] = dmsg[s] => t = s

\* A message in a channel or in a dispatcher's hands is accepted and not dropped.
FatesFit ==
    /\ \A c \in Chans, m \in Msgs : m \in Rng(buf[c]) => fate[m] = "pending"
    /\ \A s \in Subs : dmsg[s] # Nil => fate[dmsg[s]] = "pending"

\* One call of Pub brings a message.
PubsFit ==
    \A p \in Pubs : Sending(p) =>
        /\ fate[pmsg[p]] = "sending"
        /\ \A q \in Pubs : Sending(q) /\ pmsg[q] = pmsg[p] => q = p

\* A message that a subscriber was sent will not be sent to it again: it is in no
\* channel, and whoever dispatches it has passed that subscriber.
LogsFit ==
    \A t \in Subs :
        /\ NoRepeat(log[t])
        /\ \A m \in Msgs : m \in Rng(log[t]) =>
            /\ fate[m] \notin {"new", "sending"}
            /\ \A c \in Chans : m \notin Rng(buf[c])
            /\ \A s \in Subs : dmsg[s] = m => t \notin Rng(dtargets[s])

\* A subscriber is registered once, and once in every dispatcher's copy of the list;
\* it comes with its dispatcher.
SubscribersFit ==
    /\ NoRepeat(subscribers)
    /\ \A s \in Rng(subscribers) : spc[s] # "off"
    /\ \A s \in Subs : dpc[s] # "off" => spc[s] # "off"
TargetsFit == \A s \in Subs : NoRepeat(dtargets[s])

\* Only the queue in the map and the new queue of a clean-up take messages.
OpenLive == open \subseteq {queue, jnew}

MessageInv ==
    BuffersApart /\ InHand /\ FatesFit /\ PubsFit /\ LogsFit /\ SubscribersFit /\ TargetsFit

LEMMA MessageInit == Init => MessageInv /\ OpenLive
<1> SUFFICES ASSUME Init PROVE MessageInv /\ OpenLive
  OBVIOUS
<1>1. BuffersApart /\ InHand /\ FatesFit /\ PubsFit
  BY EmptyRng DEF Init, BuffersApart, InHand, FatesFit, PubsFit, Sending
<1>2. LogsFit /\ SubscribersFit /\ TargetsFit
  BY EmptyRng DEF Init, LogsFit, SubscribersFit, TargetsFit
<1>3. OpenLive
  BY DEF Init, OpenLive
<1> QED BY <1>1, <1>2, <1>3 DEF MessageInv

\* Steps that move no message: a channel is left alone or is a new one, a dispatcher
\* without a message copies the list of subscribers or forgets it.
LEMMA MessagesUntouched ==
  ASSUME TypeOK, MessageInv, SubscribersFit', UNCHANGED <<dmsg, fate, log>>,
         \A c \in Chans : buf'[c] = buf[c] \/ buf'[c] = <<>>,
         \A s \in Subs : dpc[s] = "send" => dpc'[s] = "send",
         \A s \in Subs : \/ dtargets'[s] = dtargets[s] \/ dtargets'[s] = <<>>
                         \/ (dtargets'[s] = subscribers /\ dmsg[s] = Nil),
         \A p \in Pubs : Sending(p)' => Sending(p) /\ pmsg'[p] = pmsg[p]
  PROVE  MessageInv'
<1>1. \A c \in Chans : NoRepeat(buf'[c]) /\ \A m : m \in Rng(buf'[c]) => m \in Rng(buf[c])
  BY EmptyRng DEF MessageInv, BuffersApart
<1>2. BuffersApart'
  BY <1>1 DEF MessageInv, BuffersApart
<1>3. InHand'
  BY <1>1 DEF MessageInv, InHand
<1>4. FatesFit'
  BY <1>1 DEF MessageInv, FatesFit
<1>5. PubsFit'
  BY DEF MessageInv, PubsFit
<1>6. LogsFit'
  <2>1. \A s \in Subs : dmsg[s] # Nil => \A t \in Rng(dtargets'[s]) : t \in Rng(dtargets[s])
    BY EmptyRng
  <2>2. \A m \in Msgs : m # Nil
    BY QueueAssumption
  <2> QED BY ZenonT(30), <1>1, <2>1, <2>2 DEF MessageInv, LogsFit
<1>7. TargetsFit'
  BY EmptyRng DEF MessageInv, TargetsFit, SubscribersFit
<1> QED BY <1>2, <1>3, <1>4, <1>5, <1>6, <1>7 DEF MessageInv

\* Subscribers that stay registered, or are all taken off.
LEMMA SubscribersKept ==
  ASSUME MessageInv, subscribers' = subscribers \/ subscribers' = <<>>,
         \A s \in Subs : spc[s] # "off" => spc'[s] # "off",
         \A s \in Subs : dpc'[s] # "off" => dpc[s] # "off",
         subscribers \in Seq(Subs)
  PROVE  SubscribersFit'
<1>1. \A s \in Rng(subscribers) : s \in Subs
  BY DEF Rng
<1> QED BY <1>1, EmptyRng DEF MessageInv, SubscribersFit

LEMMA MessagePubBegin ==
  ASSUME TypeOK, MessageInv, NEW p \in Pubs, NEW m \in Msgs, PubBegin(p, m)
  PROVE  MessageInv'
<1>1. /\ ppc[p] = "idle" /\ fate[m] = "new"
      /\ ppc' = [ppc EXCEPT ![p] = "lock"] /\ pmsg' = [pmsg EXCEPT ![p] = m]
      /\ fate' = [fate EXCEPT ![m] = "sending"]
      /\ UNCHANGED <<buf, dmsg, dpc, dtargets, log, subscribers, spc>>
  BY DEF PubBegin, chanVars, dispVars, sinkVars, subVars
<1>2. /\ fate'[m] = "sending" /\ \A n \in Msgs : n # m => fate'[n] = fate[n]
      /\ Sending(p)' /\ pmsg'[p] = m
      /\ \A q \in Pubs : q # p => (Sending(q)' <=> Sending(q)) /\ pmsg'[q] = pmsg[q]
  BY <1>1 DEF TypeOK, PubTypes, MsgTypes, Sending
<1>3. BuffersApart' /\ InHand' /\ TargetsFit' /\ SubscribersFit'
  BY <1>1 DEF MessageInv, BuffersApart, InHand, TargetsFit, SubscribersFit
<1>4. FatesFit'
  <2>1. \A s \in Subs : dmsg[s] # Nil => dmsg[s] \in Msgs
    BY DEF TypeOK, DispTypes
  <2> QED BY <1>1, <1>2, <2>1 DEF MessageInv, FatesFit
<1>5. PubsFit'
  <2>1. \A q \in Pubs : Sending(q) => pmsg[q] \in Msgs
    BY DEF TypeOK, PubTypes, Sending
  <2> QED BY <1>1, <1>2, <2>1 DEF MessageInv, PubsFit
<1>6. LogsFit'
  BY <1>1, <1>2 DEF MessageInv, LogsFit
<1> QED BY <1>3, <1>4, <1>5, <1>6 DEF MessageInv

LEMMA MessageRejected ==
  ASSUME TypeOK, MessageInv, NEW p \in Pubs, Sending(p), PubRejected(p),
         UNCHANGED <<dispVars, sinkVars, subVars>>
  PROVE  MessageInv'
<1> DEFINE m == pmsg[p]
<1>1. /\ m \in Msgs /\ fate[m] = "sending"
      /\ UNCHANGED <<buf, dmsg, dpc, dtargets, log, subscribers, spc>>
  BY DEF PubRejected, chanVars, dispVars, sinkVars, subVars, TypeOK, PubTypes, Sending,
     MessageInv, PubsFit
<1>2. /\ fate'[m] = "rejected" /\ \A n \in Msgs : n # m => fate'[n] = fate[n]
      /\ ~Sending(p)'
      /\ \A q \in Pubs : q # p => (Sending(q)' <=> Sending(q)) /\ pmsg'[q] = pmsg[q]
  BY <1>1 DEF PubRejected, PubReturn, TypeOK, PubTypes, MsgTypes, Sending
<1>3. BuffersApart' /\ InHand' /\ TargetsFit' /\ SubscribersFit'
  BY <1>1 DEF MessageInv, BuffersApart, InHand, TargetsFit, SubscribersFit
<1>4. FatesFit'
  <2>1. \A s \in Subs : dmsg[s] # Nil => dmsg[s] \in Msgs
    BY DEF TypeOK, DispTypes
  <2> QED BY <1>1, <1>2, <2>1 DEF MessageInv, FatesFit
<1>5. PubsFit'
  <2>1. \A q \in Pubs : Sending(q) => pmsg[q] \in Msgs
    BY DEF TypeOK, PubTypes, Sending
  <2> QED BY <1>1, <1>2, <2>1 DEF MessageInv, PubsFit
<1>6. LogsFit'
  BY <1>1, <1>2 DEF MessageInv, LogsFit
<1> QED BY <1>3, <1>4, <1>5, <1>6 DEF MessageInv

\* Pub puts its message into the channel it has read from the map.
Accepts(p) ==
    /\ Sending(p) /\ pmsg[p] \in Msgs /\ fate[pmsg[p]] = "sending"
    /\ pch[p] \in open /\ pch[p] \in Chans
    /\ buf' = [buf EXCEPT ![pch[p]] = Append(@, pmsg[p])]
    /\ fate' = [fate EXCEPT ![pmsg[p]] = "pending"]
    /\ ppc[p] = "send" /\ ppc' = [ppc EXCEPT ![p] = "count"]
    /\ UNCHANGED <<pmsg, pch, queue, open, jold, jnew, closing, count>>
    /\ UNCHANGED <<dmsg, dpc, dtargets, log, subscribers, spc>>

LEMMA PubSendCases ==
  ASSUME TypeOK, MessageInv, NEW p \in Pubs, PubSend(p)
  PROVE  PubRejected(p) \/ Accepts(p)
<1>1. Sending(p) /\ pmsg[p] \in Msgs /\ fate[pmsg[p]] = "sending"
  BY DEF PubSend, Sending, TypeOK, PubTypes, MessageInv, PubsFit
<1>2. pch[p] # Nil => pch[p] \in Chans
  BY DEF TypeOK, PubTypes
<1> QED BY <1>1, <1>2 DEF PubSend, Accepts, dispVars, sinkVars, subVars, janVars, lifeVars

LEMMA MessageAccepted ==
  ASSUME TypeOK, MessageInv, NEW p \in Pubs, Accepts(p)
  PROVE  MessageInv'
<1> DEFINE m == pmsg[p]
           b == pch[p]
<1>1. /\ m \in Msgs /\ b \in Chans /\ fate[m] = "sending" /\ Sending(p) /\ buf[b] \in Seq(Msgs)
      /\ m # Nil
      /\ UNCHANGED <<dmsg, dpc, dtargets, log, subscribers, spc>>
  BY QueueAssumption DEF Accepts, TypeOK, ChanTypes
<1>2. /\ m \notin Rng(buf[b]) /\ \A c \in Chans : m \notin Rng(buf[c])
      /\ \A s \in Subs : dmsg[s] # m
  BY <1>1 DEF MessageInv, FatesFit
<1>3. /\ NoRepeat(buf'[b]) /\ Rng(buf'[b]) = Rng(buf[b]) \cup {m}
      /\ \A c \in Chans : c # b => buf'[c] = buf[c]
  <2>1. buf'[b] = Append(buf[b], m) /\ \A c \in Chans : c # b => buf'[c] = buf[c]
    BY <1>1 DEF Accepts, TypeOK, ChanTypes
  <2>2. NoRepeat(buf[b])
    BY <1>1 DEF MessageInv, BuffersApart
  <2> QED BY <1>1, <1>2, <2>1, <2>2, AppendRng
<1>4. /\ fate'[m] = "pending" /\ \A n \in Msgs : n # m => fate'[n] = fate[n]
      /\ ~Sending(p)'
      /\ \A q \in Pubs : q # p => (Sending(q)' <=> Sending(q)) /\ pmsg'[q] = pmsg[q]
  BY <1>1 DEF Accepts, TypeOK, PubTypes, MsgTypes, Sending
<1> HIDE DEF m, b
<1>5. BuffersApart'
  BY <1>1, <1>2, <1>3 DEF MessageInv, BuffersApart
<1>6. InHand'
  BY <1>1, <1>2, <1>3 DEF MessageInv, InHand
<1>7. FatesFit'
  <2>1. \A s \in Subs : dmsg[s] # Nil => dmsg[s] \in Msgs
    BY DEF TypeOK, DispTypes
  <2> QED BY <1>1, <1>2, <1>3, <1>4, <2>1 DEF MessageInv, FatesFit
<1>8. PubsFit'
  <2>1. \A q \in Pubs : Sending(q) => pmsg[q] \in Msgs
    BY DEF TypeOK, PubTypes, Sending
  <2>2. \A q \in Pubs : Sending(q) /\ q # p => pmsg[q] # m
    BY <1>1 DEF MessageInv, PubsFit, m
  <2> QED BY <1>4, <2>1, <2>2 DEF MessageInv, PubsFit
<1>9. LogsFit'
  BY <1>1, <1>2, <1>3, <1>4 DEF MessageInv, LogsFit
<1>10. TargetsFit' /\ SubscribersFit'
  BY <1>1 DEF MessageInv, TargetsFit, SubscribersFit
<1> QED BY <1>5, <1>6, <1>7, <1>8, <1>9, <1>10 DEF MessageInv
\* A dispatcher takes a message out of its channel.
Takes(s) ==
    /\ dpc[s] = "recv" /\ dch[s] \in Chans /\ buf[dch[s]] # <<>>
    /\ buf' = [buf EXCEPT ![dch[s]] = Tail(@)]
    /\ UNCHANGED <<ppc, pmsg, log, subscribers, spc, queue, open, jold, jnew, closing, count>>
    /\ \/ /\ fate' = [fate EXCEPT ![Head(buf[dch[s]])] = "skipped"]
          /\ dpc' = [dpc EXCEPT ![s] = "loop"]
          /\ dtargets' = [dtargets EXCEPT ![s] = <<>>]
          /\ UNCHANGED dmsg
       \/ /\ dpc' = [dpc EXCEPT ![s] = "send"]
          /\ dmsg' = [dmsg EXCEPT ![s] = Head(buf[dch[s]])]
          /\ UNCHANGED <<fate, dtargets>>

LEMMA ReceiveCases ==
  ASSUME TypeOK, NEW s \in Subs, DispatchReceive(s)
  PROVE  \/ DispatchReturn(s) /\ UNCHANGED <<buf, fate>>
         \/ Takes(s)
  BY DEF DispatchReceive, Receive, Takes, TypeOK, DispTypes, pubVars, subVars, janVars,
     sinkVars, lifeVars

LEMMA MessageTaken ==
  ASSUME TypeOK, MessageInv, NEW s \in Subs, Takes(s)
  PROVE  MessageInv'
<1> DEFINE b == dch[s]
           m == Head(buf[b])
<1>1. /\ b \in Chans /\ buf[b] \in Seq(Msgs) /\ buf[b] # <<>> /\ NoRepeat(buf[b])
      /\ UNCHANGED <<ppc, pmsg, log, subscribers, spc>>
  BY DEF Takes, TypeOK, ChanTypes, MessageInv, BuffersApart
<1>2. /\ buf'[b] = Tail(buf[b]) /\ \A c \in Chans : c # b => buf'[c] = buf[c]
  BY <1>1 DEF Takes, TypeOK, ChanTypes
<1>3. m \in Msgs /\ m \in Rng(buf[b]) /\ NoRepeat(buf'[b]) /\ Rng(buf'[b]) = Rng(buf[b]) \ {m}
  BY <1>1, <1>2, TailRng
<1>4. /\ m # Nil /\ fate[m] = "pending" /\ dmsg[s] = Nil
      /\ \A c \in Chans : c # b => m \notin Rng(buf[c])
      /\ \A t \in Subs : dmsg[t] # m /\ m \notin Rng(log[t])
  <2>1. m # Nil /\ fate[m] = "pending" /\ dpc[s] = "recv"
    BY <1>1, <1>3, QueueAssumption DEF Takes, MessageInv, FatesFit
  <2>2. dmsg[s] = Nil
    BY <2>1 DEF MessageInv, InHand
  <2>3. \A c \in Chans : c # b => m \notin Rng(buf[c])
    BY <1>1, <1>3 DEF MessageInv, BuffersApart
  <2>4. \A t \in Subs : dmsg[t] # m /\ m \notin Rng(log[t])
    BY <1>1, <1>3, <2>1 DEF MessageInv, InHand, LogsFit
  <2> QED BY <2>1, <2>2, <2>3, <2>4
<1>5. /\ \A c \in Chans : NoRepeat(buf'[c]) /\ m \notin Rng(buf'[c])
      /\ \A c \in Chans, n \in Msgs : n \in Rng(buf'[c]) => n \in Rng(buf[c])
  BY <1>2, <1>3, <1>4 DEF MessageInv, BuffersApart
<1>6. /\ dpc[s] = "recv"
      /\ \/ /\ fate' = [fate EXCEPT ![m] = "skipped"]
            /\ dpc' = [dpc EXCEPT ![s] = "loop"]
            /\ dtargets' = [dtargets EXCEPT ![s] = <<>>]
            /\ UNCHANGED dmsg
         \/ /\ dpc' = [dpc EXCEPT ![s] = "send"]
            /\ dmsg' = [dmsg EXCEPT ![s] = m]
            /\ UNCHANGED <<fate, dtargets>>
  BY DEF Takes
<1> HIDE DEF m, b
<1>7. BuffersApart'
  BY <1>5 DEF MessageInv, BuffersApart
<1>8. \A t \in Subs : dmsg[t] # Nil => dmsg[t] \in Msgs
  BY DEF TypeOK, DispTypes
<1>9. PubsFit'
  <2>1. \A p \in Pubs : Sending(p) => pmsg[p] \in Msgs /\ pmsg[p] # m
    BY <1>4 DEF TypeOK, PubTypes, Sending, MessageInv, PubsFit
  <2>2. \A n \in Msgs : n # m => fate'[n] = fate[n]
    BY <1>6 DEF TypeOK, MsgTypes
  <2> QED BY <1>1, <2>1, <2>2 DEF MessageInv, PubsFit, Sending
<1>10. SubscribersFit'
  <2>1. \A t \in Subs : dpc'[t] # "off" => dpc[t] # "off"
    BY <1>6 DEF TypeOK, DispTypes
  <2> QED BY <1>1, <2>1 DEF MessageInv, SubscribersFit
<1>11. CASE /\ fate' = [fate EXCEPT ![m] = "skipped"]
            /\ dpc' = [dpc EXCEPT ![s] = "loop"]
            /\ dtargets' = [dtargets EXCEPT ![s] = <<>>]
            /\ UNCHANGED dmsg
  <2>1. /\ fate'[m] = "skipped" /\ \A n \in Msgs : n # m => fate'[n] = fate[n]
        /\ dtargets'[s] = <<>> /\ \A t \in Subs : t # s => dtargets'[t] = dtargets[t]
        /\ \A t \in Subs : t # s => dpc'[t] = dpc[t]
    BY <1>3, <1>11 DEF TypeOK, MsgTypes, DispTypes
  <2>2. InHand'
    <3> SUFFICES ASSUME NEW t \in Subs, dmsg[t] # Nil
                 PROVE  /\ dpc'[t] = "send"
                        /\ \A c \in Chans : dmsg[t] \notin Rng(buf'[c])
                        /\ \A u \in Subs : dmsg[u] = dmsg[t] => u = t
      BY <1>11 DEF InHand
    <3>1. t # s /\ dmsg[t] \in Msgs
      BY <1>4, <1>8
    <3> QED BY <1>5, <2>1, <3>1 DEF MessageInv, InHand
  <2>3. FatesFit'
    BY <1>4, <1>5, <1>8, <1>11, <2>1 DEF MessageInv, FatesFit
  <2>4. LogsFit'
    BY <1>1, <1>4, <1>5, <1>11, <2>1, EmptyRng DEF MessageInv, LogsFit
  <2>5. TargetsFit'
    BY <2>1, EmptyRng DEF MessageInv, TargetsFit
  <2> QED BY <1>7, <1>9, <1>10, <2>2, <2>3, <2>4, <2>5 DEF MessageInv
<1>12. CASE /\ dpc' = [dpc EXCEPT ![s] = "send"]
            /\ dmsg' = [dmsg EXCEPT ![s] = m]
            /\ UNCHANGED <<fate, dtargets>>
  <2>1. /\ dmsg'[s] = m /\ \A t \in Subs : t # s => dmsg'[t] = dmsg[t]
        /\ dpc'[s] = "send" /\ \A t \in Subs : t # s => dpc'[t] = dpc[t]
    BY <1>12 DEF TypeOK, DispTypes
  <2>2. InHand'
    <3> SUFFICES ASSUME NEW t \in Subs, dmsg'[t] # Nil
                 PROVE  /\ dpc'[t] = "send"
                        /\ \A c \in Chans : dmsg'[t] \notin Rng(buf'[c])
                        /\ \A u \in Subs : dmsg'[u] = dmsg'[t] => u = t
      BY DEF InHand
    <3>1. CASE t = s
      BY <1>4, <1>5, <2>1, <3>1
    <3>2. CASE t # s
      <4>1. dmsg[t] \in Msgs /\ dmsg[t] # Nil /\ dmsg[t] # m
        BY <1>4, <1>8, <2>1, <3>2
      <4> QED BY <1>5, <2>1, <3>2, <4>1 DEF MessageInv, InHand
    <3> QED BY <3>1, <3>2
  <2>3. FatesFit'
    BY <1>4, <1>5, <1>12, <2>1 DEF MessageInv, FatesFit
  <2>4. LogsFit'
    <3> SUFFICES ASSUME NEW t \in Subs, NEW n \in Msgs, n \in Rng(log[t])
                 PROVE  /\ fate[n] \notin {"new", "sending"}
                        /\ \A c \in Chans : n \notin Rng(buf'[c])
                        /\ \A u \in Subs : dmsg'[u] = n => t \notin Rng(dtargets[u])
      BY <1>1, <1>12 DEF MessageInv, LogsFit
    <3>1. n # m
      BY <1>4
    <3> QED BY <1>5, <2>1, <3>1 DEF MessageInv, LogsFit
  <2>5. TargetsFit'
    BY <1>12 DEF MessageInv, TargetsFit
  <2> QED BY <1>7, <1>9, <1>10, <2>2, <2>3, <2>4, <2>5 DEF MessageInv
<1> QED BY <1>6, <1>11, <1>12

LEMMA MessageDispatchSend ==
  ASSUME TypeOK, MessageInv, NEW s \in Subs, DispatchSend(s)
  PROVE  MessageInv'
<1>1. PICK t \in Subs, m \in Msgs : t = Head(dtargets[s]) /\ m = dmsg[s]
  BY DEF DispatchSend, TypeOK, DispTypes
<1>2. /\ m # Nil /\ t \in Rng(dtargets[s])
      /\ NoRepeat(Tail(dtargets[s])) /\ Rng(Tail(dtargets[s])) = Rng(dtargets[s]) \ {t}
      /\ fate[m] = "pending" /\ \A c \in Chans : m \notin Rng(buf[c])
      /\ \A u \in Subs : dmsg[u] = m => u = s
  <2>1. dtargets[s] \in Seq(Subs) /\ dtargets[s] # <<>> /\ NoRepeat(dtargets[s])
    BY DEF DispatchSend, TypeOK, DispTypes, MessageInv, TargetsFit
  <2>2. t \in Rng(dtargets[s]) /\ NoRepeat(Tail(dtargets[s]))
        /\ Rng(Tail(dtargets[s])) = Rng(dtargets[s]) \ {t}
    BY <1>1, <2>1, TailRng
  <2>3. m # Nil
    BY QueueAssumption
  <2> QED BY <1>1, <2>2, <2>3 DEF MessageInv, InHand, FatesFit
<1>3. UNCHANGED <<buf, fate, ppc, pmsg, dmsg, dpc, subscribers, spc>>
  BY DEF DispatchSend, chanVars, pubVars, subVars, msgVars
<1>4. \/ UNCHANGED <<log, dtargets>>
      \/ dtargets' = [dtargets EXCEPT ![s] = Tail(@)] /\ UNCHANGED log
      \/ /\ dtargets' = [dtargets EXCEPT ![s] = Tail(@)]
         /\ log' = [log EXCEPT ![t] = Append(@, m)]
  BY <1>1 DEF DispatchSend
<1>5. BuffersApart' /\ InHand' /\ FatesFit' /\ PubsFit' /\ SubscribersFit'
  BY <1>3 DEF MessageInv, BuffersApart, InHand, FatesFit, PubsFit, Sending, SubscribersFit
<1>6. /\ \A u \in Subs : Rng(dtargets'[u]) \subseteq Rng(dtargets[u])
      /\ TargetsFit'
  BY <1>2, <1>4 DEF TypeOK, DispTypes, MessageInv, TargetsFit
<1>7. CASE UNCHANGED log
  BY <1>3, <1>5, <1>6, <1>7 DEF MessageInv, LogsFit
<1>8. CASE /\ dtargets' = [dtargets EXCEPT ![s] = Tail(@)]
           /\ log' = [log EXCEPT ![t] = Append(@, m)]
  <2>1. t \notin Rng(dtargets'[s])
    BY <1>2, <1>8 DEF TypeOK, DispTypes
  <2>2. log[t] \in Seq(Msgs) /\ NoRepeat(log[t]) /\ m \notin Rng(log[t])
    BY <1>1, <1>2 DEF TypeOK, SinkTypes, MessageInv, LogsFit
  <2>3. log'[t] = Append(log[t], m) /\ \A u \in Subs : u # t => log'[u] = log[u]
    BY <1>8 DEF TypeOK, SinkTypes
  <2>4. NoRepeat(log'[t]) /\ Rng(log'[t]) = Rng(log[t]) \cup {m}
    BY <2>2, <2>3, AppendRng
  <2>5. LogsFit'
    <3> SUFFICES ASSUME NEW u \in Subs
                 PROVE  /\ NoRepeat(log'[u])
                        /\ \A n \in Msgs : n \in Rng(log'[u]) =>
                             /\ fate[n] \notin {"new", "sending"}
                             /\ \A c \in Chans : n \notin Rng(buf[c])
                             /\ \A w \in Subs : dmsg[w] = n => u \notin Rng(dtargets'[w])
      BY <1>3 DEF LogsFit
    <3>1. CASE u # t
      BY <1>6, <2>3, <3>1 DEF MessageInv, LogsFit
    <3>2. CASE u = t
      <4> SUFFICES ASSUME NEW n \in Msgs, n \in Rng(log[t]) \cup {m}
                   PROVE  /\ fate[n] \notin {"new", "sending"}
                          /\ \A c \in Chans : n \notin Rng(buf[c])
                          /\ \A w \in Subs : dmsg[w] = n => t \notin Rng(dtargets'[w])
        BY <2>4, <3>2
      <4>1. CASE n = m
        BY <1>2, <2>1, <4>1
      <4>2. CASE n \in Rng(log[t])
        BY <1>6, <4>2 DEF MessageInv, LogsFit
      <4> QED BY <4>1, <4>2
    <3> QED BY <3>1, <3>2
  <2> QED BY <1>5, <1>6, <2>5 DEF MessageInv
<1> QED BY <1>4, <1>7, <1>8

LEMMA MessageDispatchDone ==
  ASSUME TypeOK, MessageInv, NEW s \in Subs, DispatchDone(s)
  PROVE  MessageInv'
<1> DEFINE m == dmsg[s]
<1>1. /\ m \in Msgs /\ m # Nil
      /\ UNCHANGED <<buf, ppc, pmsg, dtargets, log, subscribers, spc>>
  BY QueueAssumption DEF DispatchDone, TypeOK, DispTypes, chanVars, pubVars, subVars, sinkVars
<1>2. /\ fate[m] = "pending" /\ (\A c \in Chans : m \notin Rng(buf[c]))
      /\ \A t \in Subs : dmsg[t] = m => t = s
  BY <1>1 DEF MessageInv, InHand, FatesFit
<1>3. /\ fate'[m] = "dispatched" /\ (\A n \in Msgs : n # m => fate'[n] = fate[n])
      /\ dmsg'[s] = Nil /\ (\A t \in Subs : t # s => dmsg'[t] = dmsg[t])
      /\ \A t \in Subs : t # s => dpc'[t] = dpc[t]
  BY <1>1 DEF DispatchDone, TypeOK, MsgTypes, DispTypes
<1>4. \A t \in Subs : dmsg[t] # Nil => dmsg[t] \in Msgs
  BY DEF TypeOK, DispTypes
<1> HIDE DEF m
<1>5. BuffersApart' /\ TargetsFit' /\ SubscribersFit'
  <2>1. \A t \in Subs : dpc'[t] # "off" => dpc[t] # "off"
    BY <1>3 DEF DispatchDone
  <2> QED BY <1>1, <2>1 DEF MessageInv, BuffersApart, TargetsFit, SubscribersFit
<1>6. InHand'
  BY <1>1, <1>3 DEF MessageInv, InHand
<1>7. FatesFit'
  BY <1>1, <1>2, <1>3, <1>4 DEF MessageInv, FatesFit
<1>8. PubsFit'
  <2>1. \A q \in Pubs : Sending(q) => pmsg[q] \in Msgs /\ pmsg[q] # m
    BY <1>2 DEF TypeOK, PubTypes, Sending, MessageInv, PubsFit
  <2> QED BY <1>1, <1>3, <2>1 DEF MessageInv, PubsFit, Sending
<1>9. LogsFit'
  <2>1. \A n \in Msgs : n # Nil
    BY QueueAssumption
  <2> QED BY <1>1, <1>3, <2>1 DEF MessageInv, LogsFit
<1> QED BY <1>5, <1>6, <1>7, <1>8, <1>9 DEF MessageInv

\* A clean-up takes a message out of the old queue, and moves it or drops it.
Drains(m, c) ==
    /\ mu \in Janitors /\ jold \in Chans /\ jnew \in Chans /\ jold # jnew
    /\ buf[jold] # <<>> /\ m = Head(buf[jold])
    /\ UNCHANGED <<ppc, pmsg, dmsg, dpc, dtargets, log, subscribers, spc, queue, open, jold,
                   jnew, closing>>
    /\ \/ /\ c = "moved"
          /\ buf' = [buf EXCEPT ![jold] = Tail(@), ![jnew] = Append(@, m)]
          /\ UNCHANGED <<fate, count>>
       \/ /\ c \in {"expired", "evicted"}
          /\ buf' = [buf EXCEPT ![jold] = Tail(@)]
          /\ fate' = [fate EXCEPT ![m] = c]
          /\ count' = count - 1

LEMMA DrainCases ==
  ASSUME QueueInv, NEW who \in Janitors, NEW kept, NEW droppedAs \in {"expired", "evicted"},
         ReplaceDrain(who, kept, droppedAs)
  PROVE  \E m \in Msgs, c \in {"moved", "expired", "evicted"} : Drains(m, c)
<1>1. /\ mu \in Janitors /\ jold \in Chans /\ jnew \in Chans /\ jold # jnew
      /\ buf[jold] # <<>> /\ Head(buf[jold]) \in Msgs
      /\ UNCHANGED <<ppc, pmsg, dmsg, dpc, dtargets, log, subscribers, spc, queue, open, jold,
                     jnew, closing>>
  BY DEF ReplaceDrain, QueueInv, CleanupHoldsMutex, TypeOK, JanTypes, ChanTypes, Janitors,
     pubVars, dispVars, subVars, sinkVars, lifeVars
<1>2. CASE kept
  <2>1. Drains(Head(buf[jold]), "moved")
    BY <1>1, <1>2 DEF ReplaceDrain, Move, Drains
  <2> QED BY <1>1, <2>1
<1>3. CASE ~kept
  <2>1. Drains(Head(buf[jold]), droppedAs)
    BY <1>1, <1>3 DEF ReplaceDrain, DiscountDropped, Drains
  <2> QED BY <1>1, <2>1
<1> QED BY <1>2, <1>3

LEMMA MessageDrained ==
  ASSUME TypeOK, MessageInv, NEW m \in Msgs, NEW c \in {"moved", "expired", "evicted"}, Drains(m, c)
  PROVE  MessageInv'
<1>1. /\ jold \in Chans /\ jnew \in Chans /\ jold # jnew /\ buf[jold] # <<>>
      /\ m = Head(buf[jold]) /\ buf[jold] \in Seq(Msgs) /\ buf[jnew] \in Seq(Msgs)
      /\ UNCHANGED <<ppc, pmsg, dmsg, dpc, dtargets, log, subscribers, spc>>
  BY DEF Drains, TypeOK, ChanTypes
<1>2. /\ m \in Rng(buf[jold]) /\ NoRepeat(Tail(buf[jold]))
      /\ Rng(Tail(buf[jold])) = Rng(buf[jold]) \ {m}
  BY <1>1, TailRng DEF MessageInv, BuffersApart
<1>3. /\ m # Nil /\ fate[m] = "pending"
      /\ \A d \in Chans : d # jold => m \notin Rng(buf[d])
      /\ \A t \in Subs : dmsg[t] # m /\ m \notin Rng(log[t])
  BY <1>1, <1>2, QueueAssumption DEF MessageInv, FatesFit, InHand, BuffersApart, LogsFit
<1>4. NoRepeat(Append(buf[jnew], m)) /\ Rng(Append(buf[jnew], m)) = Rng(buf[jnew]) \cup {m}
  <2>1. NoRepeat(buf[jnew]) /\ m \notin Rng(buf[jnew])
    BY <1>1, <1>3 DEF MessageInv, BuffersApart
  <2> QED BY <1>1, <2>1, AppendRng
<1>5. /\ buf'[jold] = Tail(buf[jold])
      /\ c = "moved" => buf'[jnew] = Append(buf[jnew], m)
      /\ c # "moved" => buf'[jnew] = buf[jnew]
      /\ \A d \in Chans : d \notin {jold, jnew} => buf'[d] = buf[d]
  BY <1>1 DEF Drains, TypeOK, ChanTypes
<1>6. /\ \A d \in Chans : NoRepeat(buf'[d])
      /\ \A d \in Chans, n \in Msgs : n # m /\ n \in Rng(buf'[d]) => n \in Rng(buf[d])
      /\ \A d \in Chans : m \in Rng(buf'[d]) => c = "moved" /\ d = jnew
  BY <1>1, <1>2, <1>3, <1>4, <1>5 DEF MessageInv, BuffersApart
<1>7. /\ \A n \in Msgs : n # m => fate'[n] = fate[n]
      /\ c = "moved" => fate'[m] = fate[m]
      /\ fate'[m] \notin {"new", "sending"}
  BY <1>3 DEF Drains, TypeOK, MsgTypes
<1>8. BuffersApart'
  BY <1>6 DEF MessageInv, BuffersApart
<1>9. \A t \in Subs : dmsg[t] # Nil => dmsg[t] \in Msgs /\ dmsg[t] # m
  BY <1>3 DEF TypeOK, DispTypes
<1>10. InHand'
  BY <1>1, <1>6, <1>9 DEF MessageInv, InHand
<1>11. FatesFit'
  BY <1>1, <1>3, <1>6, <1>7, <1>9 DEF MessageInv, FatesFit
<1>12. PubsFit'
  <2>1. \A q \in Pubs : Sending(q) => pmsg[q] \in Msgs /\ pmsg[q] # m
    BY <1>3 DEF TypeOK, PubTypes, Sending, MessageInv, PubsFit
  <2> QED BY <1>1, <1>7, <2>1 DEF MessageInv, PubsFit, Sending
<1>13. LogsFit'
  BY <1>1, <1>3, <1>6, <1>7 DEF MessageInv, LogsFit
<1>14. TargetsFit' /\ SubscribersFit'
  BY <1>1 DEF MessageInv, TargetsFit, SubscribersFit
<1> QED BY <1>8, <1>10, <1>11, <1>12, <1>13, <1>14 DEF MessageInv
\* EnsureQueue and the beginning of a clean-up only add a new, empty channel.
LEMMA NewQueueEmpty ==
  ASSUME TypeOK, EnsureQueue \/ \E who : ReplaceBegin(who)
  PROVE  \A c \in Chans : buf'[c] = buf[c] \/ buf'[c] = <<>>
<1>1. CASE UNCHANGED buf
  BY <1>1
<1>2. CASE \E c \in Fresh : buf' = [buf EXCEPT ![c] = <<>>]
  BY <1>2 DEF TypeOK, ChanTypes
<1> QED BY <1>1, <1>2 DEF EnsureQueue, ReplaceBegin, chanVars

LEMMA MessageSubRegister ==
  ASSUME TypeOK, MessageInv, NEW s \in Subs, SubRegister(s)
  PROVE  MessageInv'
<1>1. /\ spc[s] = "off" /\ subscribers' = Append(subscribers, s)
      /\ spc' = [spc EXCEPT ![s] = "loop"]
      /\ dpc' = [dpc EXCEPT ![s] = "loop"]
      /\ UNCHANGED <<dmsg, fate, log, dtargets, ppc, pmsg>>
  BY DEF SubRegister, msgVars, pubVars
<1>2. subscribers \in Seq(Subs) /\ s \notin Rng(subscribers)
  BY <1>1 DEF TypeOK, SinkTypes, MessageInv, SubscribersFit
<1>3. SubscribersFit'
  <2>1. NoRepeat(subscribers') /\ Rng(subscribers') = Rng(subscribers) \cup {s}
    BY <1>1, <1>2, AppendRng DEF MessageInv, SubscribersFit
  <2>2. \A t \in Rng(subscribers) : t \in Subs
    BY <1>2 DEF Rng
  <2>3. \A t \in Subs : t # s => spc'[t] = spc[t] /\ dpc'[t] = dpc[t]
    BY <1>1 DEF TypeOK, SubTypes, DispTypes
  <2>4. spc'[s] # "off"
    BY <1>1 DEF TypeOK, SubTypes
  <2> QED BY <1>1, <2>1, <2>2, <2>3, <2>4 DEF MessageInv, SubscribersFit
<1>4. \A t \in Subs : dpc[t] = "send" => dpc'[t] = "send"
  BY <1>1 DEF TypeOK, SubTypes, DispTypes, MessageInv, SubscribersFit
<1> QED BY <1>1, <1>3, <1>4, NewQueueEmpty, MessagesUntouched DEF SubRegister, Sending
\* A step that moves no message: the channels that hold messages stay, others are
\* new and empty.
Quiet ==
    /\ UNCHANGED <<dmsg, fate, log>>
    /\ \A c \in Chans : buf'[c] = buf[c] \/ buf'[c] = <<>>
    /\ closing' \in {"no", "lock"} =>
         /\ closing \in {"no", "lock"}
         /\ \A c \in LiveChans : buf[c] = <<>> \/ (c \in LiveChans' /\ buf'[c] = buf[c])
    /\ \A s \in Subs : dpc[s] = "send" => dpc'[s] = "send"
    /\ \A s \in Subs : dpc'[s] # "off" => dpc[s] # "off"
    /\ \A s \in Subs : spc[s] # "off" => spc'[s] # "off"
    /\ \A s \in Subs : \/ dtargets'[s] = dtargets[s] \/ dtargets'[s] = <<>>
                       \/ (dtargets'[s] = subscribers /\ dmsg[s] = Nil)
    /\ subscribers' = subscribers \/ subscribers' = <<>>
    /\ \A p \in Pubs : Sending(p)' => Sending(p) /\ pmsg'[p] = pmsg[p]

LEMMA QuietMessages ==
  ASSUME TypeOK, MessageInv, Quiet
  PROVE  MessageInv'
<1>1. SubscribersFit'
  BY SubscribersKept DEF Quiet, TypeOK, SinkTypes
<1> QED BY <1>1, MessagesUntouched DEF Quiet

\* New channels are not the ones that hold messages.
LEMMA NewQueueApart ==
  ASSUME QueueInv, mu = Free, EnsureQueue, UNCHANGED janVars
  PROVE  \A c \in LiveChans : c \in LiveChans' /\ buf'[c] = buf[c]
<1>1. jold = Nil /\ jnew = Nil /\ jold' = Nil /\ jnew' = Nil
  BY DEF QueueInv, CleanupHoldsMutex, Janitors, Free, janVars
<1> QED BY <1>1 DEF EnsureQueue, LiveChans, chanVars

LEMMA QuietPubs ==
  ASSUME QueueInv, MessageInv, NEW p \in Pubs,
         \/ PubLocked(p) \/ (PubCheckDone(p) /\ ~PubRejected(p)) \/ PubReadMap(p)
         \/ PubReadMapRace(p) \/ PubCount(p)
  PROVE  Quiet
<1>1. UNCHANGED <<dmsg, fate, log, closing, dpc, spc, dtargets, subscribers, janVars>>
  BY DEF PubLocked, PubCheckDone, PubReadMap, PubReadMapRace, PubCount, dispVars, sinkVars,
     subVars, msgVars, lifeVars
<1>2. UNCHANGED <<buf, queue>> \/ (EnsureQueue /\ mu = Free)
  BY DEF PubLocked, PubCheckDone, PubReadMap, PubReadMapRace, PubCount, chanVars
<1>3. \A c \in LiveChans : c \in LiveChans' /\ buf'[c] = buf[c]
  <2>1. CASE UNCHANGED <<buf, queue>>
    BY <1>1, <2>1 DEF LiveChans, janVars
  <2> QED BY <1>1, <1>2, <2>1, NewQueueApart
<1>4. \A c \in Chans : buf'[c] = buf[c] \/ buf'[c] = <<>>
  BY <1>2, NewQueueEmpty DEF QueueInv
<1>5. \A q \in Pubs : Sending(q)' => Sending(q) /\ pmsg'[q] = pmsg[q]
  BY DEF PubLocked, PubCheckDone, PubReadMap, PubReadMapRace, PubCount, PubReturn, Sending,
     QueueInv, TypeOK, PubTypes, pubVars
<1> QED BY <1>1, <1>3, <1>4, <1>5 DEF Quiet

LEMMA QuietSubs ==
  ASSUME QueueInv, MessageInv, NEW s \in Subs,
         \/ SubExit(s) \/ SubReceive(s) \/ SubStartHandler(s) \/ DispatchSnapshot(s)
         \/ (DispatchReceive(s) /\ DispatchReturn(s) /\ UNCHANGED <<buf, fate>>)
         \/ \E m \in Msgs : HandlerDone(s, m)
  PROVE  Quiet
<1>1. UNCHANGED <<fate, log, closing, buf, queue, jold, jnew, subscribers, ppc, pmsg>>
  BY DEF SubExit, SubReceive, SubStartHandler, DispatchSnapshot, DispatchReceive, HandlerDone,
     chanVars, sinkVars, msgVars, lifeVars, janVars, pubVars
<1>2. UNCHANGED dmsg
  BY DEF SubExit, SubReceive, SubStartHandler, DispatchSnapshot, DispatchReturn, HandlerDone, dispVars
<1>3. \A t \in Subs : spc[t] # "off" => spc'[t] # "off"
  BY DEF SubExit, SubReceive, SubStartHandler, DispatchSnapshot, DispatchReceive, HandlerDone,
     subVars, QueueInv, TypeOK, SubTypes
<1>4. CASE UNCHANGED <<dpc, dtargets>>
  BY <1>1, <1>2, <1>3, <1>4 DEF Quiet, LiveChans, Sending
<1>5. CASE \/ DispatchSnapshot(s)
           \/ (DispatchReceive(s) /\ DispatchReturn(s) /\ UNCHANGED <<buf, fate>>)
  <2>1. /\ dpc[s] \in {"loop", "recv"} /\ \E q : dpc' = [dpc EXCEPT ![s] = q]
        /\ \/ dtargets' = [dtargets EXCEPT ![s] = <<>>]
           \/ dtargets' = [dtargets EXCEPT ![s] = subscribers]
    BY <1>5 DEF DispatchSnapshot, DispatchReceive, DispatchReturn
  <2>2. dmsg[s] = Nil
    BY <2>1 DEF MessageInv, InHand
  <2>3. \A t \in Subs : \/ dtargets'[t] = dtargets[t] \/ dtargets'[t] = <<>>
                        \/ (dtargets'[t] = subscribers /\ dmsg[t] = Nil)
    BY <2>1, <2>2 DEF QueueInv, TypeOK, DispTypes
  <2>4. \A t \in Subs : (dpc[t] = "send" => dpc'[t] = "send") /\ (dpc'[t] # "off" => dpc[t] # "off")
    BY <2>1 DEF QueueInv, TypeOK, DispTypes
  <2> QED BY <1>1, <1>2, <1>3, <2>3, <2>4 DEF Quiet, LiveChans, Sending
<1> QED BY <1>4, <1>5 DEF SubExit, SubReceive, SubStartHandler, HandlerDone, dispVars

LEMMA QuietRest ==
  ASSUME QueueInv, MessageInv,
         \/ \E who \in Janitors : ReplaceBegin(who) \/ ReplaceEnd(who)
         \/ CleanerExit \/ MonitorExit \/ CloseBegin \/ CloseQueues \/ CloseSubscribers
         \/ Tick \/ UNCHANGED vars
  PROVE  Quiet
<1>1. UNCHANGED <<dmsg, fate, log, dpc, spc, dtargets, ppc, pmsg>>
  BY DEF ReplaceBegin, ReplaceEnd, CleanerExit, MonitorExit, CloseBegin, CloseQueues,
     CloseSubscribers, Tick, vars, dispVars, sinkVars, subVars, msgVars, pubVars
<1>2. subscribers' = subscribers \/ subscribers' = <<>>
  BY DEF ReplaceBegin, ReplaceEnd, CleanerExit, MonitorExit, CloseBegin, CloseQueues,
     CloseSubscribers, Tick, vars, sinkVars
<1>3. ASSUME NEW who \in Janitors, ReplaceBegin(who)
      PROVE  \A c \in LiveChans : c \in LiveChans' /\ buf'[c] = buf[c]
  <2>1. jold = Nil /\ jnew = Nil /\ queue # Nil /\ UNCHANGED queue
    BY <1>3 DEF ReplaceBegin, QueueInv, CleanupHoldsMutex, Janitors, Free
  <2>2. PICK c \in Fresh : buf' = [buf EXCEPT ![c] = <<>>]
    BY <1>3 DEF ReplaceBegin
  <2>3. c # queue
    BY DEF Fresh, Referenced
  <2>4. buf'[queue] = buf[queue]
    BY <2>1, <2>2, <2>3 DEF QueueInv, TypeOK, ChanTypes
  <2> QED BY <2>1, <2>4 DEF LiveChans
<1>4. ASSUME NEW who \in Janitors, ReplaceEnd(who)
      PROVE  \A c \in LiveChans : buf[c] = <<>> \/ (c \in LiveChans' /\ buf'[c] = buf[c])
  <2>1. queue = jold /\ buf[jold] = <<>> /\ queue' = jnew /\ UNCHANGED buf
    BY <1>4 DEF ReplaceEnd, InstallQueue, Drained, QueueInv, CleanupHoldsMutex, Janitors
  <2> QED BY <2>1 DEF LiveChans
<1>5. ASSUME CleanerExit \/ MonitorExit \/ CloseBegin \/ CloseSubscribers \/ Tick \/ UNCHANGED vars
      PROVE  \A c \in LiveChans : c \in LiveChans' /\ buf'[c] = buf[c]
  BY <1>5 DEF CleanerExit, MonitorExit, CloseBegin, CloseSubscribers, Tick, vars, chanVars,
     janVars, LiveChans
<1>6. closing' \in {"no", "lock"} =>
         /\ closing \in {"no", "lock"}
         /\ \A c \in LiveChans : buf[c] = <<>> \/ (c \in LiveChans' /\ buf'[c] = buf[c])
  <2>1. closing' \in {"no", "lock"} => closing \in {"no", "lock"} /\ ~CloseQueues
    BY DEF ReplaceBegin, ReplaceEnd, CleanerExit, MonitorExit, CloseBegin, CloseQueues,
       CloseSubscribers, Tick, vars, lifeVars
  <2> QED BY <1>3, <1>4, <1>5, <2>1
<1>7. \A c \in Chans : buf'[c] = buf[c] \/ buf'[c] = <<>>
  <2>1. CASE \E who \in Janitors : ReplaceBegin(who)
    BY <2>1, NewQueueEmpty DEF QueueInv
  <2> QED BY <2>1 DEF ReplaceEnd, CleanerExit, MonitorExit, CloseBegin, CloseQueues,
          CloseSubscribers, Tick, vars, chanVars
<1> QED BY <1>1, <1>2, <1>6, <1>7 DEF Quiet, Sending

\* Every step moves no message, or is one of those that do.
LEMMA StepCases ==
  ASSUME QueueInv, MessageInv, [Next]_vars
  PROVE  \/ Quiet
         \/ \E p \in Pubs : (\E m \in Msgs : PubBegin(p, m)) \/ PubCheckDone(p) \/ PubSend(p)
         \/ \E s \in Subs : SubRegister(s) \/ Takes(s) \/ DispatchSend(s) \/ DispatchDone(s)
         \/ \E m \in Msgs, c \in {"moved", "expired", "evicted"} : Drains(m, c)
<1>1. CASE \E p \in Pubs : PubStep(p) \/ PubReadMapRace(p)
  BY <1>1, QuietPubs DEF PubStep
<1>2. CASE \E s \in Subs : SubRegister(s) \/ SubStep(s) \/ DispatchStep(s)
  BY <1>2, QuietSubs, ReceiveCases DEF SubStep, DispatchStep, QueueInv
<1>3. CASE \E s \in Subs, m \in Msgs : HandlerDone(s, m)
  BY <1>3, QuietSubs
<1>4. CASE CleanBegin \/ CleanerStep \/ EvictBegin \/ MonitorStep
  BY <1>4, QuietRest, DrainCases DEF CleanBegin, CleanerStep, CleanDrain, CleanEnd, EvictBegin,
     MonitorStep, EvictDrain, EvictEnd, Janitors
<1>5. CASE CloseBegin \/ CloseStep \/ Tick \/ UNCHANGED vars
  BY <1>5, QuietRest DEF CloseStep
<1> QED BY <1>1, <1>2, <1>3, <1>4, <1>5 DEF Next

LEMMA MessageStep ==
  ASSUME QueueInv, MessageInv, [Next]_vars
  PROVE  MessageInv'
<1>0. TypeOK
  BY DEF QueueInv
<1>1. ASSUME NEW p \in Pubs, PubCheckDone(p) PROVE MessageInv'
  <2>1. CASE PubRejected(p)
    BY <1>0, <1>1, <2>1, MessageRejected DEF PubCheckDone, Sending
  <2> QED BY <1>0, <1>1, <2>1, QuietPubs, QuietMessages
<1>2. ASSUME NEW p \in Pubs, PubSend(p) PROVE MessageInv'
  <2>1. CASE PubRejected(p)
    BY <1>0, <1>2, <2>1, MessageRejected DEF PubSend, Sending
  <2> QED BY <1>0, <1>2, <2>1, PubSendCases, MessageAccepted
<1> QED
  BY <1>0, <1>1, <1>2, StepCases, QuietMessages, MessagePubBegin, MessageSubRegister,
     MessageTaken, MessageDispatchSend, MessageDispatchDone, MessageDrained
LEMMA OpenStep ==
  ASSUME QueueInv, OpenLive, [Next]_vars
  PROVE  OpenLive'
<1>1. CASE UNCHANGED <<open, queue, jnew>>
  BY <1>1 DEF OpenLive
<1>2. ASSUME mu = Free, EnsureQueue, UNCHANGED jnew PROVE OpenLive'
  <2>1. jnew = Nil /\ \A c \in Chans : c # Nil
    BY <1>2, QueueAssumption DEF QueueInv, CleanupHoldsMutex, Janitors, Free
  <2>2. open \subseteq Chans
    BY DEF QueueInv, TypeOK, ChanTypes
  <2> QED BY <1>2, <2>1, <2>2 DEF EnsureQueue, OpenLive, chanVars
<1>3. ASSUME NEW who \in Janitors, ReplaceBegin(who) PROVE OpenLive'
  <2>1. jnew = Nil /\ (\A c \in Chans : c # Nil) /\ open \subseteq Chans
    BY <1>3, QueueAssumption
    DEF ReplaceBegin, QueueInv, CleanupHoldsMutex, Janitors, Free, TypeOK, ChanTypes
  <2> QED BY <1>3, <2>1 DEF ReplaceBegin, OpenLive
<1>4. ASSUME NEW who \in Janitors, ReplaceEnd(who) PROVE OpenLive'
  <2>1. queue \notin open /\ queue' = jnew /\ UNCHANGED open
    BY <1>4 DEF ReplaceEnd, InstallQueue, QueueInv, CleanupHoldsMutex, Janitors
  <2> QED BY <2>1 DEF OpenLive
<1>5. CASE CloseQueues
  <2>1. open' = open \ {queue} /\ queue' = Nil /\ jnew' = jnew
    BY <1>5 DEF CloseQueues, janVars
  <2> QED BY <2>1 DEF OpenLive
<1>6. CASE \E p \in Pubs : PubStep(p) \/ PubReadMapRace(p) \/ \E m \in Msgs : PubBegin(p, m)
  BY <1>1, <1>2, <1>6 DEF PubStep, PubLocked, PubCheckDone, PubRejected, PubReadMap, PubReadMapRace,
     PubSend, PubCount, PubBegin, chanVars, janVars
<1>7. CASE \E s \in Subs : SubRegister(s) \/ SubStep(s) \/ DispatchStep(s) \/ \E m \in Msgs : HandlerDone(s, m)
  BY <1>1, <1>2, <1>7 DEF SubStep, DispatchStep, SubRegister, SubExit, SubReceive, SubStartHandler,
     DispatchSnapshot, DispatchReceive, DispatchSend, DispatchDone, HandlerDone, chanVars, janVars
<1>8. CASE CleanBegin \/ CleanerStep \/ EvictBegin \/ MonitorStep
  BY <1>1, <1>3, <1>4, <1>8 DEF CleanBegin, CleanerStep, CleanDrain, CleanEnd, CleanerExit, EvictBegin,
     MonitorStep, EvictDrain, EvictEnd, MonitorExit, ReplaceDrain, Janitors, chanVars, janVars
<1>9. CASE CloseBegin \/ CloseStep \/ Tick \/ UNCHANGED vars
  BY <1>1, <1>5, <1>9 DEF CloseStep, CloseBegin, CloseSubscribers, Tick, vars, chanVars, janVars
<1> QED BY <1>6, <1>7, <1>8, <1>9 DEF Next

-----------------------------------------------------------------------------
(* No accepted message is lost *)

\* The messages of the queue, and of a clean-up's queues, stay with the client.
LEMMA LostStep ==
  ASSUME QueueInv, MessageInv, OpenLive, NoMessageLost, [Next]_vars
  PROVE  NoMessageLost'
<1>1. ASSUME Quiet PROVE NoMessageLost'
  <2> SUFFICES ASSUME closing' \in {"no", "lock"}, NEW m \in Msgs, fate'[m] = "pending"
               PROVE  Waiting(m)'
    BY DEF NoMessageLost
  <2>1. Waiting(m) /\ UNCHANGED dmsg
    BY <1>1 DEF Quiet, NoMessageLost
  <2>2. ASSUME NEW c \in LiveChans, m \in Rng(buf[c]) PROVE Waiting(m)'
    <3>1. buf[c] # <<>>
      BY <2>2, EmptyRng
    <3>2. c \in LiveChans' /\ buf'[c] = buf[c]
      BY <1>1, <3>1 DEF Quiet
    <3> QED BY <2>2, <3>2 DEF Waiting
  <2> QED BY <2>1, <2>2 DEF Waiting
<1>2. ASSUME UNCHANGED <<dmsg, buf, queue, jold, jnew>>,
             closing' \in {"no", "lock"} => closing \in {"no", "lock"},
             \A m \in Msgs : fate'[m] = "pending" => fate[m] = "pending"
      PROVE  NoMessageLost'
  BY <1>2 DEF NoMessageLost, Waiting, LiveChans
<1>3. ASSUME NEW p \in Pubs, NEW m \in Msgs, PubBegin(p, m) PROVE NoMessageLost'
  BY <1>2, <1>3 DEF PubBegin, chanVars, dispVars, janVars, lifeVars, QueueInv, TypeOK, MsgTypes
<1>4. ASSUME NEW p \in Pubs, PubCheckDone(p) \/ (PubSend(p) /\ PubRejected(p)) PROVE NoMessageLost'
  BY <1>1, <1>2, <1>4, QuietPubs
  DEF PubCheckDone, PubSend, PubRejected, chanVars, dispVars, janVars, lifeVars, QueueInv, TypeOK, MsgTypes
<1>5. ASSUME NEW p \in Pubs, Accepts(p) PROVE NoMessageLost'
  <2> DEFINE b == pch[p]
  <2>1. b \in LiveChans /\ UNCHANGED LiveChans /\ UNCHANGED <<dmsg, closing>>
    BY <1>5, QueueAssumption DEF Accepts, OpenLive, LiveChans
  <2>2. buf[b] \in Seq(Msgs) /\ b \in Chans /\ pmsg[p] \in Msgs
    BY <1>5 DEF Accepts, QueueInv, TypeOK, ChanTypes
  <2>3. buf'[b] = Append(buf[b], pmsg[p]) /\ \A c \in Chans : c # b => buf'[c] = buf[c]
    BY <1>5, <2>2 DEF Accepts, QueueInv, TypeOK, ChanTypes
  <2>4. Rng(buf'[b]) = Rng(buf[b]) \cup {pmsg[p]}
    BY <2>2, <2>3, AppendRng
  <2>5. \A m \in Msgs : fate'[m] = "pending" => fate[m] = "pending" \/ m = pmsg[p]
    BY <1>5 DEF Accepts, QueueInv, TypeOK, MsgTypes
  <2>6. LiveChans \subseteq Chans
    BY DEF LiveChans, QueueInv, TypeOK, ChanTypes, JanTypes
  <2> HIDE DEF b
  <2>7. \A m \in Msgs : (Waiting(m) \/ m = pmsg[p]) => Waiting(m)'
    BY <2>1, <2>3, <2>4, <2>6 DEF Waiting
  <2> QED BY <2>1, <2>5, <2>7 DEF NoMessageLost
<1>6. ASSUME NEW p \in Pubs, PubSend(p) PROVE NoMessageLost'
  BY <1>4, <1>5, <1>6, PubSendCases DEF QueueInv
<1>7. ASSUME NEW s \in Subs, SubRegister(s) PROVE NoMessageLost'
  <2>1. UNCHANGED <<dmsg, fate, closing, janVars>> /\ mu = Free /\ EnsureQueue
    BY <1>7 DEF SubRegister, msgVars
  <2>2. \A c \in LiveChans : c \in LiveChans' /\ buf'[c] = buf[c]
    BY <2>1, NewQueueApart
  <2> QED BY <2>1, <2>2 DEF NoMessageLost, Waiting
<1>8. ASSUME NEW s \in Subs, Takes(s) PROVE NoMessageLost'
  <2> DEFINE b == dch[s]
             h == Head(buf[b])
  <2>1. b \in Chans /\ dmsg[s] = Nil /\ UNCHANGED LiveChans /\ UNCHANGED closing
    BY <1>8 DEF Takes, LiveChans, MessageInv, InHand
  <2>2. buf[b] \in Seq(Msgs) /\ buf[b] # <<>> /\ NoRepeat(buf[b])
    BY <1>8, <2>1 DEF Takes, QueueInv, TypeOK, ChanTypes, MessageInv, BuffersApart
  <2>3. buf'[b] = Tail(buf[b]) /\ \A c \in Chans : c # b => buf'[c] = buf[c]
    BY <1>8, <2>1 DEF Takes, QueueInv, TypeOK, ChanTypes
  <2>4. h \in Msgs /\ Rng(buf'[b]) = Rng(buf[b]) \ {h}
    BY <2>2, <2>3, TailRng
  <2>5. LiveChans \subseteq Chans
    BY DEF LiveChans, QueueInv, TypeOK, ChanTypes, JanTypes
  <2>6. \A m \in Msgs : fate'[m] = "pending" => fate[m] = "pending" /\ (m = h => dmsg'[s] = m)
    BY <1>8, <2>4 DEF Takes, QueueInv, TypeOK, MsgTypes, DispTypes
  <2>7. \A t \in Subs : dmsg[t] # Nil => dmsg'[t] = dmsg[t]
    BY <1>8, <2>1 DEF Takes, QueueInv, TypeOK, DispTypes
  <2>8. \A m \in Msgs : m # Nil
    BY QueueAssumption
  <2> HIDE DEF b, h
  <2>9. \A m \in Msgs : fate'[m] = "pending" /\ Waiting(m) => Waiting(m)'
    BY <2>1, <2>3, <2>4, <2>5, <2>6, <2>7, <2>8 DEF Waiting
  <2> QED BY <2>1, <2>6, <2>9 DEF NoMessageLost
<1>9. ASSUME NEW s \in Subs, DispatchSend(s) PROVE NoMessageLost'
  BY <1>2, <1>9 DEF DispatchSend, chanVars, janVars, lifeVars, msgVars
<1>10. ASSUME NEW s \in Subs, DispatchDone(s) PROVE NoMessageLost'
  <2>1. /\ UNCHANGED <<buf, queue, jold, jnew, closing>>
        /\ \A t \in Subs : t # s => dmsg'[t] = dmsg[t]
        /\ \A m \in Msgs : fate'[m] = "pending" => fate[m] = "pending" /\ m # dmsg[s]
    BY <1>10 DEF DispatchDone, chanVars, janVars, lifeVars, QueueInv, TypeOK, MsgTypes, DispTypes
  <2> QED BY <2>1 DEF NoMessageLost, Waiting, LiveChans
<1>11. ASSUME NEW m \in Msgs, NEW c \in {"moved", "expired", "evicted"}, Drains(m, c)
       PROVE  NoMessageLost'
  <2>1. /\ jold \in Chans /\ jnew \in Chans /\ jold # jnew /\ buf[jold] # <<>>
        /\ m = Head(buf[jold]) /\ buf[jold] \in Seq(Msgs) /\ buf[jnew] \in Seq(Msgs)
        /\ UNCHANGED <<dmsg, closing>> /\ LiveChans' = LiveChans
    BY <1>11 DEF Drains, QueueInv, TypeOK, ChanTypes, LiveChans
  <2>2. jnew \in LiveChans /\ LiveChans \subseteq Chans
    BY <2>1, QueueAssumption DEF LiveChans, QueueInv, TypeOK, ChanTypes, JanTypes
  <2>3. Rng(Tail(buf[jold])) = Rng(buf[jold]) \ {m} /\ Rng(Append(buf[jnew], m)) = Rng(buf[jnew]) \cup {m}
    BY <2>1, TailRng, AppendRng DEF MessageInv, BuffersApart
  <2>4. /\ buf'[jold] = Tail(buf[jold])
        /\ c = "moved" => buf'[jnew] = Append(buf[jnew], m)
        /\ c # "moved" => buf'[jnew] = buf[jnew]
        /\ \A d \in Chans : d \notin {jold, jnew} => buf'[d] = buf[d]
    BY <1>11, <2>1 DEF Drains, QueueInv, TypeOK, ChanTypes
  <2>5. \A n \in Msgs : fate'[n] = "pending" => fate[n] = "pending" /\ (n = m => c = "moved")
    BY <1>11 DEF Drains, QueueInv, TypeOK, MsgTypes
  <2>6. \A n \in Msgs : fate'[n] = "pending" /\ Waiting(n) => Waiting(n)'
    <3>1. ASSUME NEW n \in Msgs, fate'[n] = "pending", NEW d \in LiveChans, n \in Rng(buf[d])
          PROVE  \E e \in LiveChans : n \in Rng(buf'[e])
      <4>1. CASE n = m
        BY <2>2, <2>3, <2>4, <2>5, <3>1, <4>1
      <4>2. CASE n # m
        BY <2>1, <2>2, <2>3, <2>4, <3>1, <4>2
      <4> QED BY <4>1, <4>2
    <3> QED BY <2>1, <3>1 DEF Waiting
  <2> QED BY <2>1, <2>5, <2>6 DEF NoMessageLost
<1> QED
  BY <1>1, <1>3, <1>4, <1>6, <1>7, <1>8, <1>9, <1>10, <1>11, StepCases

-----------------------------------------------------------------------------
(* The counter *)

Counting == {p \in Pubs : ppc[p] = "count"}
Accepted == {m \in Msgs : fate[m] \in {"pending", "dispatched", "skipped"}}

\* The publishers that have still to count are few, and so are the accepted messages.
CountInv == IsFiniteSet(Counting) /\ IsFiniteSet(Accepted) /\ CountAccurate

LEMMA CountInit == Init => CountInv
<1> SUFFICES ASSUME Init PROVE CountInv
  OBVIOUS
<1>1. Counting = {} /\ Accepted = {} /\ count = 0
  BY DEF Init, Counting, Accepted
<1>2. CountAccurate <=> count + Cardinality(Counting) = Cardinality(Accepted)
  BY DEF CountAccurate, Counting, Accepted
<1> QED BY <1>1, <1>2, FS_EmptySet DEF CountInv

LEMMA CountStep ==
  ASSUME QueueInv, MessageInv, CountInv, [Next]_vars
  PROVE  CountInv'
<1>0. /\ CountAccurate <=> count + Cardinality(Counting) = Cardinality(Accepted)
      /\ CountAccurate' <=> count' + Cardinality(Counting') = Cardinality(Accepted')
      /\ count \in Int /\ Cardinality(Counting) \in Nat /\ Cardinality(Accepted) \in Nat
  BY FS_CardinalityType DEF CountAccurate, Counting, Accepted, CountInv, QueueInv, TypeOK, ProcessTypes
<1>1. ASSUME UNCHANGED count, Counting' = Counting, Accepted' = Accepted PROVE CountInv'
  BY <1>0, <1>1 DEF CountInv
<1>2. ASSUME NEW p \in Pubs, PubCount(p) PROVE CountInv'
  <2>1. Counting' = Counting \ {p} /\ p \in Counting /\ Accepted' = Accepted /\ count' = count + 1
    BY <1>2 DEF PubCount, PubReturn, Counting, Accepted, msgVars, QueueInv, TypeOK, PubTypes
  <2>2. IsFiniteSet(Counting') /\ Cardinality(Counting') = Cardinality(Counting) - 1
    BY <2>1, FS_RemoveElement DEF CountInv
  <2> QED BY <1>0, <2>1, <2>2 DEF CountInv
<1>3. ASSUME NEW p \in Pubs, Accepts(p) PROVE CountInv'
  <2>1. /\ Counting' = Counting \cup {p} /\ p \notin Counting
        /\ Accepted' = Accepted \cup {pmsg[p]} /\ pmsg[p] \notin Accepted
        /\ count' = count
    BY <1>3 DEF Accepts, Counting, Accepted, QueueInv, TypeOK, PubTypes, MsgTypes
  <2>2. /\ IsFiniteSet(Counting') /\ Cardinality(Counting') = Cardinality(Counting) + 1
        /\ IsFiniteSet(Accepted') /\ Cardinality(Accepted') = Cardinality(Accepted) + 1
    BY <2>1, FS_AddElement DEF CountInv
  <2> QED BY <1>0, <2>1, <2>2 DEF CountInv
<1>4. ASSUME NEW p \in Pubs, PubRejected(p), Sending(p), UNCHANGED count PROVE CountInv'
  <2>1. Counting' = Counting
    BY <1>4 DEF PubRejected, PubReturn, Counting, Sending, QueueInv, TypeOK, PubTypes
  <2>2. fate[pmsg[p]] = "sending"
    BY <1>4 DEF MessageInv, PubsFit
  <2>3. Accepted' = Accepted
    BY <1>4, <2>2 DEF PubRejected, Accepted, QueueInv, TypeOK, MsgTypes
  <2> QED BY <1>1, <1>4, <2>1, <2>3
<1>5. ASSUME NEW m \in Msgs, NEW c \in {"moved", "expired", "evicted"}, Drains(m, c) PROVE CountInv'
  <2>1. Counting' = Counting
    BY <1>5 DEF Drains, Counting
  <2>2. CASE c = "moved"
    BY <1>1, <1>5, <2>1, <2>2 DEF Drains, Accepted
  <2>3. CASE c # "moved"
    <3>1. fate[m] = "pending"
      <4>1. jold \in Chans /\ buf[jold] \in Seq(Msgs) /\ buf[jold] # <<>> /\ m = Head(buf[jold])
        BY <1>5 DEF Drains, QueueInv, TypeOK, ChanTypes
      <4>2. m \in Rng(buf[jold])
        BY <4>1, TailRng DEF MessageInv, BuffersApart
      <4> QED BY <4>1, <4>2 DEF MessageInv, FatesFit
    <3>2. Accepted' = Accepted \ {m} /\ m \in Accepted /\ count' = count - 1
      BY <1>5, <2>3, <3>1 DEF Drains, Accepted, QueueInv, TypeOK, MsgTypes
    <3>3. IsFiniteSet(Accepted') /\ Cardinality(Accepted') = Cardinality(Accepted) - 1
      BY <3>2, FS_RemoveElement DEF CountInv
    <3> QED BY <1>0, <2>1, <3>2, <3>3 DEF CountInv
  <2> QED BY <2>2, <2>3
<1>6. ASSUME NEW s \in Subs, Takes(s) PROVE CountInv'
  <2>1. fate[Head(buf[dch[s]])] = "pending" /\ Head(buf[dch[s]]) \in Msgs
    <3>1. dch[s] \in Chans /\ buf[dch[s]] \in Seq(Msgs) /\ buf[dch[s]] # <<>>
      BY <1>6 DEF Takes, QueueInv, TypeOK, ChanTypes
    <3>2. Head(buf[dch[s]]) \in Rng(buf[dch[s]]) /\ Head(buf[dch[s]]) \in Msgs
      BY <3>1, TailRng DEF MessageInv, BuffersApart
    <3> QED BY <3>1, <3>2 DEF MessageInv, FatesFit
  <2>2. Accepted' = Accepted
    BY <1>6, <2>1 DEF Takes, Accepted, QueueInv, TypeOK, MsgTypes
  <2> QED BY <1>1, <1>6, <2>2 DEF Takes, Counting
<1>7. ASSUME NEW s \in Subs, DispatchDone(s) PROVE CountInv'
  <2>1. fate[dmsg[s]] = "pending" /\ dmsg[s] \in Msgs
    BY <1>7, QueueAssumption DEF DispatchDone, QueueInv, TypeOK, DispTypes, MessageInv, FatesFit
  <2>2. Accepted' = Accepted
    BY <1>7, <2>1 DEF DispatchDone, Accepted, QueueInv, TypeOK, MsgTypes
  <2> QED BY <1>1, <1>7, <2>2 DEF DispatchDone, Counting, pubVars
<1>8. ASSUME NEW p \in Pubs, NEW m \in Msgs, PubBegin(p, m) PROVE CountInv'
  <2>1. Accepted' = Accepted
    BY <1>8 DEF PubBegin, Accepted, QueueInv, TypeOK, MsgTypes
  <2>2. Counting' = Counting
    BY <1>8 DEF PubBegin, Counting, QueueInv, TypeOK, PubTypes
  <2> QED BY <1>1, <1>8, <2>1, <2>2 DEF PubBegin
<1>9. ASSUME NEW p \in Pubs, PubLocked(p) \/ (PubCheckDone(p) /\ ~PubRejected(p)) \/ PubReadMap(p) \/ PubReadMapRace(p)
      PROVE  CountInv'
  <2>1. UNCHANGED <<fate, count>>
    BY <1>9 DEF PubLocked, PubCheckDone, PubReadMap, PubReadMapRace, msgVars
  <2>2. Counting' = Counting
    BY <1>9 DEF PubLocked, PubCheckDone, PubReadMap, PubReadMapRace, Counting, pubVars, QueueInv, TypeOK, PubTypes
  <2> QED BY <1>1, <2>1, <2>2 DEF Accepted
<1>10. CASE \E p \in Pubs : PubStep(p) \/ PubReadMapRace(p) \/ \E m \in Msgs : PubBegin(p, m)
  <2>1. ASSUME NEW p \in Pubs, PubCheckDone(p), PubRejected(p) PROVE CountInv'
    BY <1>4, <2>1 DEF PubCheckDone, Sending
  <2>2. ASSUME NEW p \in Pubs, PubSend(p) PROVE CountInv'
    <3>1. Sending(p) /\ UNCHANGED count
      BY <2>2 DEF PubSend, Sending
    <3> QED BY <1>3, <1>4, <2>2, <3>1, PubSendCases DEF QueueInv
  <2> QED BY <1>2, <1>8, <1>9, <1>10, <2>1, <2>2 DEF PubStep
<1>11. ASSUME UNCHANGED <<fate, count, ppc>> PROVE CountInv'
  BY <1>1, <1>11 DEF Counting, Accepted
<1>12. CASE \E s \in Subs : SubRegister(s) \/ SubStep(s) \/ DispatchStep(s) \/ \E m \in Msgs : HandlerDone(s, m)
  <2>1. ASSUME NEW s \in Subs, DispatchReceive(s) PROVE CountInv'
    <3>1. UNCHANGED <<count, ppc>>
      BY <2>1 DEF DispatchReceive, pubVars
    <3> QED BY <1>6, <1>11, <2>1, <3>1, ReceiveCases DEF QueueInv
  <2> QED BY <1>7, <1>11, <1>12, <2>1 DEF SubStep, DispatchStep, SubRegister, SubExit, SubReceive,
          SubStartHandler, DispatchSnapshot, DispatchSend, HandlerDone, pubVars, msgVars
<1>13. CASE CleanBegin \/ CleanerStep \/ EvictBegin \/ MonitorStep
  BY <1>5, <1>11, <1>13, DrainCases DEF CleanBegin, CleanerStep, CleanDrain, CleanEnd, CleanerExit,
     EvictBegin, MonitorStep, EvictDrain, EvictEnd, MonitorExit, ReplaceBegin, ReplaceEnd, Janitors,
     pubVars, msgVars
<1>14. CASE CloseBegin \/ CloseStep \/ Tick \/ UNCHANGED vars
  BY <1>11, <1>14 DEF CloseStep, CloseBegin, CloseQueues, CloseSubscribers, Tick, vars, pubVars, msgVars
<1> QED BY <1>10, <1>12, <1>13, <1>14 DEF Next

-----------------------------------------------------------------------------
ClientInv == QueueInv /\ MessageInv /\ OpenLive /\ NoMessageLost /\ CountInv

LEMMA ClientInit == Init => ClientInv
<1>1. Init => NoMessageLost
  BY DEF Init, NoMessageLost
<1> QED BY <1>1, QueueInit, MessageInit, CountInit DEF ClientInv

LEMMA ClientStep == ClientInv /\ [Next]_vars => ClientInv'
  BY QueueStep, MessageStep, OpenStep, LostStep, CountStep DEF ClientInv

\* What Pub has accepted is waiting, was dispatched or was dropped for a reason, as
\* long as Close has not deleted the queues.
THEOREM AcceptedIsKept == Spec => []NoMessageLost
<1>1. ClientInv => NoMessageLost
  BY DEF ClientInv
<1> QED BY <1>1, ClientInit, ClientStep, PTL DEF Spec

\* No subscriber is sent a message twice.
THEOREM SentOnce == Spec => []AtMostOnce
<1>1. ClientInv => AtMostOnce
  BY DEF ClientInv, MessageInv, LogsFit, AtMostOnce, NoRepeat
<1> QED BY <1>1, ClientInit, ClientStep, PTL DEF Spec

\* The counter is the number of accepted messages that no clean-up dropped, up to the
\* publishers that have still to count theirs.
THEOREM CounterAgrees == Spec => []CountAccurate
<1>1. ClientInv => CountAccurate
  BY DEF ClientInv, CountInv
<1> QED BY <1>1, ClientInit, ClientStep, PTL DEF Spec
=============================================================================
