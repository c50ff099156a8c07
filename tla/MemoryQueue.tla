---------------------------- MODULE MemoryQueue ----------------------------
(***************************************************************************)
(* The in-memory message queue of pkg/event/memory.go, seen from one       *)
(* topic.  Topics share the mutex, the map, the done channel and the       *)
(* counter: another topic delays this one, and races with its map read.    *)
(*                                                                         *)
(* Goroutines: publishers (Pub), one Sub loop and one dispatchMessages per *)
(* subscriber, the handlers a Sub loop starts, cleanExpiredMessages,       *)
(* monitorMemoryUsage and the goroutine that calls Close.  A goroutine's   *)
(* step is cut wherever it blocks, takes or drops the mutex, or touches    *)
(* state another goroutine can touch without the mutex.                    *)
(***************************************************************************)
EXTENDS Integers, Sequences, FiniteSets

CONSTANTS
    Pubs,          \* goroutines that call Pub
    Subs,          \* calls of Sub; each brings its own dispatchMessages
    Msgs,          \* messages, each published at most once
    Chans,         \* identities (numbers) of the topic's queue channels
    Nil,           \* no channel, no message
    MaxQueueSize,  \* config.MaxQueueSize
    MaxInFlight,   \* config.MaxInFlight
    Requested,     \* the maxInFlight argument of each Sub call
    TTL,           \* config.MessageTTL, in clock ticks
    MaxTime        \* bound on the clock

ASSUME QueueAssumption ==
    /\ Chans \subseteq Nat
    /\ Nil \notin Chans \cup Msgs
    /\ MaxQueueSize \in Nat \ {0}
    /\ MaxInFlight \in Nat \ {0}
    /\ Requested \in [Subs -> Int]
    /\ TTL \in Nat
    /\ MaxTime \in Nat

VARIABLES
    now,           \* the clock
    mu,            \* holder of c.mu's write lock
    done,          \* c.done is closed
    closing,       \* progress of the Close call
    queue,         \* c.messageQueues[topic]
    buf,           \* contents of each queue channel
    open,          \* queue channels that are allocated and not closed
    subscribers,   \* c.subscribers[topic]
    sbuf,          \* contents of each subscriber channel
    sclosed,       \* subscriber channels that have been closed
    count,         \* c.stats.messageCount
    ppc, pmsg, pch,             \* Pub: control, message, channel read from the map
    dpc, dch, dtargets, dmsg,   \* dispatchMessages: control and locals
    spc, smsg, inflight,        \* Sub loop: control, message in hand, running handlers
    cleaners,      \* cleanExpiredMessages goroutines that have not returned
    monitorUp,     \* monitorMemoryUsage has not returned
    jold, jnew, jcount,         \* locals of the clean-up that holds the mutex
    fate,          \* history: what became of each message
    ts,            \* Message.Timestamp
    audience,      \* history: subscribers registered when the message was accepted
    log,           \* history: messages put into each subscriber channel, in order
    offered,       \* history: messages a dispatcher tried to send to a subscriber
    panicked,      \* history: publishers whose Pub panicked
    crashed        \* why the process died, or "no"

pubVars  == <<ppc, pmsg, pch>>
dispVars == <<dpc, dch, dtargets, dmsg>>
subVars  == <<spc, smsg, inflight>>
janVars  == <<jold, jnew, jcount>>
chanVars == <<queue, buf, open>>
sinkVars == <<subscribers, sbuf, sclosed, log, offered>>
msgVars  == <<fate, ts, audience>>
lifeVars == <<done, closing, cleaners, monitorUp>>
vars == <<now, mu, count, panicked, crashed, pubVars, dispVars, subVars, janVars,
          chanVars, sinkVars, msgVars, lifeVars>>

Free == "free"
Holders == {Free, "cleaner", "monitor", "closer"}
Fates == {"new", "sending", "rejected", "pending", "dispatched", "skipped",
          "expired", "evicted"}
Rng(q) == {q[i] : i \in 1..Len(q)}

\* Sub's limit on concurrent handlers, also the size of the subscriber channel.
InFlightLimit(s) ==
    IF Requested[s] <= 0 \/ Requested[s] > MaxInFlight THEN MaxInFlight ELSE Requested[s]

Age(m) == now - ts[m]
Expired(m) == Age(m) > TTL

\* A channel some goroutine or the map still refers to; the others are garbage,
\* so make(chan Message, ...) may return their identity again.  The lowest free
\* number names the new channel.
Referenced == {queue, jold, jnew} \cup {pch[p] : p \in Pubs} \cup {dch[s] : s \in Subs}

Fresh == {c \in Chans \ Referenced : \A d \in Chans \ Referenced : c <= d}

ProcessTypes ==
    /\ now \in 0..MaxTime
    /\ mu \in Holders
    /\ count \in Int
    /\ panicked \in SUBSET Pubs
    /\ crashed \in {"no", "sendOnClosed", "closeOfClosed", "mapRace"}
PubTypes ==
    /\ ppc \in [Pubs -> {"idle", "lock", "check", "read", "send", "count"}]
    /\ pmsg \in [Pubs -> Msgs \cup {Nil}]
    /\ pch \in [Pubs -> Chans \cup {Nil}]
    /\ \A p \in Pubs : ppc[p] # "idle" => pmsg[p] # Nil
DispTypes ==
    /\ dpc \in [Subs -> {"off", "loop", "recv", "send", "returned"}]
    /\ dch \in [Subs -> Chans \cup {Nil}]
    /\ dtargets \in [Subs -> Seq(Subs)]
    /\ dmsg \in [Subs -> Msgs \cup {Nil}]
    /\ \A s \in Subs : (dpc[s] = "recv" => dch[s] # Nil) /\ (dpc[s] = "send" => dmsg[s] # Nil)
SubTypes ==
    /\ spc \in [Subs -> {"off", "loop", "token", "returned"}]
    /\ smsg \in [Subs -> Msgs \cup {Nil}]
    /\ inflight \in [Subs -> SUBSET Msgs]
    /\ \A s \in Subs : spc[s] = "token" => smsg[s] # Nil
JanTypes ==
    /\ jold \in Chans \cup {Nil}
    /\ jnew \in Chans \cup {Nil}
    /\ jcount \in Nat
    /\ mu \in {"cleaner", "monitor"} => jold # Nil /\ jnew # Nil
ChanTypes ==
    /\ queue \in Chans \cup {Nil}
    /\ buf \in [Chans -> Seq(Msgs)]
    /\ open \in SUBSET Chans
SinkTypes ==
    /\ subscribers \in Seq(Subs)
    /\ sbuf \in [Subs -> Seq(Msgs)]
    /\ sclosed \in SUBSET Subs
    /\ log \in [Subs -> Seq(Msgs)]
    /\ offered \in [Subs -> SUBSET Msgs]
MsgTypes ==
    /\ fate \in [Msgs -> Fates]
    /\ ts \in [Msgs -> 0..MaxTime]
    /\ audience \in [Msgs -> SUBSET Subs]
LifeTypes ==
    /\ done \in BOOLEAN
    /\ closing \in {"no", "lock", "subs", "over"}
    /\ cleaners \in Nat
    /\ monitorUp \in BOOLEAN
\* The state is well typed.
TypeOK ==
    /\ ProcessTypes /\ PubTypes /\ DispTypes /\ SubTypes /\ JanTypes
    /\ ChanTypes /\ SinkTypes /\ MsgTypes /\ LifeTypes

\* NewMemoryClientWithConfig: empty maps, the monitor goroutine already running.
Init ==
    /\ now = 0
    /\ mu = Free
    /\ done = FALSE
    /\ closing = "no"
    /\ queue = Nil
    /\ buf = [c \in Chans |-> <<>>]
    /\ open = {}
    /\ subscribers = <<>>
    /\ sbuf = [s \in Subs |-> <<>>]
    /\ sclosed = {}
    /\ count = 0
    /\ ppc = [p \in Pubs |-> "idle"]
    /\ pmsg = [p \in Pubs |-> Nil]
    /\ pch = [p \in Pubs |-> Nil]
    /\ dpc = [s \in Subs |-> "off"]
    /\ dch = [s \in Subs |-> Nil]
    /\ dtargets = [s \in Subs |-> <<>>]
    /\ dmsg = [s \in Subs |-> Nil]
    /\ spc = [s \in Subs |-> "off"]
    /\ smsg = [s \in Subs |-> Nil]
    /\ inflight = [s \in Subs |-> {}]
    /\ cleaners = 0
    /\ monitorUp = TRUE
    /\ jold = Nil
    /\ jnew = Nil
    /\ jcount = 0
    /\ fate = [m \in Msgs |-> "new"]
    /\ ts = [m \in Msgs |-> 0]
    /\ audience = [m \in Msgs |-> {}]
    /\ log = [s \in Subs |-> <<>>]
    /\ offered = [s \in Subs |-> {}]
    /\ panicked = {}
    /\ crashed = "no"

Tick ==
    /\ now < MaxTime
    /\ now' = now + 1
    /\ UNCHANGED <<mu, count, panicked, crashed, pubVars, dispVars, subVars, janVars,
                   chanVars, sinkVars, msgVars, lifeVars>>

\* Room for one more message in a queue channel.
HasRoom(c) == Len(buf[c]) < MaxQueueSize

\* A receive from a queue channel.
PeekQueue(c) == buf' = [buf EXCEPT ![c] = @]
Receive(c) == buf' = [buf EXCEPT ![c] = Tail(@)]

-----------------------------------------------------------------------------
(* Pub *)

\* The map entry is created on first use, with its clean-up goroutine.
EnsureQueue ==
    \/ /\ queue # Nil
       /\ UNCHANGED <<chanVars, cleaners>>
    \/ /\ queue = Nil
       /\ \E c \in Fresh :
            /\ queue' = c
            /\ buf' = [buf EXCEPT ![c] = <<>>]
            /\ open' = open \cup {c}
       /\ cleaners' = cleaners + 1

PubBegin(p, m) ==
    /\ ppc[p] = "idle"
    /\ fate[m] = "new"
    /\ ppc' = [ppc EXCEPT ![p] = "lock"]
    /\ pmsg' = [pmsg EXCEPT ![p] = m]
    /\ fate' = [fate EXCEPT ![m] = "sending"]
    /\ ts' = [ts EXCEPT ![m] = now]
    /\ UNCHANGED <<now, mu, count, panicked, crashed, pch, dispVars, subVars, janVars,
                   chanVars, sinkVars, audience, lifeVars>>

PubLocked(p) ==
    /\ ppc[p] = "lock"
    /\ mu = Free
    /\ EnsureQueue
    /\ ppc' = [ppc EXCEPT ![p] = "check"]
    /\ UNCHANGED <<now, mu, count, panicked, crashed, pmsg, pch, dispVars, subVars,
                   janVars, sinkVars, msgVars, done, closing, monitorUp>>

\* Pub returns to its caller and lets go of the message and the channel.
PubReturn(p) ==
    /\ ppc' = [ppc EXCEPT ![p] = "idle"]
    /\ pmsg' = [pmsg EXCEPT ![p] = Nil]
    /\ pch' = [pch EXCEPT ![p] = Nil]

PubRejected(p) ==
    /\ PubReturn(p)
    /\ fate' = [fate EXCEPT ![pmsg[p]] = "rejected"]
    /\ UNCHANGED <<chanVars, audience>>

PubCheckDone(p) ==
    /\ ppc[p] = "check"
    /\ \/ /\ done
          /\ PubRejected(p)
       \/ /\ ~done
          /\ ppc' = [ppc EXCEPT ![p] = "read"]
          /\ UNCHANGED <<pmsg, pch, chanVars, fate, audience>>
    /\ UNCHANGED <<now, mu, count, panicked, crashed, dispVars, subVars, janVars,
                   sinkVars, ts, lifeVars>>

\* c.messageQueues[topic] is read outside the mutex: a data race with whoever
\* writes the map.
PubReadMap(p) ==
    /\ ppc[p] = "read"
    /\ ppc' = [ppc EXCEPT ![p] = "send"]
    /\ pch' = [pch EXCEPT ![p] = queue]
    /\ UNCHANGED <<now, mu, count, panicked, crashed, pmsg, dispVars, subVars, janVars,
                   chanVars, sinkVars, msgVars, lifeVars>>

\* A clean-up has taken everything out of the queue it replaces.
DrainedTooSoon == Len(buf[jold]) <= 1
Drained == buf[jold] = <<>>

\* Somebody may be writing the map: a clean-up at its end, Close, or, when this
\* topic leaves the mutex free, the first Pub or Sub of another topic.
MapBeingWritten ==
    \/ mu \in {Free, "closer"}
    \/ mu \in {"cleaner", "monitor"} /\ Drained

\* The other outcome of the race: the runtime stops the process.
PubReadMapRace(p) ==
    /\ ppc[p] = "read"
    /\ MapBeingWritten
    /\ crashed' = "mapRace"
    /\ UNCHANGED <<now, mu, count, panicked, pubVars, dispVars, subVars, janVars,
                   chanVars, sinkVars, msgVars, lifeVars>>

\* The send on the channel that was read: a nil or a full channel falls to the
\* default branch, a closed one panics in the caller of Pub.
PubSend(p) ==
    /\ ppc[p] = "send"
    /\ \/ /\ pch[p] = Nil
          /\ PubRejected(p)
          /\ UNCHANGED panicked
       \/ /\ pch[p] # Nil
          /\ pch[p] \notin open
          /\ PubRejected(p)
          /\ panicked' = panicked \cup {p}
       \/ /\ pch[p] # Nil
          /\ pch[p] \in open
          /\ ~HasRoom(pch[p])
          /\ PubRejected(p)
          /\ UNCHANGED panicked
       \/ /\ pch[p] # Nil
          /\ pch[p] \in open
          /\ HasRoom(pch[p])
          /\ buf' = [buf EXCEPT ![pch[p]] = Append(@, pmsg[p])]
          /\ fate' = [fate EXCEPT ![pmsg[p]] = "pending"]
          /\ audience' = [audience EXCEPT ![pmsg[p]] = Rng(subscribers)]
          /\ ppc' = [ppc EXCEPT ![p] = "count"]
          /\ UNCHANGED <<pmsg, pch, queue, open, panicked>>
    /\ UNCHANGED <<now, mu, count, crashed, dispVars, subVars, janVars, sinkVars, ts,
                   lifeVars>>

PubCount(p) ==
    /\ ppc[p] = "count"
    /\ count' = count + 1
    /\ PubReturn(p)
    /\ UNCHANGED <<now, mu, panicked, crashed, dispVars, subVars, janVars, chanVars,
                   sinkVars, msgVars, lifeVars>>

-----------------------------------------------------------------------------
(* Sub *)

SubRegister(s) ==
    /\ spc[s] = "off"
    /\ mu = Free
    /\ EnsureQueue
    /\ subscribers' = Append(subscribers, s)
    /\ spc' = [spc EXCEPT ![s] = "loop"]
    /\ dpc' = [dpc EXCEPT ![s] = "loop"]
    /\ UNCHANGED <<now, mu, count, panicked, crashed, pubVars, dch, dtargets, dmsg, smsg,
                   inflight, janVars, sbuf, sclosed, log, offered, msgVars, done, closing,
                   monitorUp>>

\* What makes the select of a Sub loop return.
SubClosed(s) == s \in sclosed /\ sbuf[s] = <<>>
SubStopped(s) == done \/ (s \in sclosed /\ sbuf[s] = <<>>)

SubExit(s) ==
    /\ spc[s] = "loop"
    /\ SubStopped(s)
    /\ spc' = [spc EXCEPT ![s] = "returned"]
    /\ UNCHANGED <<now, mu, count, panicked, crashed, pubVars, dispVars, smsg, inflight,
                   janVars, chanVars, sinkVars, msgVars, lifeVars>>

SubReceive(s) ==
    /\ spc[s] = "loop"
    /\ sbuf[s] # <<>>
    /\ sbuf' = [sbuf EXCEPT ![s] = Tail(@)]
    /\ \/ /\ Expired(Head(sbuf[s]))
          /\ UNCHANGED <<spc, smsg>>
       \/ /\ ~Expired(Head(sbuf[s]))
          /\ spc' = [spc EXCEPT ![s] = "token"]
          /\ smsg' = [smsg EXCEPT ![s] = Head(sbuf[s])]
    /\ UNCHANGED <<now, mu, count, panicked, crashed, pubVars, dispVars, inflight,
                   janVars, chanVars, subscribers, sclosed, log, offered, msgVars,
                   lifeVars>>

\* The worker token is taken, and the handler's goroutine started.
SubStartHandler(s) ==
    /\ spc[s] = "token"
    /\ Cardinality(inflight[s]) < InFlightLimit(s)
    /\ inflight' = [inflight EXCEPT ![s] = @ \cup {smsg[s]}]
    /\ spc' = [spc EXCEPT ![s] = "loop"]
    /\ smsg' = [smsg EXCEPT ![s] = Nil]
    /\ UNCHANGED <<now, mu, count, panicked, crashed, pubVars, dispVars, janVars,
                   chanVars, sinkVars, msgVars, lifeVars>>

\* The handler returns (an error is only logged) and its token goes back.
HandlerDone(s, m) ==
    /\ m \in inflight[s]
    /\ inflight' = [inflight EXCEPT ![s] = @ \ {m}]
    /\ UNCHANGED <<now, mu, count, panicked, crashed, pubVars, dispVars, spc, smsg,
                   janVars, chanVars, sinkVars, msgVars, lifeVars>>

-----------------------------------------------------------------------------
(* dispatchMessages *)

DispatchReturn(s) ==
    /\ dpc' = [dpc EXCEPT ![s] = "returned"]
    /\ dch' = [dch EXCEPT ![s] = Nil]
    /\ dtargets' = [dtargets EXCEPT ![s] = <<>>]
    /\ UNCHANGED dmsg

\* The queue and the list of subscribers are copied under the read lock.
DispatchSnapshot(s) ==
    /\ dpc[s] = "loop"
    /\ \/ /\ done
          /\ DispatchReturn(s)
       \/ /\ ~done
          /\ mu = Free
          /\ queue = Nil
          /\ DispatchReturn(s)
       \/ /\ ~done
          /\ mu = Free
          /\ queue # Nil
          /\ dpc' = [dpc EXCEPT ![s] = "recv"]
          /\ dch' = [dch EXCEPT ![s] = queue]
          /\ dtargets' = [dtargets EXCEPT ![s] = subscribers]
          /\ UNCHANGED dmsg
    /\ UNCHANGED <<now, mu, count, panicked, crashed, pubVars, subVars, janVars, chanVars,
                   sinkVars, msgVars, lifeVars>>

\* The blocking select on the copied queue and on done.
DispatchReceive(s) ==
    /\ dpc[s] = "recv"
    /\ \/ /\ done \/ (dch[s] \notin open /\ buf[dch[s]] = <<>>)
          /\ DispatchReturn(s)
          /\ UNCHANGED <<buf, fate>>
       \/ /\ buf[dch[s]] # <<>>
          /\ Receive(dch[s])
          /\ dch' = [dch EXCEPT ![s] = Nil]
          /\ LET m == Head(buf[dch[s]])
             IN \/ /\ Expired(m)
                   /\ fate' = [fate EXCEPT ![m] = "skipped"]
                   /\ dpc' = [dpc EXCEPT ![s] = "loop"]
                   /\ dtargets' = [dtargets EXCEPT ![s] = <<>>]
                   /\ UNCHANGED dmsg
                \/ /\ ~Expired(m)
                   /\ dpc' = [dpc EXCEPT ![s] = "send"]
                   /\ dmsg' = [dmsg EXCEPT ![s] = m]
                   /\ UNCHANGED <<fate, dtargets>>
    /\ UNCHANGED <<now, mu, count, panicked, crashed, pubVars, subVars, janVars, queue,
                   open, sinkVars, ts, audience, lifeVars>>

\* One iteration of the loop over the copied subscribers: a full channel drops
\* the message, a closed one panics and takes the process down.
DispatchSend(s) ==
    /\ dpc[s] = "send"
    /\ dtargets[s] # <<>>
    /\ LET t == Head(dtargets[s])
       IN \/ /\ t \in sclosed
             /\ crashed' = "sendOnClosed"
             /\ UNCHANGED <<sbuf, log, offered, dtargets>>
          \/ /\ t \notin sclosed
             /\ Len(sbuf[t]) < InFlightLimit(t)
             /\ sbuf' = [sbuf EXCEPT ![t] = Append(@, dmsg[s])]
             /\ log' = [log EXCEPT ![t] = Append(@, dmsg[s])]
             /\ offered' = [offered EXCEPT ![t] = @ \cup {dmsg[s]}]
             /\ dtargets' = [dtargets EXCEPT ![s] = Tail(@)]
             /\ UNCHANGED crashed
          \/ /\ t \notin sclosed
             /\ Len(sbuf[t]) >= InFlightLimit(t)
             /\ offered' = [offered EXCEPT ![t] = @ \cup {dmsg[s]}]
             /\ dtargets' = [dtargets EXCEPT ![s] = Tail(@)]
             /\ UNCHANGED <<sbuf, log, crashed>>
    /\ UNCHANGED <<now, mu, count, panicked, pubVars, dpc, dch, dmsg, subVars, janVars,
                   chanVars, subscribers, sclosed, msgVars, lifeVars>>

DispatchDone(s) ==
    /\ dpc[s] = "send"
    /\ dtargets[s] = <<>>
    /\ fate' = [fate EXCEPT ![dmsg[s]] = "dispatched"]
    /\ dmsg' = [dmsg EXCEPT ![s] = Nil]
    /\ dpc' = [dpc EXCEPT ![s] = "loop"]
    /\ UNCHANGED <<now, mu, count, panicked, crashed, pubVars, dch, dtargets, subVars,
                   janVars, chanVars, sinkVars, ts, audience, lifeVars>>
-----------------------------------------------------------------------------
(* cleanExpiredMessages and monitorMemoryUsage/cleanupOldMessages *)

\* Both close the current queue and drain it into a new one, holding the mutex;
\* dispatchers and publishers that know the old channel do not need the mutex.
ReplaceBegin(who) ==
    /\ mu = Free
    /\ queue # Nil
    /\ mu' = who
    /\ jold' = queue
    /\ jcount' = 0
    /\ \E c \in Fresh :
         /\ jnew' = c
         /\ buf' = [buf EXCEPT ![c] = <<>>]
         /\ open' = (open \ {queue}) \cup {c}
    /\ crashed' = IF queue \in open THEN crashed ELSE "closeOfClosed"
    /\ UNCHANGED <<now, count, panicked, pubVars, dispVars, subVars, queue, sinkVars,
                   msgVars, lifeVars>>

\* The new queue has the size of the old one.
RoomInNewQueue == HasRoom(jnew)

\* A dropped message no longer counts.
KeepCounting == count' = count
DiscountDropped == count' = count - 1

\* c.messageQueues[topic] = newQueue
ForgetQueue == queue' = queue
InstallQueue == queue' = jnew

\* A message goes from the old queue into the new one.
MoveTwice(m) ==
    buf' = [buf EXCEPT ![jold] = Tail(@), ![jnew] = Append(Append(@, m), m)]
Move(m) == buf' = [buf EXCEPT ![jold] = Tail(@), ![jnew] = Append(@, m)]

\* One iteration of "for msg := range queue"; keeping blocks on a full new queue.
ReplaceDrain(who, kept, droppedAs) ==
    /\ mu = who
    /\ buf[jold] # <<>>
    /\ jcount' = jcount + 1
    /\ LET m == Head(buf[jold])
       IN \/ /\ kept
             /\ RoomInNewQueue
             /\ Move(m)
             /\ UNCHANGED <<fate, count>>
          \/ /\ ~kept
             /\ buf' = [buf EXCEPT ![jold] = Tail(@)]
             /\ fate' = [fate EXCEPT ![m] = droppedAs]
             /\ DiscountDropped
    /\ UNCHANGED <<now, mu, panicked, crashed, pubVars, dispVars, subVars, jold, jnew,
                   queue, open, sinkVars, ts, audience, lifeVars>>

ReplaceEnd(who) ==
    /\ mu = who
    /\ Drained
    /\ InstallQueue
    /\ mu' = Free
    /\ jold' = Nil
    /\ jnew' = Nil
    /\ jcount' = 0
    /\ UNCHANGED <<now, count, panicked, crashed, pubVars, dispVars, subVars, buf, open,
                   sinkVars, msgVars, lifeVars>>

CleanBegin == cleaners > 0 /\ ReplaceBegin("cleaner")
CleanDrain == ReplaceDrain("cleaner", Age(Head(buf[jold])) < TTL, "expired")

\* The new queue is installed and the mutex dropped.
CleanEndKeepsMutex ==
    /\ mu = "cleaner"
    /\ Drained
    /\ InstallQueue
    /\ UNCHANGED <<now, mu, count, panicked, crashed, pubVars, dispVars, subVars, janVars,
                   buf, open, sinkVars, msgVars, lifeVars>>
CleanEnd == ReplaceEnd("cleaner")

\* A clean-up goroutine that waits for its ticker, and not in a clean-up.
AnyCleaner == cleaners >= 0
IdleCleaner == cleaners > IF mu = "cleaner" THEN 1 ELSE 0

CleanerExit ==
    /\ done
    /\ IdleCleaner
    /\ cleaners' = cleaners - 1
    /\ UNCHANGED <<now, mu, count, panicked, crashed, pubVars, dispVars, subVars, janVars,
                   chanVars, sinkVars, msgVars, done, closing, monitorUp>>

\* Memory is over the limit, and the queue is longer than half its capacity.
EvictBegin ==
    /\ monitorUp
    /\ queue # Nil
    /\ Len(buf[queue]) > MaxQueueSize \div 2
    /\ ReplaceBegin("monitor")

\* "count > len(queue)/2": len(queue) is what is left after this message.
EvictKeeps == jcount > (Len(buf[jold]) - 1) \div 2

EvictDrain == ReplaceDrain("monitor", EvictKeeps, "evicted")
EvictEnd == ReplaceEnd("monitor")

MonitorExit ==
    /\ monitorUp
    /\ done
    /\ mu # "monitor"
    /\ monitorUp' = FALSE
    /\ UNCHANGED <<now, mu, count, panicked, crashed, pubVars, dispVars, subVars, janVars,
                   chanVars, sinkVars, msgVars, done, closing, cleaners>>

-----------------------------------------------------------------------------
(* Close *)

CloseBegin ==
    /\ closing = "no"
    /\ done' = TRUE
    /\ closing' = "lock"
    /\ UNCHANGED <<now, mu, count, panicked, crashed, pubVars, dispVars, subVars, janVars,
                   chanVars, sinkVars, msgVars, cleaners, monitorUp>>

CloseQueues ==
    /\ closing = "lock"
    /\ mu = Free
    /\ mu' = "closer"
    /\ closing' = "subs"
    /\ open' = open \ {queue}
    /\ crashed' = IF queue \in open \cup {Nil} THEN crashed ELSE "closeOfClosed"
    /\ queue' = Nil
    /\ UNCHANGED <<now, count, panicked, pubVars, dispVars, subVars, janVars, buf,
                   sinkVars, msgVars, done, cleaners, monitorUp>>

CloseSubscribers ==
    /\ closing = "subs"
    /\ closing' = "over"
    /\ sclosed' = sclosed \cup Rng(subscribers)
    /\ subscribers' = <<>>
    /\ mu' = Free
    /\ UNCHANGED <<now, count, panicked, crashed, pubVars, dispVars, subVars, janVars,
                   chanVars, sbuf, log, offered, msgVars, done, cleaners, monitorUp>>

-----------------------------------------------------------------------------
PubStep(p) == PubLocked(p) \/ PubCheckDone(p) \/ PubReadMap(p) \/ PubSend(p) \/ PubCount(p)
SubStep(s) == SubExit(s) \/ SubReceive(s) \/ SubStartHandler(s)
DispatchStep(s) ==
    DispatchSnapshot(s) \/ DispatchReceive(s) \/ DispatchSend(s) \/ DispatchDone(s)
CleanerStep == CleanDrain \/ CleanEnd \/ CleanerExit
MonitorStep == EvictDrain \/ EvictEnd \/ MonitorExit
CloseStep == CloseQueues \/ CloseSubscribers

\* A process that has crashed takes no more steps.
Next ==
    /\ crashed = "no"
    /\ \/ Tick
       \/ \E p \in Pubs, m \in Msgs : PubBegin(p, m)
       \/ \E p \in Pubs : PubStep(p) \/ PubReadMapRace(p)
       \/ \E s \in Subs : SubRegister(s) \/ SubStep(s) \/ DispatchStep(s)
       \/ \E s \in Subs, m \in Msgs : HandlerDone(s, m)
       \/ CleanBegin \/ CleanerStep
       \/ EvictBegin \/ MonitorStep
       \/ CloseBegin \/ CloseStep

Spec == Init /\ [][Next]_vars

\* Goroutines that can run do run, handlers return, a locked mutex is released;
\* a goroutine waiting for the mutex gets it in the end (sync.RWMutex does not
\* starve a waiter).  Nobody has to call Pub, Sub or Close.
Running(A) == crashed = "no" /\ A
Fairness ==
    /\ \A p \in Pubs : SF_vars(Running(PubStep(p)))
    /\ \A s \in Subs : /\ WF_vars(Running(SubStep(s)))
                       /\ SF_vars(Running(DispatchStep(s)))
                       /\ \A m \in Msgs : WF_vars(Running(HandlerDone(s, m)))
    /\ SF_vars(Running(CleanerStep))
    /\ SF_vars(Running(MonitorStep))
    /\ SF_vars(Running(CloseStep))

LiveSpec == Spec /\ Fairness

-----------------------------------------------------------------------------
(* Properties *)

\* The places where a message that Pub accepted can wait.
LiveChans == {queue, jold, jnew} \ {Nil}
Waiting(m) ==
    \/ \E c \in LiveChans : m \in Rng(buf[c])
    \/ \E s \in Subs : dmsg[s] = m

\* Until Close deletes the map entry, a message that Pub accepted and that was
\* neither dispatched nor dropped for its age or by the memory monitor is in the
\* queue, in one of the two queues of a running clean-up, or in the hands of a
\* dispatcher: replacing the channel under the mutex while publishers and
\* dispatchers use the old one without it loses nothing.
NoMessageLost ==
    closing \in {"no", "lock"} =>
        \A m \in Msgs : fate[m] = "pending" => Waiting(m)

\* No subscriber is sent the same message twice, although every dispatcher of the
\* topic sends to every subscriber and clean-ups move messages between channels.
AtMostOnce ==
    \A s \in Subs : \A i, j \in 1..Len(log[s]) : log[s][i] = log[s][j] => i = j

\* What a clean-up still has to move always fits into the new queue, so
\* "newQueue <- msg" never blocks with the mutex held.
CleanupFits ==
    /\ \A c \in Chans : Len(buf[c]) <= MaxQueueSize
    /\ mu \in {"cleaner", "monitor"} => Len(buf[jold]) + Len(buf[jnew]) <= MaxQueueSize

\* The clean-ups and Close each close the channel in the map; none closes one that
\* another has already closed.
NoDoubleClose == crashed # "closeOfClosed"

\* stats.messageCount is the number of accepted messages that no clean-up dropped,
\* up to the publishers that have sent and not yet counted.
CountAccurate ==
    count + Cardinality({p \in Pubs : ppc[p] = "count"})
        = Cardinality({m \in Msgs : fate[m] \in {"pending", "dispatched", "skipped"}})

\* A call of Pub returns: the mutex is never held for ever.
PubReturns ==
    \A p \in Pubs : ppc[p] # "idle" ~> (ppc[p] = "idle" \/ crashed # "no")

\* After Close every Sub loop and every dispatcher returns, also those of a Sub
\* call that begins after Close.
CloseStopsSubscribers ==
    \A s \in Subs : (done /\ spc[s] # "off") ~>
                        ((spc[s] = "returned" /\ dpc[s] = "returned") \/ crashed # "no")

-----------------------------------------------------------------------------
(* What the comments of memory.go promise and the code does not keep *)

\* "dispatchMessages distribute messages to all subscribers": as long as the
\* client is open, a topic with a subscriber has a dispatcher.
SubscribedTopicIsServed ==
    (~done /\ subscribers # <<>>) => \E s \in Subs : dpc[s] \in {"loop", "recv", "send"}

\* "send the message to all subscribers": a message that has been dispatched was
\* offered to every subscriber that was registered when Pub accepted it.
DispatchedToAll ==
    \A m \in Msgs : fate[m] = "dispatched" => \A s \in audience[m] : m \in offered[s]

\* "if the queue is too large clean up half of the messages".
EvictsHalf ==
    (mu = "monitor" /\ Drained) => 2 * Len(buf[jnew]) <= jcount + 1

\* "Check if it has been closed": Pub never sends on a closed channel.
PubNeverPanics == panicked = {}

\* "close all message queues", "turn off all subscribers": Close does not bring
\* the process down.
CloseIsGraceful == crashed # "sendOnClosed"
=============================================================================
