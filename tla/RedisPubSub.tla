---------------------------- MODULE RedisPubSub ----------------------------
(***************************************************************************)
(* The message queue of pkg/event/redis.go: publishers, one Sub loop, and  *)
(* the pool of workers of its subscription.  Redis delivers a message to   *)
(* whoever is subscribed, or to nobody; go-redis puts it into a Go channel *)
(* that it closes when it cannot connect any more because the client is    *)
(* closed.  A worker gives a handler up when its 30 seconds are over, and  *)
(* the handler goes on.                                                    *)
(***************************************************************************)
EXTENDS Integers, Sequences, FiniteSets

CONSTANTS
    Posts,        \* calls of Pub
    Pool,         \* the workers of the subscription: concurrency of them
    MaxTries,     \* maxRetries
    InboxSize,    \* capacity of the channel go-redis delivers into
    Nobody

ASSUME PubSubAssumption ==
    /\ IsFiniteSet(Pool) /\ Pool # {}
    /\ MaxTries \in Nat \ {0}
    /\ InboxSize \in Nat \ {0}
    /\ Nobody \notin Posts

VARIABLES
    ppc, ptries,  \* control of each Pub, and its loop variable
    inbox,        \* ch: messages that were delivered
    spc, hand,    \* control of Sub, and the message it waits to pass on
    work,         \* contents of workChan
    workOpen,     \* workChan is not closed
    consumer,     \* control of each worker
    abandoned,    \* handlers that run although their worker has given them up
    signalled,    \* SIGINT or SIGTERM is in sigChan
    gone,         \* the client is closed
    delivered,    \* history: how often a message was put into the inbox
    called        \* history: how often a handler was called with a message

postVars == <<ppc, ptries>>
poolVars == <<work, workOpen, consumer, abandoned, called>>
pubsubVars == <<postVars, inbox, spc, hand, poolVars, signalled, gone, delivered>>

Concurrency == Cardinality(Pool)

PubSubTypes ==
    /\ ppc \in [Posts -> {"new", "send", "ok", "error"}]
    /\ ptries \in [Posts -> 0..(MaxTries - 1)]
    /\ inbox \in Seq(Posts) /\ Len(inbox) <= InboxSize
    /\ spc \in {"off", "top", "subscribe", "range", "full", "pause", "returned"}
    /\ hand \in Posts \cup {Nobody}
    /\ work \in Seq(Posts) /\ Len(work) <= Concurrency
    /\ workOpen \in BOOLEAN
    /\ consumer \in [Pool -> {"none", "range", "wait", "ended"}]
    /\ abandoned \in Nat
    /\ signalled \in BOOLEAN
    /\ gone \in BOOLEAN
    /\ delivered \in [Posts -> Nat]
    /\ called \in [Posts -> Nat]

PubSubInit ==
    /\ ppc = [m \in Posts |-> "new"]
    /\ ptries = [m \in Posts |-> 0]
    /\ inbox = <<>>
    /\ spc = "off"
    /\ hand = Nobody
    /\ work = <<>>
    /\ workOpen = FALSE
    /\ consumer = [w \in Pool |-> "none"]
    /\ abandoned = 0
    /\ signalled = FALSE
    /\ gone = FALSE
    /\ delivered = [m \in Posts |-> 0]
    /\ called = [m \in Posts |-> 0]

-----------------------------------------------------------------------------
(* Pub *)

Post(m) ==
    /\ ppc[m] = "new"
    /\ ppc' = [ppc EXCEPT ![m] = "send"]
    /\ UNCHANGED <<ptries, inbox, spc, hand, poolVars, signalled, gone, delivered>>

Subscribed == spc \in {"range", "full"} /\ ~gone

\* The server hands the message to the subscription; a connection that is just
\* broken, or a full inbox, loses it.
Reaches(m) ==
    \/ UNCHANGED <<inbox, delivered>>
    \/ /\ Subscribed
       /\ Len(inbox) < InboxSize
       /\ inbox' = Append(inbox, m)
       /\ delivered' = [delivered EXCEPT ![m] = @ + 1]

\* One attempt: it fails, or is executed, and then its answer may be lost.
Publish(m) ==
    /\ ppc[m] = "send"
    /\ \/ /\ ~gone
          /\ Reaches(m)
          /\ ppc' = [ppc EXCEPT ![m] = "ok"]
          /\ UNCHANGED ptries
       \/ /\ IF gone THEN UNCHANGED <<inbox, delivered>> ELSE Reaches(m)
          /\ ptries[m] < MaxTries - 1
          /\ ptries' = [ptries EXCEPT ![m] = @ + 1]
          /\ UNCHANGED ppc
       \/ /\ IF gone THEN UNCHANGED <<inbox, delivered>> ELSE Reaches(m)
          /\ ptries[m] = MaxTries - 1
          /\ ppc' = [ppc EXCEPT ![m] = "error"]
          /\ UNCHANGED ptries
    /\ UNCHANGED <<spc, hand, poolVars, signalled, gone>>

-----------------------------------------------------------------------------
(* Sub, createSubscription and runSubscription *)

SubBegin ==
    /\ spc = "off"
    /\ spc' = "top"
    /\ UNCHANGED <<postVars, inbox, hand, poolVars, signalled, gone, delivered>>

\* The select with a default; this is the only place that looks at the signal.
LoopTop ==
    /\ spc = "top"
    /\ spc' = IF signalled THEN "returned" ELSE "subscribe"
    /\ UNCHANGED <<postVars, inbox, hand, poolVars, signalled, gone, delivered>>

\* The first Receive fails, and the loop pauses for a second.
SubscribeFails ==
    /\ spc = "subscribe"
    /\ spc' = "pause"
    /\ UNCHANGED <<postVars, inbox, hand, poolVars, signalled, gone, delivered>>

PauseOver ==
    /\ spc = "pause"
    /\ spc' = "top"
    /\ UNCHANGED <<postVars, inbox, hand, poolVars, signalled, gone, delivered>>

\* The subscription is there: a work channel, and its workers.
StartWorkers ==
    /\ spc = "subscribe"
    /\ ~gone
    /\ spc' = "range"
    /\ workOpen' = TRUE
    /\ consumer' = [w \in Pool |-> "range"]
    /\ UNCHANGED <<postVars, inbox, hand, work, abandoned, called, signalled, gone,
                   delivered>>

HasSpace == Len(work) < Concurrency

\* The default branch: the message waits in hand.
DropWhenFull == UNCHANGED <<spc, hand>>
WaitWhenFull == spc' = "full" /\ hand' = Head(inbox)

Dispatch ==
    /\ spc = "range"
    /\ inbox # <<>>
    /\ inbox' = Tail(inbox)
    /\ \/ /\ HasSpace
          /\ work' = Append(work, Head(inbox))
          /\ UNCHANGED <<spc, hand>>
       \/ /\ ~HasSpace
          /\ WaitWhenFull
          /\ UNCHANGED work
    /\ UNCHANGED <<postVars, workOpen, consumer, abandoned, called, signalled, gone,
                   delivered>>

\* After the pause, the send that blocks.
SendBlocking ==
    /\ spc = "full"
    /\ HasSpace
    /\ work' = Append(work, hand)
    /\ hand' = Nobody
    /\ spc' = "range"
    /\ UNCHANGED <<postVars, inbox, workOpen, consumer, abandoned, called, signalled, gone,
                   delivered>>

\* The inbox is closed and empty.  The deferred calls close workChan.
LeaveWorkersWaiting == UNCHANGED workOpen
CloseWork == workOpen' = FALSE

SubscriptionOver ==
    /\ spc = "range"
    /\ gone
    /\ inbox = <<>>
    /\ spc' = "top"
    /\ CloseWork
    /\ UNCHANGED <<postVars, inbox, hand, work, consumer, abandoned, called, signalled,
                   gone, delivered>>

-----------------------------------------------------------------------------
(* worker *)

\* A message of workChan, and the goroutine of its handler.
TakeMessage(w) ==
    /\ consumer[w] = "range"
    /\ work # <<>>
    /\ work' = Tail(work)
    /\ called' = [called EXCEPT ![Head(work)] = @ + 1]
    /\ consumer' = [consumer EXCEPT ![w] = "wait"]
    /\ UNCHANGED <<postVars, inbox, spc, hand, workOpen, abandoned, signalled, gone,
                   delivered>>

HandlerReturns(w) ==
    /\ consumer[w] = "wait"
    /\ consumer' = [consumer EXCEPT ![w] = "range"]
    /\ UNCHANGED <<postVars, inbox, spc, hand, work, workOpen, abandoned, called, signalled,
                   gone, delivered>>

\* ctx.Done() comes first.
NoTimeout(w) == FALSE /\ UNCHANGED pubsubVars
Timeout(w) ==
    /\ consumer[w] = "wait"
    /\ consumer' = [consumer EXCEPT ![w] = "range"]
    /\ abandoned' = abandoned + 1
    /\ UNCHANGED <<postVars, inbox, spc, hand, work, workOpen, called, signalled, gone,
                   delivered>>

WorkerEnds(w) ==
    /\ consumer[w] = "range"
    /\ work = <<>> /\ ~workOpen
    /\ consumer' = [consumer EXCEPT ![w] = "ended"]
    /\ UNCHANGED <<postVars, inbox, spc, hand, work, workOpen, abandoned, called, signalled,
                   gone, delivered>>

LateHandlerReturns ==
    /\ abandoned > 0
    /\ abandoned' = abandoned - 1
    /\ UNCHANGED <<postVars, inbox, spc, hand, work, workOpen, consumer, called, signalled,
                   gone, delivered>>

-----------------------------------------------------------------------------
Signal ==
    /\ ~signalled
    /\ signalled' = TRUE
    /\ UNCHANGED <<postVars, inbox, spc, hand, poolVars, gone, delivered>>

CloseClient ==
    /\ ~gone
    /\ gone' = TRUE
    /\ UNCHANGED <<postVars, inbox, spc, hand, poolVars, signalled, delivered>>

LoopStep ==
    LoopTop \/ SubscribeFails \/ PauseOver \/ StartWorkers \/ Dispatch \/ SendBlocking
        \/ SubscriptionOver

PoolStep(w) == TakeMessage(w) \/ Timeout(w) \/ WorkerEnds(w)

PubSubNext ==
    \/ \E m \in Posts : Post(m) \/ Publish(m)
    \/ SubBegin \/ LoopStep
    \/ \E w \in Pool : PoolStep(w) \/ HandlerReturns(w)
    \/ LateHandlerReturns \/ Signal \/ CloseClient

\* Goroutines that can run do run, and 30 seconds pass; no handler has to return,
\* and nobody has to connect.
PubSubFairness == WF_pubsubVars(LoopStep) /\ \A w \in Pool : WF_pubsubVars(PoolStep(w))

PubSubSpec == PubSubInit /\ [][PubSubNext]_pubsubVars /\ PubSubFairness

-----------------------------------------------------------------------------
(* Properties *)

Occurrences(m, q) == Cardinality({n \in 1..Len(q) : q[n] = m})

\* Every delivery is handled once: between the inbox, the hand of Sub, the work
\* channel and the workers no message is lost or handled twice, not when the pool
\* is full, a handler is given up or the client is closed in between.
DeliveriesAddUp ==
    \A m \in Posts :
        delivered[m] = called[m] + Occurrences(m, inbox) + Occurrences(m, work)
                         + (IF hand = m THEN 1 ELSE 0)

\* Every delivery gets to a handler, although handlers may never return: their
\* workers give them up.
EveryDeliveryIsHandled ==
    \A m \in Posts, n \in 1..MaxTries : delivered[m] >= n ~> called[m] >= n

\* After Close and a signal, Sub returns and its workers end.  (Neither is enough:
\* Sub does not see the signal while it waits for messages, and after Close it
\* tries to subscribe for ever.)
SubscriptionEnds ==
    (gone /\ signalled /\ spc # "off")
        ~> (spc = "returned" /\ \A w \in Pool : consumer[w] \in {"none", "ended"})
=============================================================================
