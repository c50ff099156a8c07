------------------------------ MODULE MCPools ------------------------------
(***************************************************************************)
(* Instances of EmbedBatch, DocPipeline and RedisPubSub, which each have a *)
(* pool of goroutines, for TLC.  A behaviour is one of one of them; the    *)
(* others are at rest.                                                     *)
(***************************************************************************)
EXTENDS EmbedBatch, DocPipeline, RedisPubSub

VARIABLE running   \* "embed", "pipeline" or "pubsub"

PoolsInit ==
    /\ running \in {"embed", "pipeline", "pubsub"}
    /\ EmbedInit /\ PipeInit /\ PubSubInit

Embedding(A) == running = "embed" /\ A /\ UNCHANGED <<running, pipeVars, pubsubVars>>
Piping(A) == running = "pipeline" /\ A /\ UNCHANGED <<running, embedVars, pubsubVars>>
Subscribing(A) == running = "pubsub" /\ A /\ UNCHANGED <<running, embedVars, pipeVars>>

PoolsNext == Embedding(EmbedNext) \/ Piping(PipeNext) \/ Subscribing(PubSubNext)

PoolsVars == <<running, embedVars, pipeVars, pubsubVars>>

\* EmbedFairness, PipeFairness and PubSubFairness, of the component that runs.
MainStep == Embedding(CallerStep) \/ Piping(BatchStep) \/ Subscribing(LoopStep)

PoolsFairness ==
    /\ WF_PoolsVars(MainStep)
    /\ \A b \in B : WF_PoolsVars(Embedding(TaskStep(b)))
    /\ \A t \in T : WF_PoolsVars(Piping(WorkerStep(t)))
    /\ \A w \in Pool : WF_PoolsVars(Subscribing(PoolStep(w)))

PoolsSpec == PoolsInit /\ [][PoolsNext]_PoolsVars /\ PoolsFairness

\* All components keep their state well typed.
PoolTypes == EmbedTypes /\ PipeTypes /\ PubSubTypes

\* The calls of the two batch components come to an end, and the pool of a
\* subscription handles every delivery and ends with the subscription.
PoolsComeBack ==
    /\ running = "embed" => EmbedReturns
    /\ running = "pipeline" => BatchProcessReturns
    /\ EveryDeliveryIsHandled
    /\ SubscriptionEnds
=============================================================================
