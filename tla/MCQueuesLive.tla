---------------------------- MODULE MCQueuesLive ----------------------------
(***************************************************************************)
(* PgQueue and an instance of RedisStream for TLC, under the fairness of   *)
(* each.  A behaviour is one of one of them; the other is at rest.         *)
(***************************************************************************)
EXTENDS PgQueue

CONSTANTS Msgs, Groups, Ids, PubAttempts, Count, MaxEntries, MaxMishaps

VARIABLES entries, present, last, pel, ppc, tries, sub, cpc, batch, closed,
          calls, done, trimmed, losses, mishaps

redisVars == <<entries, present, last, pel, ppc, tries, sub, cpc, batch, closed,
               calls, done, trimmed, losses, mishaps>>

Stream == INSTANCE RedisStream

VARIABLE running   \* "pg" or "stream"

queueVars == <<running, vars, redisVars>>

QueuesInit == running \in {"pg", "stream"} /\ Init /\ Stream!Init

InPg(A) == running = "pg" /\ A /\ UNCHANGED <<running, redisVars>>
InStream(A) == running = "stream" /\ A /\ UNCHANGED <<running, vars>>

QueuesNext == InPg(Next) \/ InStream(Stream!Next)

\* Fairness of PgQueue and of RedisStream, of the one that runs.
QueuesFairness ==
    /\ \A p \in Procs :
          /\ WF_queueVars(InPg(TickerFires(p)))
          /\ SF_queueVars(InPg(Select(p) /\ lst'[p] = "returned"))
          /\ WF_queueVars(InPg(ListenerStep(p)))
          /\ WF_queueVars(InPg(CloseEnd(p)))
    /\ \A w \in Workers : WF_queueVars(InPg(WorkerStep(w)))
    /\ \A c \in Stream!Consumers :
          /\ WF_queueVars(InStream(Stream!ConsumerStep(c)))
          /\ SF_queueVars(InStream(Stream!Recreate(c, "ok")))

QueuesSpec == QueuesInit /\ [][QueuesNext]_queueVars /\ QueuesFairness

\* The property of RedisStream; those of PgQueue have their names.
EntriesReachAHandler == Stream!EntriesReachAHandler
=============================================================================
