---------------------------- MODULE MCExclusive ----------------------------
(***************************************************************************)
(* Instances for TLC of the components that give a thing to one party at a *)
(* time: RedisLock and DLock a lock to a caller, PgQueue a row to a        *)
(* worker.  A behaviour is one of one of them; the others are at rest.     *)
(***************************************************************************)
EXTENDS RedisLock, DLock, PgQueue, TLC

CONSTANT Kinds   \* the kinds of locks a behaviour may use: "redsync", "redis", "pgsql"

\* A negative argument of SetExpire wraps around, zero leaves the tolerance alone.
SetExpireArgs == {-1, 1}

\* Clocks that are behind the database's, agree with it, or are ahead.
MCSkews == {-1, 0, 1}

VARIABLE running   \* "lock" or "pg"

lockVars == <<callVars, keyVars, entryVars>>

ExclusiveInit ==
    /\ running \in {"lock", "pg"}
    /\ backend \in IF running = "lock" THEN Kinds ELSE {"redsync"}
    /\ CallInit /\ KeyInit /\ EntryInit /\ Init
    \* a skew matters to PostgreSQL only
    /\ backend = "pgsql" \/ \A c \in Clients : skew[c] = 0

Locking(A) == running = "lock" /\ A /\ UNCHANGED <<running, vars>>

ExclusiveNext ==
    \/ Locking(backend = "redsync" /\ RedisLockNext /\ UNCHANGED entryVars)
    \/ Locking(backend # "redsync" /\ DLockNext /\ UNCHANGED keyVars)
    \/ running = "pg" /\ Next /\ UNCHANGED <<running, lockVars>>

ExclusiveSpec == ExclusiveInit /\ [][ExclusiveNext]_<<running, lockVars, vars>>

\* Parties of one kind are interchangeable.
Symmetry == Permutations(Clients) \cup Permutations(Procs)

\* The locks and the rows keep their state well typed.
ExclusiveTypes == RedisLockTypes /\ DLockTypes /\ TypeOK
=============================================================================
