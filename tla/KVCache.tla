------------------------------ MODULE KVCache ------------------------------
(***************************************************************************)
(* The key-value cache of pkg/database/cache, one key of it, used by       *)
(* several callers.  In PostgreSQL the value and its end are a row; who    *)
(* reads a row that has expired deletes whatever row is there by then.     *)
(* In redis the server itself lets the value expire.  The clocks of the    *)
(* callers and of the server are taken to agree.                           *)
(***************************************************************************)
EXTENDS Integers, FiniteSets

CONSTANTS Callers, Values,
          TTLs,         \* the ttlSeconds given to Set
          MaxTime       \* bound: the time that passes

ASSUME CacheAssumption == TTLs \subseteq Int /\ MaxTime \in Nat

Backends == {"pgsql", "redis"}
NoRow == [value |-> "none", expireAt |-> 0]
Never == MaxTime + 1
Open == [value |-> "any", expireAt |-> Never]

VARIABLES
    backend,    \* the cacheType of NewKVCache
    now,
    row,        \* what the server has under the key
    pending,    \* caller -> the statement it is about to execute
    answer,     \* caller -> what its last Get answered
    latest,     \* history: what was stored last and not deleted by a Del
    owed        \* history: caller -> what its Get has to find; Open when a write or
                \* the end of the value came in between

cacheVars == <<backend, now, row, pending, answer, latest, owed>>

Idle == [step |-> "idle"]
Expired(r) == now > r.expireAt
InForce(r) == r # NoRow /\ ~Expired(r)

\* No Set or Del is under way.
Settled == \A c \in Callers : pending[c].step \notin {"set", "del"}

CacheInit ==
    /\ backend \in Backends /\ now = 0 /\ row = NoRow
    /\ pending = [c \in Callers |-> Idle]
    /\ answer = [c \in Callers |-> NoRow]
    /\ latest = NoRow /\ owed = [c \in Callers |-> NoRow]

\* From here to the end of the write a Get may answer one or the other.
Issue(c, statement) ==
    /\ pending[c].step = "idle"
    /\ pending' = [pending EXCEPT ![c] = statement]
    /\ owed' = [d \in Callers |-> Open]
    /\ UNCHANGED <<backend, now, row, answer, latest>>

\* The end of a row is reckoned by the caller, before the statement; redis counts the
\* ttl from the execution.
SetBegin(c) ==
    \E v \in Values, ttl \in TTLs :
        Issue(c, [step |-> "set", value |-> v, ttl |-> ttl, expireAt |-> now + ttl])

\* Without a positive ttl go-redis sends no expiry, and the value stays for ever (its
\* KeepTTL, one nanosecond less than 0, is none of the ttls here).
RedisEnd(s) == IF s.ttl <= 0 THEN Never ELSE now + s.ttl

SetExec(c) ==
    /\ pending[c].step = "set"
    /\ row' = [value |-> pending[c].value,
               expireAt |-> IF backend = "redis" THEN RedisEnd(pending[c]) ELSE pending[c].expireAt]
    /\ latest' = row'
    /\ pending' = [pending EXCEPT ![c] = Idle]
    /\ UNCHANGED <<backend, now, answer, owed>>

DelBegin(c) == Issue(c, [step |-> "del"])

\* The DELETE of Del itself, or the one of a Get that saw an expired row.
DelExec(c) ==
    /\ pending[c].step \in {"del", "cleanup"}
    /\ row' = NoRow
    /\ latest' = IF pending[c].step = "del" THEN NoRow ELSE latest
    /\ pending' = [pending EXCEPT ![c] = Idle]
    /\ UNCHANGED <<backend, now, answer, owed>>

GetBegin(c) ==
    /\ pending[c].step = "idle"
    /\ pending' = [pending EXCEPT ![c] = [step |-> "get"]]
    /\ owed' = [owed EXCEPT ![c] =
            IF ~Settled THEN Open ELSE IF InForce(latest) THEN latest ELSE NoRow]
    /\ answer' = [answer EXCEPT ![c] = NoRow]
    /\ UNCHANGED <<backend, now, row, latest>>

\* As Live, but without a look at the clock.
Unread(r) == r # NoRow

Live(r) == r # NoRow /\ ~Expired(r)

\* The SELECT, and the comparison with the caller's clock behind it.
GetExec(c) ==
    /\ pending[c].step = "get"
    /\ answer' = [answer EXCEPT ![c] = IF Live(row) THEN row ELSE NoRow]
    /\ pending' = [pending EXCEPT ![c] =
            IF backend = "pgsql" /\ row # NoRow /\ Expired(row) THEN [step |-> "cleanup"] ELSE Idle]
    /\ UNCHANGED <<backend, now, row, latest, owed>>

\* Time passes; redis drops what has expired.
TimePasses ==
    /\ now < MaxTime
    /\ now' = now + 1
    /\ row' = IF backend = "redis" /\ row # NoRow /\ now + 1 > row.expireAt THEN NoRow ELSE row
    /\ owed' = [c \in Callers |->
                    IF owed[c] # NoRow /\ now + 1 > owed[c].expireAt THEN Open ELSE owed[c]]
    /\ UNCHANGED <<backend, pending, answer, latest>>

CacheNext ==
    \/ \E c \in Callers : SetBegin(c) \/ SetExec(c) \/ DelBegin(c) \/ DelExec(c)
                            \/ GetBegin(c) \/ GetExec(c)
    \/ TimePasses

CacheSpec == CacheInit /\ [][CacheNext]_cacheVars

(***************************************************************************)
(* Properties.                                                             *)
(***************************************************************************)
GetReturned(c) == pending[c].step \in {"idle", "cleanup"} /\ owed[c] # Open

\* A Get that no write overlaps answers what was stored last while it is in force,
\* and nothing when that was deleted or had expired before the Get began; in
\* PostgreSQL it may also find nothing where there should be a value (the next
\* property), but never an earlier one.
CacheAnswers == \A c \in Callers :
    GetReturned(c) => \/ answer[c] = owed[c]
                      \/ backend = "pgsql" /\ answer[c] = NoRow

\* What a Set has stored is found until it expires, is overwritten or deleted with
\* Del (the test of both backends, cache_kv_test.go:57-63: "expected bar, got %s").
StoredIsFound == \A c \in Callers : GetReturned(c) => answer[c] = owed[c]
=============================================================================
