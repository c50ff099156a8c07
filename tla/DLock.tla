------------------------------- MODULE DLock -------------------------------
(***************************************************************************)
(* The DLock of pkg/database/cache, for one key: cache_lock_redis.go and   *)
(* cache_lock_pgsql.go.  Lock and Unlock are one command or one statement  *)
(* each.  The entry in the backend does not say who wrote it, and Unlock   *)
(* deletes it whenever the command arrives, whoever calls it.  Only the    *)
(* Redis client sends a command again.                                     *)
(***************************************************************************)
EXTENDS LockCalls

CONSTANTS
    TTLs,        \* the ttl arguments of Lock
    Skews        \* how far a client's clock may be from the database's

ASSUME DLockAssumption == TTLs \subseteq Nat /\ Skews \subseteq Int

VARIABLES
    backend,  \* "redis" or "pgsql"
    skew,     \* how far each client's clock is ahead of the database's
    entry,    \* who wrote the entry (which the backend does not know), or NoOne
    expireAt, \* when the entry expires, by the backend's clock
    ttl,      \* the argument of each client's Lock
    due,      \* history: when the time to live ends that a Lock asked for
    robbed    \* history: a client's entry was deleted by one that had no lease

entryVars == <<backend, skew, entry, expireAt, ttl, due, robbed>>
dlockVars == <<callVars, entryVars>>

\* A Redis key that was set without an expiry.
Never == MaxTime + 1

\* The state is well typed.
DLockTypes ==
    /\ CallTypes
    /\ skew \in [Clients -> Skews]
    /\ entry \in Clients \cup {NoOne}
    /\ expireAt \in Int
    /\ ttl \in [Clients -> TTLs \cup {0}]
    /\ due \in [Clients -> Nat]
    /\ robbed \in [Clients -> BOOLEAN]

EntryInit ==
    /\ skew \in [Clients -> Skews]
    /\ entry = NoOne
    /\ expireAt = 0
    /\ ttl = [c \in Clients |-> 0]
    /\ due = [c \in Clients |-> 0]
    /\ robbed = [c \in Clients |-> FALSE]

Lock(c, t) ==
    /\ Call(c, "lock")
    /\ ttl' = [ttl EXCEPT ![c] = t]
    /\ UNCHANGED <<backend, skew, entry, expireAt, due, robbed>>

Unlock(c) ==
    /\ Call(c, "unlock")
    /\ UNCHANGED entryVars

\* SET NX finds no key; "WHERE dlock.expire_at < NOW()".
Replaceable(e) == IF backend = "redis" THEN e <= now ELSE e < now
CanLockAlways == TRUE
CanLock == entry = NoOne \/ Replaceable(expireAt)

ExpiryTooEarly(c) == now + ttl[c] - 1

\* SET NX with a ttl of 0 sets no expiry; time.Now().Add(ttl) is the client's time.
ExpiryOf(c) ==
    IF backend = "redis" THEN IF ttl[c] = 0 THEN Never ELSE now + ttl[c]
    ELSE now + skew[c] + ttl[c]

ExecuteSet(c) ==
    /\ Executes(c, "lock")
    /\ \/ /\ CanLock
          /\ entry' = c
          /\ expireAt' = ExpiryOf(c)
          /\ due' = [due EXCEPT ![c] = now + ttl[c]]
          /\ robbed' = [robbed EXCEPT ![c] = FALSE]
          /\ Reply(c, "yes")
       \/ /\ ~CanLock
          /\ Reply(c, "no")
          /\ UNCHANGED <<entry, expireAt, due, robbed>>
    /\ UNCHANGED <<backend, skew, ttl>>

\* Until when a client whose command has set the entry may count on it: for the time
\* to live, less what the database's clock is ahead of its own.
LeaseEnd(c) == due[c] + IF backend = "redis" \/ skew[c] >= 0 THEN 0 ELSE skew[c]
HasLease(c) == now < LeaseEnd(c) /\ ~robbed[c]

\* DEL, DELETE: whoever wrote the entry, and no matter how late.
ExecuteDelete(c) ==
    /\ Executes(c, "unlock")
    /\ entry' = NoOne
    /\ expireAt' = 0
    /\ due' = [due EXCEPT ![c] = 0]
    /\ robbed' = [d \in Clients |-> d # c /\ (robbed[d] \/ (d = entry /\ ~HasLease(c)))]
    /\ Reply(c, "yes")
    /\ UNCHANGED <<backend, skew, ttl>>

\* A call ends and forgets its argument.
Forget(c) ==
    /\ ttl' = [ttl EXCEPT ![c] = 0]
    /\ UNCHANGED <<backend, skew, entry, expireAt, due, robbed>>

ResendCommand(c) ==
    /\ backend = "redis"
    /\ Resend(c)
    /\ UNCHANGED entryVars

DLockNext ==
    \/ Tick /\ UNCHANGED entryVars
    \/ \E c \in Clients : \/ \E t \in TTLs : Lock(c, t)
                          \/ Unlock(c)
                          \/ ExecuteSet(c) \/ ExecuteDelete(c)
                          \/ Answer(c) /\ Forget(c)
                          \/ ResendCommand(c)
                          \/ Fail(c) /\ Forget(c)

DLockSpec ==
    backend \in {"redis", "pgsql"} /\ CallInit /\ EntryInit /\ [][DLockNext]_dlockVars

-----------------------------------------------------------------------------
(* Properties *)

\* A Lock that succeeded is taken from its client before its time only by an Unlock of
\* a client without a lease: one that comes after the ttl, is executed again for an
\* answer that was lost, follows a Lock that failed, or whose own lease was lost that
\* way.  Neither a Lock nor the Unlock of a client that has a lease can do it, so
\* two clients never have one at a time.  A client whose clock is behind the
\* database's loses just that much of its time.
EntryOutlivesTTL ==
    \A c \in Clients : HasLease(c) => entry = c /\ expireAt >= LeaseEnd(c)
=============================================================================
