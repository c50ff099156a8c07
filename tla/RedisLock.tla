----------------------------- MODULE RedisLock -----------------------------
(***************************************************************************)
(* RedisLock of pkg/database/redis/redis_redsync.go: several lock objects  *)
(* for one key; a client's name stands for the random id of its object.    *)
(* Acquire and Release are one Lua script each, which Redis executes       *)
(* atomically.  Time is counted in units of tolerance (500 ms).            *)
(***************************************************************************)
EXTENDS LockCalls

CONSTANTS
    Seconds,     \* arguments of SetExpire
    UintSize     \* 2^32: where the field seconds, a uint32, wraps around

ASSUME LockAssumption == Seconds \subseteq Int /\ UintSize \in Nat \ {0}

VARIABLES
    val, exp, \* the key's value and the time it expires
    secs,     \* rl.seconds
    lease     \* history: when the lease ends that the server granted last

keyVars == <<val, exp, secs, lease>>
redisLockVars == <<callVars, keyVars>>

\* The state is well typed.
RedisLockTypes ==
    /\ CallTypes
    /\ val \in Clients \cup {NoOne}
    /\ exp \in Nat
    /\ secs \in [Clients -> 0..(UintSize - 1)]
    /\ lease \in [Clients -> Nat]

KeyInit ==
    /\ val = NoOne
    /\ exp = 0
    /\ secs = [c \in Clients |-> 0]
    /\ lease = [c \in Clients |-> 0]

\* GET answers with the value of a key that has not expired.
Stored == IF now < exp THEN val ELSE NoOne

\* seconds * millisPerSecond + tolerance
Lease(c) == 2 * secs[c] + 1

\* uint32(seconds)
SetExpireUnchecked(c, s) ==
    /\ pc[c] = "idle"
    /\ secs' = [secs EXCEPT ![c] = s]
    /\ UNCHANGED <<callVars, val, exp, lease>>

SetExpire(c, s) ==
    /\ pc[c] = "idle"
    /\ secs' = [secs EXCEPT ![c] = s % UintSize]
    /\ UNCHANGED <<callVars, val, exp, lease>>

Acquire(c) == Call(c, "lock") /\ UNCHANGED keyVars
Release(c) == Call(c, "unlock") /\ UNCHANGED keyVars

\* The conditions of the two scripts: lockCommand's SET succeeds on the caller's
\* own value or on a missing key, delCommand deletes the caller's own value.
GrantsToAnyone(c) == TRUE
GrantsOnlyFree(c) == Stored = NoOne
Grants(c) == Stored \in {c, NoOne}
DeletesAnything(c) == Stored # NoOne
Deletes(c) == Stored = c

\* lockCommand
ExecuteLock(c) ==
    /\ Executes(c, "lock")
    /\ \/ /\ Grants(c)
          /\ val' = c
          /\ exp' = now + Lease(c)
          /\ lease' = [lease EXCEPT ![c] = now + Lease(c)]
          /\ Reply(c, "yes")
       \/ /\ ~Grants(c)
          /\ Reply(c, "no")
          /\ UNCHANGED <<val, exp, lease>>
    /\ UNCHANGED secs

\* delCommand
ExecuteDel(c) ==
    /\ Executes(c, "unlock")
    /\ \/ /\ Deletes(c)
          /\ val' = NoOne
          /\ exp' = 0
          /\ lease' = [lease EXCEPT ![c] = 0]
          /\ Reply(c, "yes")
       \/ /\ ~Deletes(c)
          /\ Reply(c, "no")
          /\ UNCHANGED <<val, exp, lease>>
    /\ UNCHANGED secs

RedisLockNext ==
    \/ (Tick \/ \E c \in Clients : Answer(c) \/ Resend(c) \/ Fail(c)) /\ UNCHANGED keyVars
    \/ \E c \in Clients : \/ \E s \in Seconds : SetExpire(c, s)
                          \/ Acquire(c) \/ Release(c)
                          \/ ExecuteLock(c) \/ ExecuteDel(c)

RedisLockSpec == CallInit /\ KeyInit /\ [][RedisLockNext]_redisLockVars

-----------------------------------------------------------------------------
(* Properties *)

\* A lease that the server granted is honoured until it ends or its owner releases
\* the lock: no other client's Acquire, Release or repeated command ends it, so two
\* clients never both have a lease.
LeaseHonoured == \A c \in Clients : now < lease[c] => val = c /\ exp = lease[c]

\* An Acquire that is answered with no did not take the lock: a script that is
\* executed again after a lost answer recognises its own id.
DeniedMeansNotTaken ==
    \A c \in Clients : pc[c] = "lock" /\ reply[c] = "no" => now >= lease[c]

\* The key implements the abstract lock.
LL == INSTANCE LeaseLock WITH owner <- val, over <- (val # NoOne /\ now >= exp)

ImplementsLeaseLock == LL!LeaseSpec
=============================================================================
