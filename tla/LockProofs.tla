---------------------------- MODULE LockProofs ----------------------------
(***************************************************************************)
(* Safety of the distributed locks, proved for any number of callers, any  *)
(* number of repeated commands and any expiry: RedisLock honours its       *)
(* leases and implements LeaseLock; an entry of DLock outlives the time to *)
(* live that was asked for when clocks agree and callers unlock in time.   *)
(* At the end, the types of MCExclusive, which runs one of these locks or  *)
(* PgQueue.                                                                *)
(***************************************************************************)
EXTENDS MCExclusive, PgQueueProofs

-----------------------------------------------------------------------------
(* The calls that both have in common *)

LEMMA CallTypesInit == CallInit => CallTypes
  BY CallsAssumption DEF CallInit, CallTypes

LEMMA CallTypesTick == CallTypes /\ Tick => CallTypes'
  BY CallsAssumption DEF Tick, CallTypes

LEMMA CallTypesCall ==
  ASSUME CallTypes, NEW c \in Clients, NEW op \in {"lock", "unlock"}, Call(c, op)
  PROVE  CallTypes'
  BY CallsAssumption DEF Call, CallTypes

LEMMA CallTypesReply ==
  ASSUME CallTypes, NEW c \in Clients, NEW r \in {"yes", "no"}, Reply(c, r)
  PROVE  CallTypes'
  BY DEF Reply, CallTypes

LEMMA CallTypesEnd ==
  ASSUME CallTypes, NEW c \in Clients, Answer(c) \/ Fail(c)
  PROVE  CallTypes'
<1>1. /\ now' \in 0..MaxTime
      /\ pc' \in [Clients -> {"idle", "lock", "unlock"}]
      /\ reply' \in [Clients -> {"none", "yes", "no"}]
      /\ sent' \in [Clients -> 0..(Retries + 1)]
  BY CallsAssumption DEF Answer, Fail, Return, CallTypes
<1>2. holds' \in [Clients -> BOOLEAN]
  BY Zenon DEF Answer, Fail, CallTypes
<1> QED BY <1>1, <1>2 DEF CallTypes

LEMMA CallTypesResend ==
  ASSUME CallTypes, NEW c \in Clients, Resend(c)
  PROVE  CallTypes'
  BY CallsAssumption DEF Resend, Resends, CallTypes

LEMMA CallTypesSame == CallTypes /\ UNCHANGED callVars => CallTypes'
  BY DEF callVars, CallTypes

-----------------------------------------------------------------------------
(* RedisLock *)

\* A client that is not in a call has no answer on its way.
IdleQuiet == \A c \in Clients : pc[c] = "idle" => reply[c] = "none"

\* The inductive invariant: an answer "no" outlives the command it answers, so it
\* must be known that an answer belongs to the current call.
RedisLockInv ==
    /\ RedisLockTypes
    /\ IdleQuiet
    /\ LeaseHonoured
    /\ DeniedMeansNotTaken

LEMMA RedisLockInit == CallInit /\ KeyInit => RedisLockInv
<1> SUFFICES ASSUME CallInit, KeyInit PROVE RedisLockInv
  OBVIOUS
<1>1. RedisLockTypes
  BY CallTypesInit, LockAssumption DEF KeyInit, RedisLockTypes
<1>2. IdleQuiet /\ LeaseHonoured /\ DeniedMeansNotTaken
  BY DEF CallInit, KeyInit, IdleQuiet, LeaseHonoured, DeniedMeansNotTaken
<1> QED BY <1>1, <1>2 DEF RedisLockInv

\* Steps of the client side leave the key alone.
LEMMA RedisLockCallSteps ==
  ASSUME RedisLockInv, UNCHANGED keyVars,
         \/ Tick
         \/ \E c \in Clients : Answer(c) \/ Resend(c) \/ Fail(c) \/ Acquire(c) \/ Release(c)
  PROVE  RedisLockInv'
<1>1. CallTypes'
  BY CallTypesTick, CallTypesEnd, CallTypesResend, CallTypesCall
     DEF RedisLockInv, RedisLockTypes, Acquire, Release
<1>2. RedisLockTypes'
  BY <1>1 DEF RedisLockInv, RedisLockTypes, keyVars
<1>3. now' >= now
  BY DEF Tick, Answer, Resend, Fail, Return, Acquire, Release, Call, RedisLockInv,
     RedisLockTypes, CallTypes
<1>4. IdleQuiet'
  BY DEF Tick, Answer, Resend, Fail, Return, Acquire, Release, Call, RedisLockInv,
     RedisLockTypes, CallTypes, IdleQuiet
<1>5. LeaseHonoured'
  BY <1>2, <1>3 DEF RedisLockInv, RedisLockTypes, CallTypes, LeaseHonoured, keyVars
<1>6. DeniedMeansNotTaken'
  <2> SUFFICES ASSUME NEW d \in Clients, pc'[d] = "lock", reply'[d] = "no"
               PROVE  now' >= lease'[d]
    BY DEF DeniedMeansNotTaken
  <2>1. pc[d] = "lock" /\ reply[d] = "no"
    BY DEF Tick, Answer, Resend, Fail, Return, Acquire, Release, Call, RedisLockInv,
       RedisLockTypes, CallTypes, IdleQuiet
  <2> QED BY <1>2, <1>3, <2>1 DEF RedisLockInv, RedisLockTypes, CallTypes,
             DeniedMeansNotTaken, keyVars
<1> QED BY <1>2, <1>4, <1>5, <1>6 DEF RedisLockInv

LEMMA RedisLockSetExpire ==
  ASSUME RedisLockInv, NEW c \in Clients, NEW s \in Seconds, SetExpire(c, s)
  PROVE  RedisLockInv'
<1>1. s % UintSize \in 0..(UintSize - 1)
  BY LockAssumption
<1>2. RedisLockTypes'
  BY <1>1, CallTypesSame DEF SetExpire, RedisLockInv, RedisLockTypes
<1> QED BY <1>2 DEF SetExpire, RedisLockInv, IdleQuiet, LeaseHonoured,
           DeniedMeansNotTaken, callVars

\* The server executes a script for a caller whose command it has not answered.
LEMMA RedisLockExecuteLock ==
  ASSUME RedisLockInv, NEW c \in Clients, ExecuteLock(c)
  PROVE  RedisLockInv'
<1>1. pc[c] = "lock" /\ UNCHANGED <<now, pc, sent, holds, secs>>
  BY DEF ExecuteLock, Executes, Reply
<1>2. now \in Nat /\ secs[c] \in Nat /\ Lease(c) \in Nat /\ Lease(c) > 0
  BY LockAssumption, CallsAssumption DEF RedisLockInv, RedisLockTypes, CallTypes, Lease
<1>3. CallTypes' /\ IdleQuiet'
  BY <1>1, CallTypesReply
     DEF ExecuteLock, Reply, RedisLockInv, RedisLockTypes, CallTypes, IdleQuiet
<1>4. CASE Grants(c) /\ Reply(c, "yes") /\ val' = c /\ exp' = now + Lease(c)
           /\ lease' = [lease EXCEPT ![c] = now + Lease(c)]
  <2>1. RedisLockTypes'
    BY <1>1, <1>2, <1>3, <1>4 DEF RedisLockInv, RedisLockTypes
  <2>2. \A d \in Clients \ {c} : now >= lease[d]
    BY <1>4, CallsAssumption DEF Grants, Stored, RedisLockInv, RedisLockTypes, CallTypes,
       LeaseHonoured
  <2>3. LeaseHonoured'
    BY <1>1, <1>2, <1>4, <2>2 DEF RedisLockInv, RedisLockTypes, CallTypes, LeaseHonoured
  <2>4. DeniedMeansNotTaken'
    BY <1>1, <1>4 DEF Reply, RedisLockInv, RedisLockTypes, CallTypes, DeniedMeansNotTaken
  <2> QED BY <1>3, <2>1, <2>3, <2>4 DEF RedisLockInv
<1>5. CASE ~Grants(c) /\ Reply(c, "no") /\ UNCHANGED <<val, exp, lease>>
  <2>1. RedisLockTypes'
    BY <1>1, <1>3, <1>5 DEF RedisLockInv, RedisLockTypes
  <2>2. now >= lease[c]
    BY <1>5 DEF Grants, Stored, RedisLockInv, RedisLockTypes, CallTypes, LeaseHonoured
  <2>3. LeaseHonoured'
    BY <1>1, <1>5 DEF RedisLockInv, LeaseHonoured
  <2>4. DeniedMeansNotTaken'
    BY <1>1, <1>5, <2>2
       DEF Reply, RedisLockInv, RedisLockTypes, CallTypes, DeniedMeansNotTaken
  <2> QED BY <1>3, <2>1, <2>3, <2>4 DEF RedisLockInv
<1> QED BY <1>4, <1>5 DEF ExecuteLock

LEMMA RedisLockExecuteDel ==
  ASSUME RedisLockInv, NEW c \in Clients, ExecuteDel(c)
  PROVE  RedisLockInv'
<1>1. pc[c] = "unlock" /\ UNCHANGED <<now, pc, sent, holds, secs>>
  BY DEF ExecuteDel, Executes, Reply
<1>2. CallTypes' /\ IdleQuiet'
  BY <1>1, CallTypesReply
     DEF ExecuteDel, Reply, RedisLockInv, RedisLockTypes, CallTypes, IdleQuiet
<1>3. CASE Deletes(c) /\ val' = NoOne /\ exp' = 0 /\ lease' = [lease EXCEPT ![c] = 0]
  <2>1. RedisLockTypes'
    BY <1>1, <1>2, <1>3 DEF RedisLockInv, RedisLockTypes
  <2>2. \A d \in Clients \ {c} : now >= lease[d]
    BY <1>3, CallsAssumption DEF Deletes, Stored, RedisLockInv, RedisLockTypes, CallTypes,
       LeaseHonoured
  <2>3. LeaseHonoured'
    BY <1>1, <1>3, <2>2, CallsAssumption
       DEF RedisLockInv, RedisLockTypes, CallTypes, LeaseHonoured
  <2> QED BY <1>1, <1>2, <1>3, <2>1, <2>2, <2>3, CallsAssumption
             DEF ExecuteDel, Reply, RedisLockInv, RedisLockTypes, CallTypes,
                 DeniedMeansNotTaken
<1>4. CASE UNCHANGED <<val, exp, lease>>
  BY <1>1, <1>2, <1>4
     DEF ExecuteDel, Reply, RedisLockInv, RedisLockTypes, CallTypes, LeaseHonoured,
         DeniedMeansNotTaken
<1> QED BY <1>3, <1>4 DEF ExecuteDel

LEMMA RedisLockStep == RedisLockInv /\ [RedisLockNext]_redisLockVars => RedisLockInv'
<1> SUFFICES ASSUME RedisLockInv, [RedisLockNext]_redisLockVars PROVE RedisLockInv'
  OBVIOUS
<1>1. CASE UNCHANGED redisLockVars
  BY <1>1, CallTypesSame
     DEF redisLockVars, keyVars, callVars, RedisLockInv, RedisLockTypes, IdleQuiet,
         LeaseHonoured, DeniedMeansNotTaken
<1>2. CASE RedisLockNext
  BY <1>2, RedisLockCallSteps, RedisLockSetExpire, RedisLockExecuteLock,
     RedisLockExecuteDel
     DEF RedisLockNext, Acquire, Release
<1> QED BY <1>1, <1>2

\* Redis keeps the state of the lock well typed; the field seconds stays a uint32.
THEOREM RedisLockTyped == RedisLockSpec => []RedisLockTypes
<1>1. RedisLockInv => RedisLockTypes
  BY DEF RedisLockInv
<1> QED BY <1>1, RedisLockInit, RedisLockStep, PTL DEF RedisLockSpec

\* However often a command is lost and sent again, a lease that was granted stays
\* with its client until it ends or the client releases it.
THEOREM LeasesHonoured == RedisLockSpec => []LeaseHonoured
<1>1. RedisLockInv => LeaseHonoured
  BY DEF RedisLockInv
<1> QED BY <1>1, RedisLockInit, RedisLockStep, PTL DEF RedisLockSpec

\* The answer "no" to Acquire is never a lie: the caller does not have the lock.
THEOREM DenialsAreTrue == RedisLockSpec => []DeniedMeansNotTaken
<1>1. RedisLockInv => DeniedMeansNotTaken
  BY DEF RedisLockInv
<1> QED BY <1>1, RedisLockInit, RedisLockStep, PTL DEF RedisLockSpec

\* Every step of the key is a step of LeaseLock, or leaves owner and lease alone.
LEMMA LeaseRefined ==
  RedisLockInv /\ [RedisLockNext]_redisLockVars => [LL!LeaseNext]_(LL!leaseVars)
<1> SUFFICES ASSUME RedisLockInv, [RedisLockNext]_redisLockVars
             PROVE  [LL!LeaseNext]_(LL!leaseVars)
  OBVIOUS
<1> DEFINE over == val # NoOne /\ now >= exp
<1>1. ASSUME UNCHANGED <<now, val, exp>> PROVE UNCHANGED LL!leaseVars
  BY <1>1 DEF LL!leaseVars
<1>2. ASSUME Tick, UNCHANGED keyVars PROVE [LL!LeaseNext]_(LL!leaseVars)
  <2>1. /\ now' >= now /\ val' = val /\ exp' = exp
        /\ now \in Int /\ now' \in Int /\ exp \in Int
    BY <1>2 DEF Tick, keyVars, RedisLockInv, RedisLockTypes, CallTypes
  <2>2. CASE val = NoOne \/ now' < exp
    <3>1. ~over /\ ~over'
      BY <2>1, <2>2
    <3>2. over' = over
      BY <3>1
    <3> QED BY <2>1, <3>2 DEF LL!leaseVars
  <2>3. CASE ~(val = NoOne \/ now' < exp)
    <3>1. over' /\ val # NoOne
      BY <2>1, <2>3
    <3>2. over' = TRUE
      BY <3>1
    <3>3. LL!EndLease
      BY <2>1, <3>1, <3>2 DEF LL!EndLease
    <3> QED BY <3>3 DEF LL!LeaseNext
  <2> QED BY <2>2, <2>3
<1>3. ASSUME NEW c \in Clients, ExecuteLock(c) PROVE [LL!LeaseNext]_(LL!leaseVars)
  <2>1. now' = now /\ now \in Nat /\ Lease(c) \in Nat /\ Lease(c) > 0
    BY <1>3, LockAssumption, CallsAssumption
       DEF ExecuteLock, Reply, RedisLockInv, RedisLockTypes, CallTypes, Lease
  <2>2. CASE UNCHANGED <<val, exp>>
    BY <1>1, <2>1, <2>2
  <2>3. CASE Grants(c) /\ val' = c /\ exp' = now + Lease(c)
    <3>1. ~over'
      BY <2>1, <2>3
    <3>2. val \in {NoOne, c} \/ over
      BY <2>1, <2>3 DEF Grants, Stored, RedisLockInv, RedisLockTypes
    <3>3. LL!Grant(c) \/ LL!TakeOver(c)
      BY <2>3, <3>1, <3>2 DEF LL!Grant, LL!TakeOver
    <3> QED BY <3>3 DEF LL!LeaseNext
  <2> QED BY <1>3, <2>2, <2>3 DEF ExecuteLock
<1>4. ASSUME NEW c \in Clients, ExecuteDel(c) PROVE [LL!LeaseNext]_(LL!leaseVars)
  <2>1. CASE UNCHANGED <<now, val, exp>>
    BY <1>1, <2>1
  <2>2. CASE Deletes(c) /\ val' = NoOne
    <3>1. val = c
      BY <2>2, CallsAssumption DEF Deletes, Stored
    <3>2. LL!GiveUp(c)
      BY <2>2, <3>1 DEF LL!GiveUp
    <3> QED BY <3>2 DEF LL!LeaseNext
  <2> QED BY <1>4, <2>1, <2>2 DEF ExecuteDel, Reply
<1>5. CASE UNCHANGED redisLockVars
  BY <1>1, <1>5 DEF redisLockVars, callVars, keyVars
<1>6. CASE RedisLockNext
  <2>1. ASSUME NEW c \in Clients,
               \/ (Answer(c) \/ Resend(c) \/ Fail(c)) /\ UNCHANGED keyVars
               \/ \E s \in Seconds : SetExpire(c, s)
               \/ Acquire(c) \/ Release(c)
        PROVE  UNCHANGED <<now, val, exp>>
    BY <2>1 DEF Answer, Resend, Fail, Return, SetExpire, Acquire, Release, Call, keyVars,
       callVars
  <2> QED BY <1>1, <1>2, <1>3, <1>4, <1>6, <2>1 DEF RedisLockNext
<1> QED BY <1>5, <1>6

\* RedisLock implements the abstract lock with leases: the key's value is the owner,
\* and the lease is over when the key has expired.
THEOREM RedisLockIsLeaseLock == RedisLockSpec => ImplementsLeaseLock
<1>1. CallInit /\ KeyInit => LL!LeaseInit
  BY DEF KeyInit, LL!LeaseInit
<1> QED BY <1>1, RedisLockInit, RedisLockStep, LeaseRefined, PTL
           DEF RedisLockSpec, ImplementsLeaseLock, LL!LeaseSpec

-----------------------------------------------------------------------------
(* DLock *)

LEMMA DLockTypesInit == CallInit /\ EntryInit => DLockTypes
<1> SUFFICES ASSUME CallInit, EntryInit PROVE DLockTypes
  OBVIOUS
<1>1. entry \in Clients \cup {NoOne} /\ robbed \in [Clients -> BOOLEAN]
  BY DEF EntryInit
<1>2. /\ expireAt \in Int /\ due \in [Clients -> Nat] /\ ttl \in [Clients -> TTLs \cup {0}]
      /\ skew \in [Clients -> Skews]
  BY DEF EntryInit
<1> QED BY <1>1, <1>2, CallTypesInit DEF DLockTypes

LEMMA DLockNumbers ==
  ASSUME DLockTypes, NEW c \in Clients
  PROVE  /\ now \in Nat /\ ttl[c] \in Nat /\ skew[c] \in Int /\ MaxTime \in Nat
         /\ due[c] \in Nat /\ LeaseEnd(c) \in Int
<1>1. ttl[c] \in TTLs \cup {0} /\ now \in 0..MaxTime /\ skew[c] \in Skews
  BY DEF DLockTypes, CallTypes
<1>2. /\ \A t \in TTLs \cup {0} : t \in Nat
      /\ \A k \in Skews : k \in Int
  BY DLockAssumption
<1>3. skew[c] \in Int /\ ttl[c] \in Nat
  BY ONLY <1>1, <1>2
<1>4. due[c] \in Nat
  BY DEF DLockTypes
<1>5. LeaseEnd(c) \in Int
  BY <1>3, <1>4 DEF LeaseEnd
<1> QED BY <1>1, <1>3, <1>4, <1>5, CallsAssumption

LEMMA DLockTypesStep == DLockTypes /\ [DLockNext]_dlockVars => DLockTypes'
<1> SUFFICES ASSUME DLockTypes, [DLockNext]_dlockVars PROVE DLockTypes'
  OBVIOUS
<1>1. CASE UNCHANGED dlockVars
  BY <1>1, CallTypesSame DEF dlockVars, entryVars, DLockTypes
<1>2. ASSUME Tick, UNCHANGED entryVars PROVE DLockTypes'
  BY <1>2, CallTypesTick DEF entryVars, DLockTypes
<1>3. ASSUME NEW c \in Clients, NEW t \in TTLs, Lock(c, t) PROVE DLockTypes'
  BY <1>3, CallTypesCall DEF Lock, DLockTypes
<1>4. ASSUME NEW c \in Clients, Unlock(c) PROVE DLockTypes'
  BY <1>4, CallTypesCall DEF Unlock, entryVars, DLockTypes
<1>5. ASSUME NEW c \in Clients, ExecuteSet(c) PROVE DLockTypes'
  <2>1. CallTypes'
    BY <1>5, CallTypesReply DEF ExecuteSet, DLockTypes
  <2>2. now \in Nat /\ ttl[c] \in Nat /\ skew[c] \in Int /\ MaxTime \in Nat
    BY DLockNumbers
  <2>3. now + ttl[c] \in Nat /\ ExpiryOf(c) \in Int
    BY <2>2 DEF ExpiryOf, Never
  <2> QED BY <1>5, <2>1, <2>3 DEF ExecuteSet, DLockTypes
<1>6. ASSUME NEW c \in Clients, ExecuteDelete(c) PROVE DLockTypes'
  BY <1>6, CallTypesReply DEF ExecuteDelete, DLockTypes
<1>7. ASSUME NEW c \in Clients, Answer(c) \/ Fail(c), Forget(c) PROVE DLockTypes'
  BY <1>7, CallTypesEnd DEF Forget, DLockTypes
<1>8. ASSUME NEW c \in Clients, ResendCommand(c) PROVE DLockTypes'
  BY <1>8, CallTypesResend DEF ResendCommand, entryVars, DLockTypes
<1> QED BY <1>1, <1>2, <1>3, <1>4, <1>5, <1>6, <1>7, <1>8 DEF DLockNext

\* DLock keeps its state well typed.
THEOREM DLockTyped == DLockSpec => []DLockTypes
  BY DLockTypesInit, DLockTypesStep, PTL DEF DLockSpec

\* The inductive invariant.
DLockInv == DLockTypes /\ EntryOutlivesTTL

LEMMA DLockInit == CallInit /\ EntryInit => DLockInv
<1> SUFFICES ASSUME CallInit, EntryInit PROVE DLockInv
  OBVIOUS
<1>1. DLockTypes
  BY DLockTypesInit
<1>2. ASSUME NEW c \in Clients PROVE ~ HasLease(c)
  <2>1. now = 0 /\ due[c] = 0 /\ skew[c] \in Int
    BY <1>1, DLockNumbers DEF CallInit, EntryInit
  <2> QED BY <2>1 DEF HasLease, LeaseEnd
<1> QED BY <1>1, <1>2 DEF DLockInv, EntryOutlivesTTL

\* As long as a client has a lease nobody's SET or INSERT takes the entry.
LEMMA LeaseKeepsOthersOut ==
  ASSUME DLockInv, CanLock, NEW d \in Clients
  PROVE  ~ HasLease(d)
<1> SUFFICES ASSUME HasLease(d) PROVE FALSE
  OBVIOUS
<1>1. now \in Nat /\ LeaseEnd(d) \in Int /\ expireAt \in Int
  BY DLockNumbers DEF DLockInv, DLockTypes
<1>2. entry = d /\ expireAt >= LeaseEnd(d) /\ now < LeaseEnd(d)
  BY DEF DLockInv, EntryOutlivesTTL, HasLease
<1>3. entry # NoOne
  BY <1>2, CallsAssumption
<1> QED BY <1>1, <1>2, <1>3 DEF CanLock, Replaceable

\* A client whose time, clock, end and fate stay as they are has the lease it had.
LEMMA SameLease ==
  ASSUME NEW d \in Clients, UNCHANGED <<now, backend, skew>>, due'[d] = due[d]
  PROVE  /\ LeaseEnd(d)' = LeaseEnd(d)
         /\ robbed'[d] = robbed[d] => HasLease(d)' = HasLease(d)
<1>1. LeaseEnd(d)' = LeaseEnd(d)
  BY DEF LeaseEnd
<1> QED BY <1>1 DEF HasLease

\* A command that sets the entry.
LEMMA DLockExecuteSet ==
  ASSUME DLockInv, NEW c \in Clients, ExecuteSet(c)
  PROVE  EntryOutlivesTTL'
<1>1. UNCHANGED <<now, backend, skew, ttl>>
  BY DEF ExecuteSet, Reply
<1>2. now \in Nat /\ ttl[c] \in Nat /\ skew[c] \in Int
  BY DLockNumbers DEF DLockInv
<1>3. CASE CanLock /\ entry' = c /\ expireAt' = ExpiryOf(c)
           /\ due' = [due EXCEPT ![c] = now + ttl[c]]
           /\ robbed' = [robbed EXCEPT ![c] = FALSE]
  <2>1. /\ due'[c] = now + ttl[c]
        /\ \A d \in Clients \ {c} : due'[d] = due[d] /\ robbed'[d] = robbed[d]
    BY <1>3 DEF DLockInv, DLockTypes
  <2>2. LeaseEnd(c)' = (now + ttl[c]) + IF backend = "redis" \/ skew[c] >= 0 THEN 0 ELSE skew[c]
    BY <1>1, <2>1 DEF LeaseEnd
  <2>3. HasLease(c)' => expireAt' >= LeaseEnd(c)'
    <3>1. CASE backend = "redis"
      BY <1>1, <1>2, <1>3, <2>2, <3>1 DEF ExpiryOf, HasLease
    <3>2. CASE backend # "redis"
      BY <1>2, <1>3, <2>2, <3>2 DEF ExpiryOf
    <3> QED BY <3>1, <3>2
  <2>4. ASSUME NEW d \in Clients \ {c} PROVE ~ HasLease(d)'
    BY <1>1, <1>3, <2>1, LeaseKeepsOthersOut, SameLease
  <2> QED BY <1>3, <2>3, <2>4 DEF EntryOutlivesTTL
<1>4. CASE UNCHANGED <<entry, expireAt, due, robbed>>
  <2>1. \A d \in Clients : LeaseEnd(d)' = LeaseEnd(d) /\ HasLease(d)' = HasLease(d)
    BY <1>1, <1>4, SameLease
  <2> QED BY <1>4, <2>1 DEF DLockInv, EntryOutlivesTTL
<1> QED BY <1>3, <1>4 DEF ExecuteSet

\* A command that deletes the entry, whoever wrote it: of the others only one that is
\* robbed had a lease, because two never have one.
LEMMA DLockExecuteDelete ==
  ASSUME DLockInv, NEW c \in Clients, ExecuteDelete(c)
  PROVE  EntryOutlivesTTL'
<1>1. /\ UNCHANGED <<now, backend, skew>> /\ due'[c] = 0
      /\ \A d \in Clients \ {c} : due'[d] = due[d]
      /\ \A d \in Clients :
            robbed'[d] = (d # c /\ (robbed[d] \/ (d = entry /\ ~HasLease(c))))
  BY DEF ExecuteDelete, Reply, DLockInv, DLockTypes
<1>2. ~ HasLease(c)'
  <2>1. now \in Nat /\ skew[c] \in Int
    BY DLockNumbers DEF DLockInv
  <2> QED BY <1>1, <2>1 DEF HasLease, LeaseEnd
<1>3. ASSUME NEW d \in Clients \ {c} PROVE ~ HasLease(d)'
  <2> SUFFICES ASSUME HasLease(d)' PROVE FALSE
    OBVIOUS
  <2>1. ~ robbed'[d] /\ now < LeaseEnd(d)
    BY <1>1, SameLease DEF HasLease
  <2>2. ~ robbed[d] /\ (d = entry => HasLease(c))
    BY <1>1, <2>1
  <2>3. HasLease(d)
    BY <2>1, <2>2 DEF HasLease
  <2>4. entry = d /\ entry = c
    BY <2>2, <2>3 DEF DLockInv, EntryOutlivesTTL
  <2> QED BY <2>4
<1> QED BY <1>2, <1>3 DEF EntryOutlivesTTL

LEMMA DLockStep == DLockInv /\ [DLockNext]_dlockVars => DLockInv'
<1> SUFFICES ASSUME DLockInv, [DLockNext]_dlockVars PROVE EntryOutlivesTTL'
  BY DLockTypesStep DEF DLockInv
\* Nothing that a lease depends on has changed.
<1>1. ASSUME UNCHANGED <<now, backend, skew, entry, expireAt, due, robbed>>
      PROVE  EntryOutlivesTTL'
  BY <1>1 DEF DLockInv, EntryOutlivesTTL, HasLease, LeaseEnd
<1>2. CASE UNCHANGED dlockVars
  BY <1>1, <1>2 DEF dlockVars, callVars, entryVars
<1>3. ASSUME Tick, UNCHANGED entryVars PROVE EntryOutlivesTTL'
  <2> SUFFICES ASSUME NEW c \in Clients, HasLease(c)'
               PROVE  entry' = c /\ expireAt' >= LeaseEnd(c)'
    BY DEF EntryOutlivesTTL
  <2>1. now \in Nat /\ LeaseEnd(c) \in Int /\ now' = now + 1
    BY <1>3, DLockNumbers DEF Tick, DLockInv
  <2>2. LeaseEnd(c)' = LeaseEnd(c) /\ robbed'[c] = robbed[c] /\ UNCHANGED <<entry, expireAt>>
    BY <1>3 DEF entryVars, LeaseEnd
  <2>3. HasLease(c)
    BY <2>1, <2>2 DEF HasLease
  <2> QED BY <2>2, <2>3 DEF DLockInv, EntryOutlivesTTL
<1>4. ASSUME NEW c \in Clients, NEW t \in TTLs, Lock(c, t) PROVE EntryOutlivesTTL'
  BY <1>1, <1>4 DEF Lock, Call
<1>5. ASSUME NEW c \in Clients, Unlock(c) PROVE EntryOutlivesTTL'
  BY <1>1, <1>5 DEF Unlock, Call, entryVars
<1>6. ASSUME NEW c \in Clients, Answer(c) \/ Fail(c), Forget(c) PROVE EntryOutlivesTTL'
  BY <1>1, <1>6 DEF Answer, Fail, Return, Forget
<1>7. ASSUME NEW c \in Clients, ResendCommand(c) PROVE EntryOutlivesTTL'
  BY <1>1, <1>7 DEF ResendCommand, Resend, entryVars
<1> QED BY <1>2, <1>3, <1>4, <1>5, <1>6, <1>7, DLockExecuteSet, DLockExecuteDelete DEF DLockNext

\* Lock and Unlock, whatever the ttl arguments and however far the clocks are apart: an
\* entry is taken from its client before its time only by the Unlock of a client
\* that has no lease, so two clients never have one at a time.
THEOREM EntriesOutliveTTL == DLockSpec => []EntryOutlivesTTL
<1>1. DLockInv => EntryOutlivesTTL
  BY DEF DLockInv
<1> QED BY <1>1, DLockInit, DLockStep, PTL DEF DLockSpec

(***************************************************************************)
(* The composition of MCExclusive: the two kinds of locks share the state  *)
(* of the callers, and only one of them runs, or the PostgreSQL queue.     *)
(***************************************************************************)
\* With redsync the key obeys RedisLock; the steps of the others leave it alone, but
\* their callers' answers are not about it.
ExclusiveInv ==
    /\ RedisLockTypes
    /\ DLockTypes
    /\ TypeInv
    /\ backend = "redsync" => RedisLockInv

LEMMA ExclusiveInitHolds == ExclusiveInit => ExclusiveInv
<1> SUFFICES ASSUME ExclusiveInit PROVE ExclusiveInv
  OBVIOUS
<1>1. RedisLockInv /\ DLockTypes /\ TypeInv
  BY RedisLockInit, DLockTypesInit, TypeInit DEF ExclusiveInit
<1> QED BY <1>1 DEF ExclusiveInv, RedisLockInv

\* A step of RedisLock: the entry of DLock stays, and the callers stay well typed.
LEMMA RedsyncStep ==
    ASSUME ExclusiveInv, backend = "redsync", RedisLockNext, UNCHANGED <<entryVars, vars>>
    PROVE  ExclusiveInv'
<1>1. RedisLockInv'
  BY RedisLockStep DEF ExclusiveInv
<1>2. RedisLockTypes' /\ CallTypes'
  BY <1>1 DEF RedisLockInv, RedisLockTypes
<1>3. DLockTypes'
  BY <1>2 DEF ExclusiveInv, DLockTypes, entryVars
<1>4. TypeInv'
  BY TypeStep DEF ExclusiveInv
<1> QED BY <1>1, <1>2, <1>3, <1>4 DEF ExclusiveInv

\* No step of DLock changes the kind of lock.
LEMMA KindStays == DLockNext => UNCHANGED backend
BY DEF DLockNext, entryVars, Lock, Unlock, ExecuteSet, ExecuteDelete, Forget, ResendCommand

LEMMA DLockKindStep ==
    ASSUME ExclusiveInv, backend # "redsync", DLockNext, UNCHANGED <<keyVars, vars>>
    PROVE  ExclusiveInv'
<1>1. DLockTypes'
  BY DLockTypesStep DEF ExclusiveInv
<1>2. CallTypes'
  BY <1>1 DEF DLockTypes
<1>3. RedisLockTypes'
  BY <1>2 DEF ExclusiveInv, RedisLockTypes, keyVars
<1>4. TypeInv'
  BY TypeStep DEF ExclusiveInv
<1> QED BY <1>1, <1>3, <1>4, KindStays DEF ExclusiveInv

LEMMA RowsStep ==
    ASSUME ExclusiveInv, [Next]_vars, UNCHANGED lockVars
    PROVE  ExclusiveInv'
<1>1. TypeInv'
  BY TypeStep DEF ExclusiveInv
<1>2. UNCHANGED <<callVars, keyVars, entryVars>>
  BY DEF lockVars
<1>3. CallTypes'
  BY <1>2, CallTypesSame DEF ExclusiveInv, RedisLockTypes
<1>4. RedisLockTypes' /\ DLockTypes'
  BY <1>2, <1>3 DEF ExclusiveInv, RedisLockTypes, DLockTypes, keyVars, entryVars
<1>5. backend' = "redsync" => RedisLockInv'
  <2>1. [RedisLockNext]_redisLockVars
    BY <1>2 DEF redisLockVars
  <2> QED BY <1>2, <2>1, RedisLockStep DEF ExclusiveInv, entryVars
<1> QED BY <1>1, <1>4, <1>5 DEF ExclusiveInv

LEMMA ExclusiveStepKeepsInv ==
    ExclusiveInv /\ [ExclusiveNext]_<<running, lockVars, vars>> => ExclusiveInv'
<1> SUFFICES ASSUME ExclusiveInv, [ExclusiveNext]_<<running, lockVars, vars>>
             PROVE  ExclusiveInv'
  OBVIOUS
<1>1. CASE Locking(backend = "redsync" /\ RedisLockNext /\ UNCHANGED entryVars)
  BY <1>1, RedsyncStep DEF Locking
<1>2. CASE Locking(backend # "redsync" /\ DLockNext /\ UNCHANGED keyVars)
  BY <1>2, DLockKindStep DEF Locking
<1>3. CASE Next /\ UNCHANGED lockVars
  BY <1>3, RowsStep
<1>4. CASE UNCHANGED <<running, lockVars, vars>>
  BY <1>4, RowsStep
<1> QED BY <1>1, <1>2, <1>3, <1>4 DEF ExclusiveNext

\* Locks and rows keep their state well typed, whichever of them runs.
THEOREM ExclusiveTyped == ExclusiveSpec => []ExclusiveTypes
<1>1. ExclusiveInv => ExclusiveTypes
  BY DEF ExclusiveInv, ExclusiveTypes, TypeInv
<1> QED BY <1>1, ExclusiveInitHolds, ExclusiveStepKeepsInv, PTL DEF ExclusiveSpec
=============================================================================
