----------------------------- MODULE LeaseLock -----------------------------
(***************************************************************************)
(* What a distributed lock with a time to live promises: it has one owner  *)
(* at most, and leaves its owner only when the owner releases it or when   *)
(* the owner's lease ends.                                                 *)
(***************************************************************************)
CONSTANTS Clients, NoOne

VARIABLES
    owner,   \* who owns the lock
    over     \* the lease of the owner, if any, has ended

leaseVars == <<owner, over>>

LeaseInit == owner = NoOne /\ over = FALSE

\* A free lock is granted; its owner may have it granted again.
Grant(c) ==
    /\ owner \in {NoOne, c}
    /\ owner' = c
    /\ over' = FALSE

EndLease ==
    /\ owner # NoOne
    /\ over' = TRUE
    /\ owner' = owner

\* The lock goes back after its lease, or on the owner's wish.
GiveUp(c) ==
    /\ owner = c
    /\ owner' = NoOne
    /\ over' = FALSE

\* A lock whose lease has ended goes straight to its next owner.
TakeOver(c) ==
    /\ over
    /\ owner' = c
    /\ over' = FALSE

LeaseNext == EndLease \/ \E c \in Clients : Grant(c) \/ GiveUp(c) \/ TakeOver(c)

LeaseSpec == LeaseInit /\ [][LeaseNext]_leaseVars
=============================================================================
