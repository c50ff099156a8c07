----------------------------- MODULE WorkQueue -----------------------------
(***************************************************************************)
(* What a queue with retries promises, whatever stores it: a job is worked *)
(* on by at most one handler at a time, is tried again after a failure, up *)
(* to a number of attempts, and is done only through a handler that        *)
(* succeeded.  A job whose worker disappears is stuck: nobody takes it     *)
(* over.                                                                   *)
(***************************************************************************)
EXTENDS Naturals

CONSTANTS Jobs, MaxAttempts

VARIABLES
    phase,   \* where each job is in its life
    tries    \* how often each job was taken

workVars == <<phase, tries>>

Phases == {"none", "ready", "running", "done", "dead", "stuck"}

WorkInit ==
    /\ phase = [j \in Jobs |-> "none"]
    /\ tries = [j \in Jobs |-> 0]

Submit(j) ==
    /\ phase[j] = "none"
    /\ phase' = [phase EXCEPT ![j] = "ready"]
    /\ UNCHANGED tries

\* The job is taken; its worker may be lost at once.
Start(j) ==
    /\ phase[j] = "ready"
    /\ \E q \in {"running", "stuck"} : phase' = [phase EXCEPT ![j] = q]
    /\ tries' = [tries EXCEPT ![j] = @ + 1]

\* The handler succeeded.
Finish(j) ==
    /\ phase[j] = "running"
    /\ phase' = [phase EXCEPT ![j] = "done"]
    /\ UNCHANGED tries

\* The handler failed: another attempt, or none.
GiveBack(j) ==
    /\ phase[j] = "running"
    /\ phase' = [phase EXCEPT ![j] = IF tries[j] < MaxAttempts THEN "ready" ELSE "dead"]
    /\ UNCHANGED tries

\* Workers disappear with the jobs they hold.
Abandon(J) ==
    /\ \A j \in J : phase[j] = "running"
    /\ phase' = [j \in Jobs |-> IF j \in J THEN "stuck" ELSE phase[j]]
    /\ UNCHANGED tries

WorkNext ==
    \/ \E j \in Jobs : Submit(j) \/ Start(j) \/ Finish(j) \/ GiveBack(j)
    \/ \E J \in SUBSET Jobs : Abandon(J)

WorkSpec == WorkInit /\ [][WorkNext]_workVars
=============================================================================
