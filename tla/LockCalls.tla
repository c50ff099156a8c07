----------------------------- MODULE LockCalls -----------------------------
(***************************************************************************)
(* What the lock implementations of pkg/database/redis and                 *)
(* pkg/database/cache have in common: clients that call a server, one      *)
(* command (script, statement) per call.  The request or its answer can be *)
(* lost; then the client library sends the command again, up to Retries    *)
(* times, or the call returns an error.                                    *)
(***************************************************************************)
EXTENDS Integers

CONSTANTS
    Clients,
    NoOne,
    Retries,     \* times the client library sends a command again
    MaxTime      \* bound on the clock

ASSUME CallsAssumption ==
    /\ NoOne \notin Clients
    /\ Retries \in Nat
    /\ MaxTime \in Nat

VARIABLES
    now,      \* the server's clock
    pc,       \* what each client is doing
    reply,    \* the server's answer that is on its way
    sent,     \* how often the current command was sent
    holds     \* the last lock call returned true, and no unlock was called since

callVars == <<now, pc, reply, sent, holds>>

CallTypes ==
    /\ now \in 0..MaxTime
    /\ pc \in [Clients -> {"idle", "lock", "unlock"}]
    /\ reply \in [Clients -> {"none", "yes", "no"}]
    /\ sent \in [Clients -> 0..(Retries + 1)]
    /\ holds \in [Clients -> BOOLEAN]

CallInit ==
    /\ now = 0
    /\ pc = [c \in Clients |-> "idle"]
    /\ reply = [c \in Clients |-> "none"]
    /\ sent = [c \in Clients |-> 0]
    /\ holds = [c \in Clients |-> FALSE]

Tick ==
    /\ now < MaxTime
    /\ now' = now + 1
    /\ UNCHANGED <<pc, reply, sent, holds>>

\* A client calls op; with "unlock" it gives up what it holds.
Call(c, op) ==
    /\ pc[c] = "idle"
    /\ pc' = [pc EXCEPT ![c] = op]
    /\ sent' = [sent EXCEPT ![c] = 1]
    /\ holds' = [holds EXCEPT ![c] = @ /\ op = "lock"]
    /\ UNCHANGED <<now, reply>>

\* The server executes the command of client c.
Executes(c, op) == pc[c] = op /\ reply[c] = "none"

Reply(c, r) ==
    /\ reply' = [reply EXCEPT ![c] = r]
    /\ UNCHANGED <<now, pc, sent, holds>>

Return(c) ==
    /\ pc' = [pc EXCEPT ![c] = "idle"]
    /\ reply' = [reply EXCEPT ![c] = "none"]
    /\ sent' = [sent EXCEPT ![c] = 0]
    /\ UNCHANGED now

Answer(c) ==
    /\ reply[c] # "none"
    /\ Return(c)
    /\ holds' = [holds EXCEPT ![c] = pc[c] = "lock" /\ reply[c] = "yes"]

Resends(c) == sent[c] <= Retries

\* The request, or its answer, is lost: it is sent again, or the call fails.
Resend(c) ==
    /\ pc[c] # "idle"
    /\ Resends(c)
    /\ sent' = [sent EXCEPT ![c] = @ + 1]
    /\ reply' = [reply EXCEPT ![c] = "none"]
    /\ UNCHANGED <<now, pc, holds>>

Fail(c) ==
    /\ pc[c] # "idle"
    /\ Return(c)
    /\ UNCHANGED holds
=============================================================================
