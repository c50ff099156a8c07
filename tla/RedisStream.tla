---------------------------- MODULE RedisStream ----------------------------
(***************************************************************************)
(* The message queue of pkg/event/redis_stream.go: one stream, the         *)
(* publishers that append to it with retries, and the consumer goroutines  *)
(* of each group that read, handle, acknowledge and delete its entries.    *)
(* Every command is one atomic step of the server; its answer may be lost, *)
(* and then the client library may send the command again.                 *)
(***************************************************************************)
EXTENDS Integers, Sequences, FiniteSets

CONSTANTS
    Msgs,         \* calls of Pub
    Groups,       \* calls of Sub, each with a group of its own
    Ids,          \* the goroutines startConsumer starts for a group
    PubAttempts,  \* maxRetries
    Count,        \* the number of entries a read asks for
    MaxEntries,   \* bound on the length of the stream
    Faults,       \* whether commands fail
    MaxMishaps    \* bound on crashes of the process and losses of a group, together

ASSUME StreamAssumption ==
    /\ PubAttempts \in Nat \ {0}
    /\ Count \in Nat \ {0}
    /\ MaxEntries \in Nat
    /\ Faults \in BOOLEAN
    /\ MaxMishaps \in Nat

VARIABLES
    entries,  \* the message of every entry ever added, in order of the entries' IDs
    present,  \* IDs of the entries that are in the stream
    last,     \* each group's last delivered ID
    pel,      \* each group's pending entries
    ppc,      \* control of each Pub
    tries,    \* i in Pub
    sub,      \* control of each Sub, once its consumers run
    cpc,      \* control of each consumer
    batch,    \* IDs of the entries of its last read that it still has to process
    closed,   \* the client is closed
    calls,    \* history: how often each group's handler was called with an entry
    done,     \* history: entries each group's handler succeeded with
    trimmed,  \* history: entries CleanupStream removed
    losses,   \* history: how often each group was lost
    mishaps   \* history: number of crashes and losses of a group, together

streamVars == <<entries, present>>
groupVars  == <<last, pel>>
pubVars    == <<ppc, tries>>
subVars    == <<sub, cpc, batch>>
histVars   == <<calls, done, trimmed, losses, mishaps>>
vars == <<streamVars, groupVars, pubVars, subVars, closed, histVars>>

Consumers == Groups \X Ids
EntryIds == 1..MaxEntries
NoGroup == -1

\* The state is well typed, and a group knows only entries that were added.
TypeOK ==
    /\ entries \in Seq(Msgs) /\ Len(entries) <= MaxEntries
    /\ present \subseteq 1..Len(entries)
    /\ last \in [Groups -> NoGroup..Len(entries)]
    /\ pel \in [Groups -> SUBSET EntryIds] /\ \A g \in Groups : pel[g] \subseteq 1..last[g]
    /\ ppc \in [Msgs -> {"new", "add", "ok", "error", "lost"}]
    /\ tries \in [Msgs -> 0..(PubAttempts - 1)]
    /\ sub \in [Groups -> {"off", "waiting", "returned"}]
    /\ cpc \in [Consumers -> {"off", "read", "recreate", "handle", "ack", "del", "returned"}]
    /\ batch \in [Consumers -> Seq(EntryIds)]
    /\ closed \in BOOLEAN
    /\ calls \in [Groups -> [EntryIds -> Nat]]
    /\ done \in [Groups -> SUBSET EntryIds]
    /\ trimmed \subseteq EntryIds
    /\ losses \in [Groups -> 0..MaxMishaps]
    /\ mishaps \in 0..MaxMishaps

Init ==
    /\ entries = <<>>
    /\ present = {}
    /\ last = [g \in Groups |-> NoGroup]
    /\ pel = [g \in Groups |-> {}]
    /\ ppc = [m \in Msgs |-> "new"]
    /\ tries = [m \in Msgs |-> 0]
    /\ sub = [g \in Groups |-> "off"]
    /\ cpc = [c \in Consumers |-> "off"]
    /\ batch = [c \in Consumers |-> <<>>]
    /\ closed = FALSE
    /\ calls = [g \in Groups |-> [i \in EntryIds |-> 0]]
    /\ done = [g \in Groups |-> {}]
    /\ trimmed = {}
    /\ losses = [g \in Groups |-> 0]
    /\ mishaps = 0

\* How a command ends for its caller; "unknown" is one that was executed and whose
\* answer was lost.  A closed client sends nothing.
Outcomes ==
    IF closed THEN {"failed"}
    ELSE {"ok"} \cup (IF Faults THEN {"failed", "unknown"} ELSE {})

Executed(o) == o \in {"ok", "unknown"}

-----------------------------------------------------------------------------
(* Pub *)

Append1(m) ==
    /\ Len(entries) < MaxEntries
    /\ entries' = Append(entries, m)
    /\ present' = present \cup {Len(entries) + 1}

PubBegin(m) ==
    /\ ppc[m] = "new"
    /\ ppc' = [ppc EXCEPT ![m] = "add"]
    /\ UNCHANGED <<streamVars, groupVars, tries, subVars, closed, histVars>>

LastAttemptMissed(m) == tries[m] = PubAttempts
LastAttempt(m) == tries[m] = PubAttempts - 1

\* XADD, and another attempt after an error.
PubAdd(m) ==
    /\ ppc[m] = "add"
    /\ \E o \in Outcomes :
         /\ IF Executed(o) THEN Append1(m) ELSE UNCHANGED streamVars
         /\ \/ /\ o = "ok"
               /\ ppc' = [ppc EXCEPT ![m] = "ok"]
               /\ UNCHANGED tries
            \/ /\ o # "ok"
               /\ ~LastAttempt(m)
               /\ tries' = [tries EXCEPT ![m] = @ + 1]
               /\ UNCHANGED ppc
            \/ /\ o # "ok"
               /\ LastAttempt(m)
               /\ ppc' = [ppc EXCEPT ![m] = "error"]
               /\ UNCHANGED tries
    /\ UNCHANGED <<groupVars, subVars, closed, histVars>>

\* The answer is lost and the client library sends the XADD again.
PubAddRepeated(m) ==
    /\ ppc[m] = "add"
    /\ Faults /\ ~closed
    /\ Append1(m)
    /\ UNCHANGED <<groupVars, pubVars, subVars, closed, histVars>>

-----------------------------------------------------------------------------
(* Sub, createConsumerGroup and startConsumer *)

\* XGROUP CREATE ... 0 MKSTREAM; BUSYGROUP when the group exists.
FromTheStart == 0
CreateGroup(g, o) ==
    last' = IF Executed(o) /\ last[g] = NoGroup
              THEN [last EXCEPT ![g] = FromTheStart] ELSE last

\* An error of createConsumerGroup is only a warning.
Subscribe(g) ==
    /\ sub[g] = "off"
    /\ sub' = [sub EXCEPT ![g] = "waiting"]
    /\ cpc' = [c \in Consumers |-> IF c[1] = g THEN "read" ELSE cpc[c]]
    /\ \E o \in Outcomes : CreateGroup(g, o)
    /\ UNCHANGED <<streamVars, pel, pubVars, batch, closed, histVars>>

\* startConsumer returns for the first error, or for a signal; the consumers go on.
SubReturns(g) ==
    /\ sub[g] = "waiting"
    /\ sub' = [sub EXCEPT ![g] = "returned"]
    /\ UNCHANGED <<streamVars, groupVars, pubVars, cpc, batch, closed, histVars>>

-----------------------------------------------------------------------------
(* consume *)

\* The entries ">" stands for, and the first Count of them.
NewOrLast(g) == {i \in present : i >= last[g]}
New(g) == {i \in present : i > last[g]}
FirstOf(S) == {i \in S : Cardinality({k \in S : k <= i}) <= Count}
InOrder(S) == [n \in 1..Cardinality(S) |->
                 CHOOSE i \in S : Cardinality({k \in S : k <= i}) = n]

\* The server delivers new entries: they are pending from now on.
Deliver(g, S) ==
    /\ S # {}
    /\ last' = [last EXCEPT ![g] = CHOOSE i \in S : \A k \in S : k <= i]
    /\ pel' = [pel EXCEPT ![g] = @ \cup S]

\* XREADGROUP; without new entries it is sent again.
Read(c) ==
    LET g == c[1] IN
    /\ cpc[c] = "read"
    /\ \E o \in Outcomes :
         \/ /\ o # "failed" /\ last[g] = NoGroup
            /\ cpc' = [cpc EXCEPT ![c] = "recreate"]
            /\ UNCHANGED <<groupVars, batch>>
         \/ /\ o = "ok" /\ last[g] # NoGroup
            /\ Deliver(g, FirstOf(New(g)))
            /\ batch' = [batch EXCEPT ![c] = InOrder(FirstOf(New(g)))]
            /\ cpc' = [cpc EXCEPT ![c] = "handle"]
         \/ /\ o = "unknown" /\ last[g] # NoGroup
            /\ Deliver(g, FirstOf(New(g)))
            /\ cpc' = [cpc EXCEPT ![c] = "returned"]
            /\ UNCHANGED batch
         \/ /\ o = "failed"
            /\ cpc' = [cpc EXCEPT ![c] = "returned"]
            /\ UNCHANGED <<groupVars, batch>>
    /\ UNCHANGED <<streamVars, pubVars, sub, closed, histVars>>

\* The answer is lost and the client library sends the XREADGROUP again.
ReadRepeated(c) ==
    /\ cpc[c] = "read"
    /\ Faults /\ ~closed
    /\ last[c[1]] # NoGroup
    /\ Deliver(c[1], FirstOf(New(c[1])))
    /\ UNCHANGED <<streamVars, pubVars, subVars, closed, histVars>>

NeverRecreates(c, o) ==
    /\ cpc[c] = "recreate"
    /\ o \in Outcomes
    /\ cpc' = [cpc EXCEPT ![c] = "read"]
    /\ UNCHANGED <<streamVars, groupVars, pubVars, sub, batch, closed, histVars>>

\* NOGROUP
Recreate(c, o) ==
    /\ cpc[c] = "recreate"
    /\ o \in Outcomes
    /\ CreateGroup(c[1], o)
    /\ cpc' = [cpc EXCEPT ![c] = "read"]
    /\ UNCHANGED <<streamVars, pel, pubVars, sub, batch, closed, histVars>>

\* On to the next entry of the batch, or to the next read.
NextEntry(c) ==
    /\ batch' = [batch EXCEPT ![c] = Tail(@)]
    /\ cpc' = [cpc EXCEPT ![c] = IF Len(batch[c]) > 1 THEN "handle" ELSE "read"]

AckAnyway(c) == cpc' = [cpc EXCEPT ![c] = "ack"] /\ UNCHANGED batch
AfterFailure(c) == NextEntry(c)

Handle(c) ==
    LET g == c[1]  i == Head(batch[c]) IN
    /\ cpc[c] = "handle"
    /\ calls' = [calls EXCEPT ![g][i] = @ + 1]
    /\ \/ /\ done' = [done EXCEPT ![g] = @ \cup {i}]
          /\ cpc' = [cpc EXCEPT ![c] = "ack"]
          /\ UNCHANGED batch
       \/ /\ AfterFailure(c)
          /\ UNCHANGED done
    /\ UNCHANGED <<streamVars, groupVars, pubVars, sub, closed, trimmed, losses,
                   mishaps>>

\* XACK; its error is only logged, and the entry is deleted in any case.
Ack(c) ==
    /\ cpc[c] = "ack"
    /\ \E o \in Outcomes :
         pel' = IF Executed(o) THEN [pel EXCEPT ![c[1]] = @ \ {Head(batch[c])}] ELSE pel
    /\ cpc' = [cpc EXCEPT ![c] = "del"]
    /\ UNCHANGED <<streamVars, last, pubVars, sub, batch, closed, histVars>>

\* XDEL; its error is only logged.
Del(c) ==
    /\ cpc[c] = "del"
    /\ \E o \in Outcomes :
         present' = IF Executed(o) THEN present \ {Head(batch[c])} ELSE present
    /\ NextEntry(c)
    /\ UNCHANGED <<entries, groupVars, pubVars, sub, closed, histVars>>

-----------------------------------------------------------------------------
(* Close, CleanupStream, crashes and the loss of a group *)

Close ==
    /\ ~closed
    /\ closed' = TRUE
    /\ UNCHANGED <<streamVars, groupVars, pubVars, subVars, histVars>>

\* XTRIM MAXLEN 0
CleanupStream ==
    /\ ~closed
    /\ present # {}
    /\ trimmed' = trimmed \cup present
    /\ present' = {}
    /\ UNCHANGED <<entries, groupVars, pubVars, subVars, closed, calls, done, losses, mishaps>>

\* A group disappears from the server; NOGROUP is the code's answer to that.
LoseGroup(g) ==
    /\ mishaps < MaxMishaps
    /\ mishaps' = mishaps + 1
    /\ last[g] # NoGroup
    /\ last' = [last EXCEPT ![g] = NoGroup]
    /\ pel' = [pel EXCEPT ![g] = {}]
    /\ losses' = [losses EXCEPT ![g] = @ + 1]
    /\ UNCHANGED <<streamVars, pubVars, subVars, closed, calls, done, trimmed>>

\* The process dies, and its successor subscribes again.
Crash ==
    /\ mishaps < MaxMishaps
    /\ mishaps' = mishaps + 1
    /\ ppc' = [m \in Msgs |-> IF ppc[m] = "add" THEN "lost" ELSE ppc[m]]
    /\ sub' = [g \in Groups |-> "off"]
    /\ cpc' = [c \in Consumers |-> "off"]
    /\ batch' = [c \in Consumers |-> <<>>]
    /\ closed' = FALSE
    /\ UNCHANGED <<streamVars, groupVars, tries, calls, done, trimmed, losses>>

-----------------------------------------------------------------------------
ConsumerStep(c) ==
    \/ Read(c) \/ ReadRepeated(c)
    \/ \E o \in Outcomes : Recreate(c, o)
    \/ Handle(c) \/ Ack(c) \/ Del(c)

Next ==
    \/ \E m \in Msgs : PubBegin(m) \/ PubAdd(m) \/ PubAddRepeated(m)
    \/ \E g \in Groups : Subscribe(g) \/ SubReturns(g) \/ LoseGroup(g)
    \/ \E c \in Consumers : ConsumerStep(c)
    \/ Close \/ CleanupStream \/ Crash

Spec == Init /\ [][Next]_vars

\* Consumers that can run do run, their handlers return, and a group that is
\* created again and again is created in the end.
Fairness ==
    \A c \in Consumers : WF_vars(ConsumerStep(c)) /\ SF_vars(Recreate(c, "ok"))

LiveSpec == Spec /\ Fairness

-----------------------------------------------------------------------------
(* Properties *)

\* A group's handler is called at most once with an entry, over all consumers,
\* lost answers and crashes; only a group that was lost starts again from the
\* first entry that is left.
CalledOncePerGroup ==
    \A g \in Groups, i \in EntryIds : calls[g][i] <= 1 + losses[g]

\* A group does not leave an entry behind: one that is still in the stream and that
\* the group has passed was handled, or is pending.
NothingSkipped ==
    \A g \in Groups, i \in present : i <= last[g] => i \in pel[g] \cup done[g]

\* An entry disappears only because some group has handled it, or CleanupStream was
\* called: a failed handler, a lost answer or a crash does not delete anything.
DeletedWhenHandled ==
    \A i \in 1..Len(entries) :
        i \in present \cup trimmed \/ \E g \in Groups : i \in done[g]

\* As long as a consumer of a group lives, a new entry does not stay undelivered:
\* it is read, and every entry that was read gets to the handler (unless the
\* entry's delivery was an answer that got lost).
InSomeBatch(g, i) == \E c \in Consumers : c[1] = g /\ \E n \in 1..Len(batch[c]) : batch[c][n] = i
Alive(c) == cpc[c] \notin {"off", "returned"}

EntriesReachAHandler ==
    \A c \in Consumers, i \in EntryIds :
        (i \in New(c[1]) /\ Alive(c))
            ~> \/ i \notin present \/ ~Alive(c)
               \/ calls[c[1]][i] > 0
               \/ i \in pel[c[1]] /\ ~InSomeBatch(c[1], i)
=============================================================================
