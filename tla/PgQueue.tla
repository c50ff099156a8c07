------------------------------ MODULE PgQueue ------------------------------
(***************************************************************************)
(* The PostgreSQL message queue of pkg/event/pgsql.go: the table           *)
(* event_queue, seen from one topic, and the client processes that share   *)
(* it.  A process runs one listener (listenAndProcess) and the workers the *)
(* listener starts; every SQL statement is one atomic step, or a failed    *)
(* one, or one that took effect although its caller saw an error.          *)
(***************************************************************************)
EXTENDS Integers, FiniteSets

CONSTANTS
    Procs,        \* client processes with a subscription
    Slots,        \* the semaphore's slots in each process: maxInFlight of them
    Jobs,         \* rows of the topic
    NoJob,
    MaxAttempts,  \* maxAttempts
    Faults,       \* whether statements and connections fail
    MaxCrashes    \* bound on the number of crashes

ASSUME PgAssumption ==
    /\ NoJob \notin Jobs
    /\ MaxAttempts \in Nat \ {0}
    /\ Faults \in BOOLEAN
    /\ MaxCrashes \in Nat
    /\ IsFiniteSet(Slots) /\ Slots # {}
    /\ IsFiniteSet(Jobs)

VARIABLES
    status,    \* event_queue.status of each row
    created,   \* event_queue.created_at: the rank of the row's transaction
    attempts,  \* event_queue.processing_attempts
    lst,       \* the listener's control
    tick,      \* ticker.C holds a tick
    started,   \* i in processAvailableJobs
    conn,      \* the listening connection works
    notes,     \* notifications the listening connection has not delivered
    life,      \* open, closing (ctx cancelled) or closed
    wpc, wjob, wtries,   \* a worker's control, and its job's ID and Attempts
    handled,   \* history: how often a handler succeeded with each row
    crashes    \* history: number of crashes

rowVars  == <<status, created, attempts>>
lstVars  == <<lst, tick, started, conn, notes>>
workVars == <<wpc, wjob, wtries>>
vars == <<rowVars, lstVars, workVars, life, handled, crashes>>

Workers == Procs \X Slots   \* a worker is known by its process and its slot
WorkersOf(p) == {p} \X Slots

Statuses == {"none", "inserting", "rolledback", "available", "locked", "failed", "deleted"}
MaxInFlight == Cardinality(Slots)

TypeOK ==
    /\ status \in [Jobs -> Statuses]
    /\ created \in [Jobs -> 0..Cardinality(Jobs)]
    /\ attempts \in [Jobs -> Nat]
    /\ lst \in [Procs -> {"off", "select", "wait", "fill", "returned"}]
    /\ tick \in [Procs -> BOOLEAN]
    /\ started \in [Procs -> 0..MaxInFlight]
    /\ conn \in [Procs -> BOOLEAN]
    /\ notes \in [Procs -> Nat]
    /\ life \in [Procs -> {"open", "closing", "closed"}]
    /\ wpc \in [Workers -> {"idle", "fetch", "handle", "delete", "release"}]
    /\ wjob \in [Workers -> Jobs \cup {NoJob}]
    /\ wtries \in [Workers -> Nat]
    /\ handled \in [Jobs -> Nat]
    /\ crashes \in 0..MaxCrashes

Init ==
    /\ status = [j \in Jobs |-> "none"]
    /\ created = [j \in Jobs |-> 0]
    /\ attempts = [j \in Jobs |-> 0]
    /\ lst = [p \in Procs |-> "off"]
    /\ tick = [p \in Procs |-> FALSE]
    /\ started = [p \in Procs |-> 0]
    /\ conn = [p \in Procs |-> TRUE]
    /\ notes = [p \in Procs |-> 0]
    /\ life = [p \in Procs |-> "open"]
    /\ wpc = [w \in Workers |-> "idle"]
    /\ wjob = [w \in Workers |-> NoJob]
    /\ wtries = [w \in Workers |-> 0]
    /\ handled = [j \in Jobs |-> 0]
    /\ crashes = 0

\* How a statement of process p may end.  With a cancelled context the caller
\* always sees an error, and a statement that was under way may have been executed.
Outcomes(p) ==
    (IF life[p] = "open" THEN {"ok"} ELSE {})
        \cup (IF Faults \/ life[p] # "open" THEN {"failed", "unknown"} ELSE {})

Executed(o) == o \in {"ok", "unknown"}

-----------------------------------------------------------------------------
(* Pub, one transaction; created_at is the time the transaction began *)

PubBegin(j) ==
    /\ status[j] = "none"
    /\ status' = [status EXCEPT ![j] = "inserting"]
    /\ created' = [created EXCEPT ![j] = Cardinality({k \in Jobs : created[k] > 0}) + 1]
    /\ UNCHANGED <<attempts, lstVars, workVars, life, handled, crashes>>

\* The connections on which the topic's LISTEN is in force.
Listening == {p \in Procs : lst[p] \in {"select", "wait", "fill"} /\ conn[p]}

PubCommit(j) ==
    /\ status[j] = "inserting"
    /\ status' = [status EXCEPT ![j] = "available"]
    /\ notes' = [p \in Procs |-> IF p \in Listening THEN notes[p] + 1 ELSE notes[p]]
    /\ UNCHANGED <<created, attempts, lst, tick, started, conn, workVars, life, handled,
                   crashes>>

PubRollback(j) ==
    /\ Faults
    /\ status[j] = "inserting"
    /\ status' = [status EXCEPT ![j] = "rolledback"]
    /\ UNCHANGED <<created, attempts, lstVars, workVars, life, handled, crashes>>

-----------------------------------------------------------------------------
(* Sub and listenAndProcess *)

\* Sub has returned nil to its caller even when Acquire or LISTEN fails.
Subscribe(p) ==
    /\ lst[p] = "off"
    /\ \E o \in Outcomes(p) :
         lst' = [lst EXCEPT ![p] = IF o = "ok" THEN "select" ELSE "returned"]
    /\ UNCHANGED <<rowVars, tick, started, conn, notes, workVars, life, handled, crashes>>

TickerFires(p) ==
    /\ lst[p] \in {"select", "wait", "fill"}
    /\ ~tick[p]
    /\ tick' = [tick EXCEPT ![p] = TRUE]
    /\ UNCHANGED <<rowVars, lst, started, conn, notes, workVars, life, handled, crashes>>

Select(p) ==
    /\ lst[p] = "select"
    /\ \/ /\ life[p] # "open"
          /\ lst' = [lst EXCEPT ![p] = "returned"]
          /\ UNCHANGED <<tick, started>>
       \/ /\ tick[p]
          /\ lst' = [lst EXCEPT ![p] = "fill"]
          /\ started' = [started EXCEPT ![p] = 0]
          /\ tick' = [tick EXCEPT ![p] = FALSE]
       \/ /\ ~tick[p]
          /\ life[p] = "open"
          /\ lst' = [lst EXCEPT ![p] = "wait"]
          /\ UNCHANGED <<tick, started>>
    /\ UNCHANGED <<rowVars, conn, notes, workVars, life, handled, crashes>>

\* WaitForNotification returns an error, and nil when there was a notification.
AfterNotification == "select"
WaitAgain == "wait"
AfterError == "fill"

\* "if notification != nil": jobs are processed when the wait ended in an error.
WaitReturns(p) ==
    /\ lst[p] = "wait"
    /\ \/ /\ conn[p]
          /\ notes[p] > 0
          /\ notes' = [notes EXCEPT ![p] = @ - 1]
          /\ lst' = [lst EXCEPT ![p] = AfterNotification]
       \/ /\ ~conn[p] \/ life[p] # "open"
          /\ lst' = [lst EXCEPT ![p] = AfterError]
          /\ UNCHANGED notes
    /\ started' = [started EXCEPT ![p] = 0]
    /\ UNCHANGED <<rowVars, tick, conn, workVars, life, handled, crashes>>

\* One iteration of processAvailableJobs: a free slot gets a worker, otherwise
\* all workers are busy.
Fill(p) ==
    /\ lst[p] = "fill"
    /\ \/ \E w \in WorkersOf(p) :
            /\ started[p] < MaxInFlight
            /\ wpc[w] = "idle"
            /\ wpc' = [wpc EXCEPT ![w] = "fetch"]
            /\ started' = [started EXCEPT ![p] = @ + 1]
            /\ UNCHANGED lst
       \/ /\ started[p] = MaxInFlight \/ \A w \in WorkersOf(p) : wpc[w] # "idle"
          /\ lst' = [lst EXCEPT ![p] = "select"]
          /\ UNCHANGED <<wpc, started>>
    /\ UNCHANGED <<rowVars, tick, conn, notes, wjob, wtries, life, handled, crashes>>

LoseConnection(p) ==
    /\ Faults
    /\ lst[p] \in {"select", "wait", "fill"}
    /\ conn[p]
    /\ conn' = [conn EXCEPT ![p] = FALSE]
    /\ notes' = [notes EXCEPT ![p] = 0]
    /\ UNCHANGED <<rowVars, lst, tick, started, workVars, life, handled, crashes>>

-----------------------------------------------------------------------------
(* A worker *)

\* The worker returns and frees its slot.
WorkerEnd(w) ==
    /\ wpc' = [wpc EXCEPT ![w] = "idle"]
    /\ wjob' = [wjob EXCEPT ![w] = NoJob]
    /\ wtries' = [wtries EXCEPT ![w] = 0]

\* WHERE status = 'available'
AnyStatus == {j \in Jobs : status[j] \in {"available", "locked"}}
Available == {j \in Jobs : status[j] = "available"}

\* fetchAndLockJob: the oldest available row, or none.
Fetch(w) ==
    /\ wpc[w] = "fetch"
    /\ \E o \in Outcomes(w[1]) :
         \/ /\ o = "failed" \/ Available = {}
            /\ WorkerEnd(w)
            /\ UNCHANGED <<status, attempts>>
         \/ \E j \in Available :
              /\ Executed(o)
              /\ \A k \in Available : created[j] <= created[k]
              /\ status' = [status EXCEPT ![j] = "locked"]
              /\ attempts' = [attempts EXCEPT ![j] = @ + 1]
              /\ \/ /\ o = "ok"
                    /\ wpc' = [wpc EXCEPT ![w] = "handle"]
                    /\ wjob' = [wjob EXCEPT ![w] = j]
                    /\ wtries' = [wtries EXCEPT ![w] = attempts[j] + 1]
                 \/ /\ o = "unknown"
                    /\ WorkerEnd(w)
    /\ UNCHANGED <<created, lstVars, life, handled, crashes>>

Handle(w) ==
    /\ wpc[w] = "handle"
    /\ \/ /\ wpc' = [wpc EXCEPT ![w] = "delete"]
          /\ handled' = [handled EXCEPT ![wjob[w]] = @ + 1]
       \/ /\ wpc' = [wpc EXCEPT ![w] = "release"]
          /\ UNCHANGED handled
    /\ UNCHANGED <<rowVars, lstVars, wjob, wtries, life, crashes>>

\* deleteJob; its error is only logged.
Delete(w) ==
    /\ wpc[w] = "delete"
    /\ \E o \in Outcomes(w[1]) :
         status' = IF Executed(o) THEN [status EXCEPT ![wjob[w]] = "deleted"] ELSE status
    /\ WorkerEnd(w)
    /\ UNCHANGED <<created, attempts, lstVars, life, handled, crashes>>

\* The status a job that failed gets after n attempts.
NeverGivenUp(n) == "available"
OneMoreAttempt(n) == IF n > MaxAttempts THEN "failed" ELSE "available"
UnknownStatus(n) == "pending"
StatusAfterFailure(n) == IF n >= MaxAttempts THEN "failed" ELSE "available"

\* releaseOrMarkFailed; its error is only logged.
ReleaseOrMarkFailed(w) ==
    /\ wpc[w] = "release"
    /\ \E o \in Outcomes(w[1]) :
         status' = IF Executed(o)
                     THEN [status EXCEPT ![wjob[w]] = StatusAfterFailure(wtries[w])]
                     ELSE status
    /\ WorkerEnd(w)
    /\ UNCHANGED <<created, attempts, lstVars, life, handled, crashes>>

-----------------------------------------------------------------------------
(* Close, crash and restart *)

CloseBegin(p) ==
    /\ life[p] = "open"
    /\ life' = [life EXCEPT ![p] = "closing"]
    /\ UNCHANGED <<rowVars, lstVars, workVars, handled, crashes>>

\* c.wg.Wait(): the listener and the workers have returned.
AllReturned(p) ==
    /\ lst[p] \in {"off", "returned"}
    /\ \A w \in WorkersOf(p) : wpc[w] = "idle"

CloseEnd(p) ==
    /\ life[p] = "closing"
    /\ AllReturned(p)
    /\ life' = [life EXCEPT ![p] = "closed"]
    /\ UNCHANGED <<rowVars, lstVars, workVars, handled, crashes>>

\* The process dies with its workers and comes back as a new one.
Crash(p) ==
    /\ crashes < MaxCrashes
    /\ crashes' = crashes + 1
    /\ lst' = [lst EXCEPT ![p] = "off"]
    /\ tick' = [tick EXCEPT ![p] = FALSE]
    /\ started' = [started EXCEPT ![p] = 0]
    /\ conn' = [conn EXCEPT ![p] = TRUE]
    /\ notes' = [notes EXCEPT ![p] = 0]
    /\ life' = [life EXCEPT ![p] = "open"]
    /\ wpc' = [w \in Workers |-> IF w[1] = p THEN "idle" ELSE wpc[w]]
    /\ wjob' = [w \in Workers |-> IF w[1] = p THEN NoJob ELSE wjob[w]]
    /\ wtries' = [w \in Workers |-> IF w[1] = p THEN 0 ELSE wtries[w]]
    /\ UNCHANGED <<rowVars, handled>>

-----------------------------------------------------------------------------
ListenerStep(p) == Select(p) \/ WaitReturns(p) \/ Fill(p)
WorkerStep(w) == Fetch(w) \/ Handle(w) \/ Delete(w) \/ ReleaseOrMarkFailed(w)

Next ==
    \/ \E j \in Jobs : PubBegin(j) \/ PubCommit(j) \/ PubRollback(j)
    \/ \E p \in Procs : \/ Subscribe(p) \/ TickerFires(p) \/ ListenerStep(p)
                        \/ LoseConnection(p) \/ CloseBegin(p) \/ CloseEnd(p) \/ Crash(p)
    \/ \E w \in Workers : WorkerStep(w)

Spec == Init /\ [][Next]_vars

\* Goroutines that can run do run, handlers return, tickers fire, and a select
\* with two ready cases takes each of them in the end.
Fairness ==
    /\ \A p \in Procs : /\ WF_vars(TickerFires(p))
                        /\ SF_vars(Select(p) /\ lst'[p] = "returned")
                        /\ WF_vars(ListenerStep(p))
                        /\ WF_vars(CloseEnd(p))
    /\ \A w \in Workers : WF_vars(WorkerStep(w))

LiveSpec == Spec /\ Fairness

-----------------------------------------------------------------------------
(* Properties *)

Holds(w, j) == wjob[w] = j

\* SKIP LOCKED and the status column keep a row in the hands of one worker at a
\* time, over all processes, crashes and statements whose outcome is unknown; and
\* as long as a worker has it, the row is there and locked.
OneWorkerPerJob ==
    \A j \in Jobs : \A v, w \in Workers :
        Holds(v, j) /\ Holds(w, j) => v = w /\ status[j] = "locked"

\* A message is handled successfully at most once: nothing puts a row back into
\* the queue once a handler has succeeded with it, not even a lost DELETE.
SucceedsAtMostOnce == \A j \in Jobs : handled[j] <= 1

\* A row is only deleted after a handler has succeeded with it, and only marked
\* failed after its last attempt; no row is taken more than MaxAttempts times.
EndsForAReason ==
    \A j \in Jobs : /\ status[j] = "deleted" => handled[j] = 1
                    /\ status[j] = "failed" => attempts[j] = MaxAttempts /\ handled[j] = 0
                    /\ attempts[j] <= MaxAttempts

\* A row ends once, and for a reason.
JobsEndWell == SucceedsAtMostOnce /\ EndsForAReason

\* Close returns: the listener and all workers come to an end, also those whose
\* statements fail because the context is cancelled.
CloseReturns ==
    \A p \in Procs : life[p] = "closing" ~> life[p] # "closing"

\* The table and the workers implement the abstract queue: a locked row without a
\* worker is one that nobody will ever work on again (locked_until is not read).
PhaseOf(j) ==
    CASE status[j] \in {"none", "inserting", "rolledback"} -> "none"
      [] status[j] = "available" -> "ready"
      [] status[j] = "locked" -> IF \E w \in Workers : Holds(w, j) THEN "running" ELSE "stuck"
      [] status[j] = "failed" -> "dead"
      [] status[j] = "deleted" -> "done"

WQ == INSTANCE WorkQueue WITH phase <- [j \in Jobs |-> PhaseOf(j)], tries <- attempts

ImplementsWorkQueue == WQ!WorkSpec

\* "Listen on the channel for notifications", with "Minimum poll interval" as the
\* fallback: a committed message is taken by a process that has subscribed.
MessageIsTaken ==
    \A j \in Jobs, p \in Procs :
        (status[j] = "available" /\ p \in Listening)
            ~> (status[j] # "available" \/ p \notin Listening)
=============================================================================
