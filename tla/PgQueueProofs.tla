--------------------------- MODULE PgQueueProofs ---------------------------
(***************************************************************************)
(* Safety of the PostgreSQL queue, proved for any number of processes,     *)
(* workers, rows and attempts, with and without failing statements: a row  *)
(* is in the hands of one worker, ends well, and the table with its        *)
(* workers implements WorkQueue.                                           *)
(***************************************************************************)
EXTENDS PgQueue, FiniteSetTheorems, TLAPS

-----------------------------------------------------------------------------
(* Types *)

\* A row that was not begun has no created_at.
NewRowsUndated == \A j \in Jobs : status[j] = "none" => created[j] = 0

TypeInv == TypeOK /\ NewRowsUndated

LEMMA SlotsCounted == MaxInFlight \in Nat /\ Cardinality(Jobs) \in Nat
  BY PgAssumption, FS_CardinalityType DEF MaxInFlight

\* The rank that PubBegin gives to a row is one of as many as there are rows.
LEMMA RankFits ==
  ASSUME TypeOK, NEW j \in Jobs, created[j] = 0
  PROVE  Cardinality({k \in Jobs : created[k] > 0}) + 1 \in 0..Cardinality(Jobs)
<1> DEFINE K == {k \in Jobs : created[k] > 0}
<1>1. IsFiniteSet(Jobs \ {j}) /\ Cardinality(Jobs \ {j}) = Cardinality(Jobs) - 1
  BY PgAssumption, FS_RemoveElement
<1>2. K \in SUBSET (Jobs \ {j})
  BY DEF TypeOK
<1>3. IsFiniteSet(K) /\ Cardinality(K) <= Cardinality(Jobs) - 1
  BY <1>1, <1>2, FS_Subset
<1>4. Cardinality(K) \in Nat
  BY <1>3, FS_CardinalityType
<1> HIDE DEF K
<1>5. Cardinality(K) + 1 \in 0..Cardinality(Jobs)
  BY <1>3, <1>4, SlotsCounted
<1> QED BY <1>5 DEF K

LEMMA TypeInit == Init => TypeInv
<1> SUFFICES ASSUME Init PROVE TypeInv
  OBVIOUS
<1>1. status \in [Jobs -> Statuses] /\ attempts \in [Jobs -> Nat] /\ handled \in [Jobs -> Nat]
  BY DEF Init, Statuses
<1>2. created \in [Jobs -> 0..Cardinality(Jobs)]
  BY SlotsCounted DEF Init
<1>3. /\ lst \in [Procs -> {"off", "select", "wait", "fill", "returned"}]
      /\ tick \in [Procs -> BOOLEAN] /\ conn \in [Procs -> BOOLEAN]
      /\ notes \in [Procs -> Nat]
      /\ life \in [Procs -> {"open", "closing", "closed"}]
  BY DEF Init
<1>4. started \in [Procs -> 0..MaxInFlight] /\ crashes \in 0..MaxCrashes
  BY SlotsCounted, PgAssumption DEF Init
<1>5. /\ wpc \in [Workers -> {"idle", "fetch", "handle", "delete", "release"}]
      /\ wjob \in [Workers -> Jobs \cup {NoJob}]
      /\ wtries \in [Workers -> Nat]
  BY DEF Init
<1>6. NewRowsUndated
  BY DEF Init, NewRowsUndated
<1> QED BY <1>1, <1>2, <1>3, <1>4, <1>5, <1>6 DEF TypeInv, TypeOK

\* Pub
LEMMA TypePub ==
  ASSUME TypeInv, NEW j \in Jobs, PubBegin(j) \/ PubCommit(j) \/ PubRollback(j)
  PROVE  TypeInv'
<1>1. CASE PubBegin(j)
  <2>1. created' \in [Jobs -> 0..Cardinality(Jobs)]
    BY <1>1, RankFits DEF PubBegin, TypeInv, TypeOK, NewRowsUndated
  <2>2. TypeOK'
    BY <1>1, <2>1 DEF PubBegin, TypeInv, TypeOK, Statuses, lstVars, workVars
  <2> QED BY <1>1, <2>2 DEF PubBegin, TypeInv, TypeOK, NewRowsUndated
<1>2. CASE PubCommit(j)
  <2>1. notes' \in [Procs -> Nat]
    BY <1>2 DEF PubCommit, TypeInv, TypeOK
  <2>2. TypeOK'
    BY <1>2, <2>1 DEF PubCommit, TypeInv, TypeOK, Statuses, workVars
  <2> QED BY <1>2, <2>2 DEF PubCommit, TypeInv, TypeOK, NewRowsUndated
<1>3. CASE PubRollback(j)
  BY <1>3 DEF PubRollback, TypeInv, TypeOK, Statuses, lstVars, workVars, NewRowsUndated
<1> QED BY <1>1, <1>2, <1>3

\* The listener, Close and the connection
LEMMA TypeListener ==
  ASSUME TypeInv, NEW p \in Procs,
         \/ Subscribe(p) \/ TickerFires(p) \/ Select(p) \/ WaitReturns(p)
         \/ LoseConnection(p) \/ CloseBegin(p) \/ CloseEnd(p)
  PROVE  TypeInv'
<1>1. UNCHANGED <<rowVars, workVars, handled, crashes>>
  BY DEF Subscribe, TickerFires, Select, WaitReturns, LoseConnection, CloseBegin, CloseEnd
<1>2. /\ lst' \in [Procs -> {"off", "select", "wait", "fill", "returned"}]
      /\ life' \in [Procs -> {"open", "closing", "closed"}]
  BY DEF Subscribe, TickerFires, Select, WaitReturns, LoseConnection, CloseBegin, CloseEnd,
     TypeInv, TypeOK, AfterNotification, AfterError, lstVars
<1>3. started' \in [Procs -> 0..MaxInFlight] /\ notes' \in [Procs -> Nat]
  BY SlotsCounted
     DEF Subscribe, TickerFires, Select, WaitReturns, LoseConnection, CloseBegin, CloseEnd,
     TypeInv, TypeOK, lstVars
<1>4. tick' \in [Procs -> BOOLEAN] /\ conn' \in [Procs -> BOOLEAN]
  BY DEF Subscribe, TickerFires, Select, WaitReturns, LoseConnection, CloseBegin, CloseEnd,
     TypeInv, TypeOK, lstVars
<1> QED BY <1>1, <1>2, <1>3, <1>4
           DEF TypeInv, TypeOK, NewRowsUndated, rowVars, workVars

LEMMA TypeFill ==
  ASSUME TypeInv, NEW p \in Procs, Fill(p)
  PROVE  TypeInv'
<1>1. /\ lst' \in [Procs -> {"off", "select", "wait", "fill", "returned"}]
      /\ started' \in [Procs -> 0..MaxInFlight]
      /\ wpc' \in [Workers -> {"idle", "fetch", "handle", "delete", "release"}]
  BY SlotsCounted DEF Fill, TypeInv, TypeOK
<1> QED BY <1>1 DEF Fill, TypeInv, TypeOK, NewRowsUndated, rowVars

LEMMA TypeCrash ==
  ASSUME TypeInv, NEW p \in Procs, Crash(p)
  PROVE  TypeInv'
<1>1. /\ wpc' \in [Workers -> {"idle", "fetch", "handle", "delete", "release"}]
      /\ wjob' \in [Workers -> Jobs \cup {NoJob}]
      /\ wtries' \in [Workers -> Nat]
  BY DEF Crash, TypeInv, TypeOK
<1>2. /\ lst' \in [Procs -> {"off", "select", "wait", "fill", "returned"}]
      /\ tick' \in [Procs -> BOOLEAN] /\ conn' \in [Procs -> BOOLEAN]
      /\ notes' \in [Procs -> Nat]
      /\ life' \in [Procs -> {"open", "closing", "closed"}]
  BY DEF Crash, TypeInv, TypeOK
<1>3. started' \in [Procs -> 0..MaxInFlight] /\ crashes' \in 0..MaxCrashes
  BY SlotsCounted, PgAssumption DEF Crash, TypeInv, TypeOK
<1> QED BY <1>1, <1>2, <1>3 DEF Crash, TypeInv, TypeOK, NewRowsUndated, rowVars

\* A worker
LEMMA TypeWorker ==
  ASSUME TypeInv, NEW w \in Workers, WorkerStep(w)
  PROVE  TypeInv'
<1>1. UNCHANGED <<created, lstVars, life, crashes>>
  BY DEF WorkerStep, Fetch, Handle, Delete, ReleaseOrMarkFailed, rowVars
<1>2. /\ wpc' \in [Workers -> {"idle", "fetch", "handle", "delete", "release"}]
      /\ wtries' \in [Workers -> Nat]
      /\ attempts' \in [Jobs -> Nat]
      /\ handled' \in [Jobs -> Nat]
  BY DEF WorkerStep, Fetch, Handle, Delete, ReleaseOrMarkFailed, WorkerEnd, Available,
     rowVars, TypeInv, TypeOK
<1>3. wjob' \in [Workers -> Jobs \cup {NoJob}]
  BY DEF WorkerStep, Fetch, Handle, Delete, ReleaseOrMarkFailed, WorkerEnd, Available,
     TypeInv, TypeOK
<1>4. /\ status' \in [Jobs -> Statuses]
      /\ \A j \in Jobs : status'[j] = "none" => status[j] = "none"
  BY DEF WorkerStep, Fetch, Handle, Delete, ReleaseOrMarkFailed, StatusAfterFailure,
     Available, rowVars, TypeInv, TypeOK, Statuses
<1> QED BY <1>1, <1>2, <1>3, <1>4 DEF TypeInv, TypeOK, NewRowsUndated, lstVars

LEMMA TypeStep == TypeInv /\ [Next]_vars => TypeInv'
<1> SUFFICES ASSUME TypeInv, [Next]_vars PROVE TypeInv'
  OBVIOUS
<1>1. CASE UNCHANGED vars
  BY <1>1 DEF vars, rowVars, lstVars, workVars, TypeInv, TypeOK, NewRowsUndated
<1>2. CASE Next
  BY <1>2, TypePub, TypeListener, TypeFill, TypeCrash, TypeWorker DEF Next, ListenerStep
<1> QED BY <1>1, <1>2

\* The queue keeps its state well typed: in particular a row's status is one that the
\* code knows, and a listener starts no more workers than there are slots.
THEOREM PgTypeCorrect == Spec => []TypeOK
<1>1. TypeInv => TypeOK
  BY DEF TypeInv
<1> QED BY <1>1, TypeInit, TypeStep, PTL DEF Spec

-----------------------------------------------------------------------------
(* Rows and workers *)

Working == {"handle", "delete", "release"}

\* A worker that has a row knows how often it was taken, and decides what becomes of
\* it by what its handler said.
WorkerKnowsItsJob ==
    \A w \in Workers :
        IF wpc[w] \in Working
          THEN /\ wjob[w] \in Jobs
               /\ wtries[w] = attempts[wjob[w]]
               /\ handled[wjob[w]] = IF wpc[w] = "delete" THEN 1 ELSE 0
          ELSE wjob[w] = NoJob

\* A row that can be taken, or that is given up, has no success; only locked rows
\* are in between.
NoSuccessYet ==
    \A j \in Jobs :
        /\ status[j] \notin {"locked", "deleted"} => handled[j] = 0
        /\ status[j] \in {"none", "inserting"} => attempts[j] = 0
        /\ status[j] = "available" => attempts[j] < MaxAttempts

\* The inductive invariant: that a row succeeds once rests on its one worker, and
\* that its attempts are bounded on what that worker counted when it took the row.
JobInv ==
    /\ TypeInv
    /\ OneWorkerPerJob
    /\ WorkerKnowsItsJob
    /\ NoSuccessYet
    /\ JobsEndWell

LEMMA JobInit == Init => JobInv
<1> SUFFICES ASSUME Init PROVE JobInv
  OBVIOUS
<1>1. OneWorkerPerJob /\ WorkerKnowsItsJob
  BY PgAssumption DEF Init, OneWorkerPerJob, Holds, WorkerKnowsItsJob, Working
<1>2. NoSuccessYet /\ JobsEndWell
  BY PgAssumption DEF Init, NoSuccessYet, JobsEndWell, SucceedsAtMostOnce, EndsForAReason
<1> QED BY <1>1, <1>2, TypeInit DEF JobInv

\* Steps that leave the rows, and the workers that have one, alone.
LEMMA JobSame ==
  ASSUME JobInv, TypeInv', UNCHANGED <<status, attempts, handled, wjob, wtries>>,
         \A w \in Workers : wpc'[w] = wpc[w] \/ {wpc[w], wpc'[w]} \cap Working = {}
  PROVE  JobInv'
<1>1. OneWorkerPerJob' /\ NoSuccessYet' /\ JobsEndWell'
  BY DEF JobInv, OneWorkerPerJob, Holds, NoSuccessYet, JobsEndWell, SucceedsAtMostOnce,
     EndsForAReason
<1>2. WorkerKnowsItsJob'
  <2> SUFFICES ASSUME NEW w \in Workers
               PROVE  IF wpc'[w] \in Working
                        THEN /\ wjob[w] \in Jobs
                             /\ wtries[w] = attempts[wjob[w]]
                             /\ handled[wjob[w]] = IF wpc'[w] = "delete" THEN 1 ELSE 0
                        ELSE wjob[w] = NoJob
    BY DEF WorkerKnowsItsJob
  <2>1. wpc'[w] = wpc[w] \/ (wpc[w] \notin Working /\ wpc'[w] \notin Working)
    OBVIOUS
  <2> QED BY <2>1 DEF JobInv, WorkerKnowsItsJob, Working
<1> QED BY <1>1, <1>2 DEF JobInv

\* The publisher's steps, which concern a row that no worker has.
LEMMA JobPub ==
  ASSUME JobInv, TypeInv', NEW j \in Jobs, PubBegin(j) \/ PubCommit(j) \/ PubRollback(j)
  PROVE  JobInv'
<1>1. /\ UNCHANGED <<attempts, handled, workVars>>
      /\ status[j] \in {"none", "inserting"}
      /\ \E q \in {"inserting", "rolledback", "available"} :
            /\ status' = [status EXCEPT ![j] = q]
            /\ q = "inserting" => status[j] = "none"
  BY DEF PubBegin, PubCommit, PubRollback
<1>2. \A w \in Workers : wjob[w] # j
  BY <1>1 DEF JobInv, OneWorkerPerJob, Holds
<1>3. OneWorkerPerJob' /\ WorkerKnowsItsJob'
  BY <1>1, <1>2 DEF JobInv, TypeInv, TypeOK, OneWorkerPerJob, Holds, WorkerKnowsItsJob, workVars
<1>4. NoSuccessYet' /\ JobsEndWell'
  BY <1>1, PgAssumption DEF JobInv, TypeInv, TypeOK, NoSuccessYet, JobsEndWell, SucceedsAtMostOnce,
     EndsForAReason
<1> QED BY <1>3, <1>4 DEF JobInv

LEMMA JobCrash ==
  ASSUME JobInv, TypeInv', NEW p \in Procs, Crash(p)
  PROVE  JobInv'
<1>1. /\ UNCHANGED <<status, attempts, handled>>
      /\ \A w \in Workers :
            IF w[1] = p THEN wjob'[w] = NoJob /\ wpc'[w] = "idle"
            ELSE wjob'[w] = wjob[w] /\ wpc'[w] = wpc[w] /\ wtries'[w] = wtries[w]
  BY DEF Crash, rowVars
<1>2. OneWorkerPerJob' /\ WorkerKnowsItsJob'
  BY <1>1, PgAssumption DEF JobInv, OneWorkerPerJob, Holds, WorkerKnowsItsJob, Working
<1>3. NoSuccessYet' /\ JobsEndWell'
  BY <1>1 DEF JobInv, NoSuccessYet, JobsEndWell, SucceedsAtMostOnce, EndsForAReason
<1> QED BY <1>2, <1>3 DEF JobInv

\* A worker returns: its row, if it has one, has nobody else.
LEMMA WorkerLeaves ==
  ASSUME JobInv, NEW w \in Workers, WorkerEnd(w)
  PROVE  /\ wpc'[w] = "idle" /\ wjob'[w] = NoJob
         /\ \A v \in Workers \ {w} : wpc'[v] = wpc[v] /\ wjob'[v] = wjob[v] /\ wtries'[v] = wtries[v]
         /\ \A v \in Workers \ {w} : wjob[w] \in Jobs => wjob[v] # wjob[w]
  BY DEF WorkerEnd, JobInv, TypeInv, TypeOK, OneWorkerPerJob, Holds

LEMMA JobFetch ==
  ASSUME JobInv, TypeInv', NEW w \in Workers, Fetch(w)
  PROVE  JobInv'
<1>1. wpc[w] = "fetch" /\ wjob[w] = NoJob /\ UNCHANGED handled
  BY DEF Fetch, JobInv, WorkerKnowsItsJob, Working
<1>2. CASE WorkerEnd(w) /\ UNCHANGED <<status, attempts>>
  <2>0. /\ wpc'[w] = "idle" /\ wjob'[w] = NoJob
        /\ \A v \in Workers \ {w} : /\ wpc'[v] = wpc[v] /\ wjob'[v] = wjob[v]
                                     /\ wtries'[v] = wtries[v]
    BY <1>2, WorkerLeaves
  <2>1. OneWorkerPerJob' /\ WorkerKnowsItsJob'
    BY <1>1, <1>2, <2>0, PgAssumption
       DEF JobInv, OneWorkerPerJob, Holds, WorkerKnowsItsJob, Working
  <2> QED BY <1>1, <1>2, <2>1
             DEF JobInv, NoSuccessYet, JobsEndWell, SucceedsAtMostOnce, EndsForAReason
<1>3. ASSUME NEW j \in Available,
             status' = [status EXCEPT ![j] = "locked"],
             attempts' = [attempts EXCEPT ![j] = @ + 1],
             \/ /\ wpc' = [wpc EXCEPT ![w] = "handle"]
                /\ wjob' = [wjob EXCEPT ![w] = j]
                /\ wtries' = [wtries EXCEPT ![w] = attempts[j] + 1]
             \/ WorkerEnd(w)
      PROVE  JobInv'
  <2>1. /\ j \in Jobs /\ status[j] = "available" /\ handled[j] = 0
        /\ attempts[j] < MaxAttempts /\ attempts[j] \in Nat
        /\ status'[j] = "locked" /\ attempts'[j] = attempts[j] + 1
        /\ \A k \in Jobs \ {j} : status'[k] = status[k] /\ attempts'[k] = attempts[k]
    BY <1>3 DEF Available, JobInv, TypeInv, TypeOK, NoSuccessYet
  <2>2. \A v \in Workers : wjob[v] # j
    BY <2>1 DEF JobInv, OneWorkerPerJob, Holds
  <2>3. NoSuccessYet' /\ JobsEndWell'
    BY <1>1, <2>1, PgAssumption
       DEF JobInv, NoSuccessYet, JobsEndWell, SucceedsAtMostOnce, EndsForAReason
  <2>4. CASE WorkerEnd(w)
    <3>1. /\ wpc'[w] = "idle" /\ wjob'[w] = NoJob
          /\ \A v \in Workers \ {w} : /\ wpc'[v] = wpc[v] /\ wjob'[v] = wjob[v]
                                       /\ wtries'[v] = wtries[v]
      BY <2>4, WorkerLeaves
    <3>2. OneWorkerPerJob' /\ WorkerKnowsItsJob'
      BY <1>1, <2>1, <2>2, <3>1, PgAssumption
         DEF JobInv, OneWorkerPerJob, Holds, WorkerKnowsItsJob, Working
    <3> QED BY <2>3, <3>2 DEF JobInv
  <2>5. CASE /\ wpc' = [wpc EXCEPT ![w] = "handle"]
             /\ wjob' = [wjob EXCEPT ![w] = j]
             /\ wtries' = [wtries EXCEPT ![w] = attempts[j] + 1]
    <3>1. /\ wpc'[w] = "handle" /\ wjob'[w] = j /\ wtries'[w] = attempts'[j]
          /\ \A v \in Workers \ {w} : wpc'[v] = wpc[v] /\ wjob'[v] = wjob[v]
                                       /\ wtries'[v] = wtries[v]
      BY <2>1, <2>5 DEF JobInv, TypeInv, TypeOK
    <3>2. OneWorkerPerJob'
      BY <2>1, <2>2, <3>1 DEF JobInv, OneWorkerPerJob, Holds
    <3>3. WorkerKnowsItsJob'
      BY <1>1, <2>1, <2>2, <3>1 DEF JobInv, WorkerKnowsItsJob, Working
    <3> QED BY <2>3, <3>2, <3>3 DEF JobInv
  <2> QED BY <1>3, <2>4, <2>5
<1> QED BY <1>2, <1>3 DEF Fetch

LEMMA JobHandle ==
  ASSUME JobInv, TypeInv', NEW w \in Workers, Handle(w)
  PROVE  JobInv'
<1> DEFINE j == wjob[w]
<1>1. /\ j \in Jobs /\ status[j] = "locked" /\ handled[j] = 0 /\ wtries[w] = attempts[j]
      /\ UNCHANGED <<status, attempts, wjob, wtries>>
      /\ \A v \in Workers \ {w} : wjob[v] # j
  BY DEF Handle, JobInv, OneWorkerPerJob, Holds, WorkerKnowsItsJob, Working, rowVars
<1>2. /\ \A v \in Workers \ {w} : wpc'[v] = wpc[v]
      /\ \A k \in Jobs \ {j} : handled'[k] = handled[k]
      /\ \/ wpc'[w] = "delete" /\ handled'[j] = 1
         \/ wpc'[w] = "release" /\ handled'[j] = 0
  BY <1>1 DEF Handle, JobInv, TypeInv, TypeOK
<1> HIDE DEF j
<1>3. OneWorkerPerJob'
  BY <1>1 DEF JobInv, OneWorkerPerJob, Holds
<1>4. WorkerKnowsItsJob'
  BY <1>1, <1>2 DEF JobInv, WorkerKnowsItsJob, Working, j
<1>5. NoSuccessYet' /\ JobsEndWell'
  BY <1>1, <1>2
     DEF JobInv, NoSuccessYet, JobsEndWell, SucceedsAtMostOnce, EndsForAReason
<1> QED BY <1>3, <1>4, <1>5 DEF JobInv

\* deleteJob and releaseOrMarkFailed: the row's fate agrees with its handler's answer.
LEMMA JobSettle ==
  ASSUME JobInv, TypeInv', NEW w \in Workers, Delete(w) \/ ReleaseOrMarkFailed(w)
  PROVE  JobInv'
<1> DEFINE j == wjob[w]
<1>1. /\ wpc[w] \in {"delete", "release"}
      /\ j \in Jobs /\ status[j] = "locked" /\ wtries[w] = attempts[j]
      /\ attempts[j] \in Nat /\ attempts[j] <= MaxAttempts
      /\ handled[j] = IF wpc[w] = "delete" THEN 1 ELSE 0
      /\ UNCHANGED <<attempts, handled>>
      /\ WorkerEnd(w)
  BY DEF Delete, ReleaseOrMarkFailed, JobInv, TypeInv, TypeOK, OneWorkerPerJob, Holds,
     WorkerKnowsItsJob, Working, JobsEndWell, EndsForAReason
<1>2. /\ \A k \in Jobs \ {j} : status'[k] = status[k]
      /\ \/ status'[j] = "locked"
         \/ status'[j] = "deleted" /\ handled[j] = 1
         \/ status'[j] = "failed" /\ handled[j] = 0 /\ attempts[j] = MaxAttempts
         \/ status'[j] = "available" /\ handled[j] = 0 /\ attempts[j] < MaxAttempts
  <2>1. status \in [Jobs -> Statuses] /\ MaxAttempts \in Nat
    BY PgAssumption DEF JobInv, TypeInv, TypeOK
  <2>2. CASE Delete(w)
    <3>1. wpc[w] = "delete" /\ (status' = status \/ status' = [status EXCEPT ![j] = "deleted"])
      BY <2>2 DEF Delete
    <3> QED BY <1>1, <2>1, <3>1
  <2>3. CASE ReleaseOrMarkFailed(w)
    <3>1. /\ wpc[w] = "release"
          /\ \/ status' = status
             \/ status' = [status EXCEPT ![j] = StatusAfterFailure(wtries[w])]
      BY <2>3 DEF ReleaseOrMarkFailed
    <3>2. StatusAfterFailure(wtries[w]) = IF attempts[j] = MaxAttempts THEN "failed" ELSE "available"
      BY <1>1, <2>1 DEF StatusAfterFailure
    <3> QED BY <1>1, <2>1, <3>1, <3>2
  <2> QED BY <2>2, <2>3
<1>3. /\ wpc'[w] = "idle" /\ wjob'[w] = NoJob
      /\ \A v \in Workers \ {w} : /\ wpc'[v] = wpc[v] /\ wjob'[v] = wjob[v]
                                   /\ wtries'[v] = wtries[v] /\ wjob[v] # j
  <2>1. wjob[w] \in Jobs /\ WorkerEnd(w)
    BY <1>1
  <2> QED BY <2>1, WorkerLeaves
<1> HIDE DEF j
<1>4. OneWorkerPerJob' /\ WorkerKnowsItsJob'
  BY <1>1, <1>2, <1>3, PgAssumption
     DEF JobInv, OneWorkerPerJob, Holds, WorkerKnowsItsJob, Working
<1>5. NoSuccessYet' /\ JobsEndWell'
  BY <1>1, <1>2
     DEF JobInv, NoSuccessYet, JobsEndWell, SucceedsAtMostOnce, EndsForAReason
<1> QED BY <1>4, <1>5 DEF JobInv

\* The listener starts a worker, which has no row yet.
LEMMA JobListener ==
  ASSUME JobInv, TypeInv', NEW p \in Procs,
         \/ Subscribe(p) \/ TickerFires(p) \/ ListenerStep(p)
         \/ LoseConnection(p) \/ CloseBegin(p) \/ CloseEnd(p)
  PROVE  JobInv'
<1>1. UNCHANGED <<status, attempts, handled, wjob, wtries>>
  BY DEF Subscribe, TickerFires, ListenerStep, Select, WaitReturns, Fill, LoseConnection,
     CloseBegin, CloseEnd, rowVars, workVars
<1>2. \A w \in Workers : wpc'[w] = wpc[w] \/ {wpc[w], wpc'[w]} \cap Working = {}
  BY DEF Subscribe, TickerFires, ListenerStep, Select, WaitReturns, Fill, LoseConnection,
     CloseBegin, CloseEnd, rowVars, workVars, Working, JobInv, TypeInv, TypeOK
<1> QED BY <1>1, <1>2, JobSame

LEMMA JobStep == JobInv /\ [Next]_vars => JobInv'
<1> SUFFICES ASSUME JobInv, [Next]_vars PROVE JobInv'
  OBVIOUS
<1>1. TypeInv'
  BY TypeStep DEF JobInv
<1>2. CASE UNCHANGED vars
  BY <1>1, <1>2, JobSame DEF vars, rowVars, workVars
<1>3. CASE Next
  BY <1>1, <1>3, JobPub, JobListener, JobCrash, JobFetch, JobHandle, JobSettle
     DEF Next, WorkerStep
<1> QED BY <1>2, <1>3

\* Over all processes, crashes and statements with an unknown outcome, a row is in the
\* hands of one worker at a time, and stays locked as long as that worker has it.
THEOREM RowsHaveOneWorker == Spec => []OneWorkerPerJob
<1>1. JobInv => OneWorkerPerJob
  BY DEF JobInv
<1> QED BY <1>1, JobInit, JobStep, PTL DEF Spec

\* A handler succeeds at most once with a row, which is only deleted after that, and
\* only given up after its last attempt.
THEOREM RowsEndWell == Spec => []JobsEndWell
<1>1. JobInv => JobsEndWell
  BY DEF JobInv
<1> QED BY <1>1, JobInit, JobStep, PTL DEF Spec

-----------------------------------------------------------------------------
(* The table and the workers implement WorkQueue *)

Taken(j) == \E w \in Workers : Holds(w, j)
Phase == [j \in Jobs |-> PhaseOf(j)]

\* What the phase of a row says of it, and the other way round.
LEMMA PhaseByStatus ==
  ASSUME NEW j \in Jobs
  PROVE  /\ status[j] \in {"none", "inserting", "rolledback"} => PhaseOf(j) = "none"
         /\ status[j] = "available" => PhaseOf(j) = "ready"
         /\ status[j] = "locked" /\ Taken(j) => PhaseOf(j) = "running"
         /\ status[j] = "locked" /\ ~Taken(j) => PhaseOf(j) = "stuck"
         /\ status[j] = "failed" => PhaseOf(j) = "dead"
         /\ status[j] = "deleted" => PhaseOf(j) = "done"
  BY DEF PhaseOf, Taken

\* The same of the next state.
LEMMA NextPhaseByStatus ==
  ASSUME NEW j \in Jobs
  PROVE  /\ status'[j] \in {"none", "inserting", "rolledback"} => PhaseOf(j)' = "none"
         /\ status'[j] = "available" => PhaseOf(j)' = "ready"
         /\ status'[j] = "locked" /\ Taken(j)' => PhaseOf(j)' = "running"
         /\ status'[j] = "locked" /\ ~Taken(j)' => PhaseOf(j)' = "stuck"
         /\ status'[j] = "failed" => PhaseOf(j)' = "dead"
         /\ status'[j] = "deleted" => PhaseOf(j)' = "done"
  BY DEF PhaseOf, Taken, Holds

\* A row whose status, and whose being held, stays the same stays in its phase.
LEMMA SamePhase ==
  ASSUME NEW j \in Jobs, status'[j] = status[j], Taken(j)' <=> Taken(j)
  PROVE  PhaseOf(j)' = PhaseOf(j)
  BY DEF PhaseOf, Taken, Holds

\* Steps that change no row and take none away from a worker stutter.
LEMMA WorkStutters ==
  ASSUME UNCHANGED <<status, attempts, wjob>>
  PROVE  UNCHANGED WQ!workVars
<1>1. \A j \in Jobs : PhaseOf(j)' = PhaseOf(j)
  BY SamePhase DEF Taken, Holds
<1> QED BY <1>1 DEF WQ!workVars

\* One row moves from one phase to another.
LEMMA OneRowMoves ==
  ASSUME NEW j \in Jobs, NEW q, PhaseOf(j)' = q,
         \A k \in Jobs \ {j} : PhaseOf(k)' = PhaseOf(k)
  PROVE  Phase' = [Phase EXCEPT ![j] = q]
  BY DEF Phase

LEMMA WorkPub ==
  ASSUME JobInv, NEW j \in Jobs, PubBegin(j) \/ PubCommit(j) \/ PubRollback(j)
  PROVE  [WQ!WorkNext]_(WQ!workVars)
<1>1. /\ status[j] \in {"none", "inserting"} /\ UNCHANGED <<attempts, wjob>>
      /\ \A k \in Jobs \ {j} : status'[k] = status[k]
      /\ \/ PubCommit(j) /\ status'[j] = "available"
         \/ status'[j] \in {"inserting", "rolledback"}
  BY DEF PubBegin, PubCommit, PubRollback, workVars, JobInv, TypeInv, TypeOK
<1>2. PhaseOf(j) = "none" /\ \A k \in Jobs \ {j} : PhaseOf(k)' = PhaseOf(k)
  BY <1>1, PhaseByStatus, SamePhase DEF Taken, Holds
<1>3. CASE status'[j] = "available"
  <2>1. Phase' = [Phase EXCEPT ![j] = "ready"]
    BY <1>2, <1>3, NextPhaseByStatus, OneRowMoves
  <2>2. WQ!Submit(j)
    BY <1>1, <1>2, <2>1 DEF WQ!Submit, Phase
  <2> QED BY <2>2 DEF WQ!WorkNext
<1>4. CASE status'[j] \in {"inserting", "rolledback"}
  <2>1. \A k \in Jobs : PhaseOf(k)' = PhaseOf(k)
    BY <1>2, <1>4, NextPhaseByStatus
  <2> QED BY <1>1, <2>1 DEF WQ!workVars
<1> QED BY <1>1, <1>3, <1>4

LEMMA WorkFetch ==
  ASSUME JobInv, NEW w \in Workers, Fetch(w)
  PROVE  [WQ!WorkNext]_(WQ!workVars)
<1>1. wjob[w] = NoJob
  BY DEF Fetch, JobInv, WorkerKnowsItsJob, Working
<1>2. CASE WorkerEnd(w) /\ UNCHANGED <<status, attempts>>
  <2>1. wjob' = wjob
    BY <1>1, <1>2 DEF WorkerEnd, JobInv, TypeInv, TypeOK
  <2> QED BY <1>2, <2>1, WorkStutters
<1>3. ASSUME NEW j \in Available,
             status' = [status EXCEPT ![j] = "locked"],
             attempts' = [attempts EXCEPT ![j] = @ + 1],
             wjob' = [wjob EXCEPT ![w] = j] \/ wjob' = [wjob EXCEPT ![w] = NoJob]
      PROVE  [WQ!WorkNext]_(WQ!workVars)
  <2>1. /\ j \in Jobs /\ status[j] = "available" /\ status'[j] = "locked"
        /\ \A k \in Jobs \ {j} : status'[k] = status[k]
    BY <1>3 DEF Available, JobInv, TypeInv, TypeOK
  <2>2. \A k \in Jobs \ {j} : Taken(k)' <=> Taken(k)
    BY <1>1, <1>3, PgAssumption DEF Taken, Holds, JobInv, TypeInv, TypeOK
  <2>3. PhaseOf(j) = "ready" /\ \A k \in Jobs \ {j} : PhaseOf(k)' = PhaseOf(k)
    BY <2>1, <2>2, PhaseByStatus, SamePhase
  <2>4. PhaseOf(j)' \in {"running", "stuck"}
    BY <2>1, NextPhaseByStatus
  <2>5. Phase' = [Phase EXCEPT ![j] = PhaseOf(j)']
    BY <2>1, <2>3, OneRowMoves
  <2>6. WQ!Start(j)
    BY <1>3, <2>1, <2>3, <2>4, <2>5 DEF WQ!Start, Phase
  <2> QED BY <2>1, <2>6 DEF WQ!WorkNext
<1> QED BY <1>2, <1>3 DEF Fetch, WorkerEnd

\* A worker that settles its row: the row is finished, given back, given up, or,
\* when the statement failed, abandoned.
LEMMA WorkSettle ==
  ASSUME JobInv, NEW w \in Workers, Delete(w) \/ ReleaseOrMarkFailed(w)
  PROVE  [WQ!WorkNext]_(WQ!workVars)
<1>0. wjob[w] \in Jobs
  BY DEF Delete, ReleaseOrMarkFailed, JobInv, WorkerKnowsItsJob, Working
<1> PICK j \in Jobs : j = wjob[w]
  BY <1>0
<1>1. /\ status[j] = "locked" /\ wtries[w] = attempts[j] /\ attempts[j] \in Nat
      /\ WorkerEnd(w) /\ attempts' = attempts
  BY DEF Delete, ReleaseOrMarkFailed, JobInv, TypeInv, TypeOK, OneWorkerPerJob, Holds,
     WorkerKnowsItsJob, Working
<1>2. /\ \A k \in Jobs \ {j} : status'[k] = status[k]
      /\ \/ status'[j] = "locked"
         \/ status'[j] = "deleted"
         \/ status'[j] = "failed" /\ attempts[j] >= MaxAttempts
         \/ status'[j] = "available" /\ attempts[j] < MaxAttempts
  BY <1>1, PgAssumption
     DEF Delete, ReleaseOrMarkFailed, StatusAfterFailure, JobInv, TypeInv, TypeOK
<1>3. /\ Taken(j) /\ ~Taken(j)'
      /\ \A k \in Jobs \ {j} : Taken(k)' <=> Taken(k)
  <2>1. wjob' = [wjob EXCEPT ![w] = NoJob]
    BY <1>1 DEF WorkerEnd
  <2>2. \A v \in Workers \ {w} : wjob[v] # j /\ wjob'[v] = wjob[v]
    BY <1>1, <2>1 DEF JobInv, TypeInv, TypeOK, OneWorkerPerJob, Holds
  <2>3. wjob'[w] = NoJob
    BY <2>1 DEF JobInv, TypeInv, TypeOK
  <2> QED BY <2>2, <2>3, PgAssumption DEF Taken, Holds
<1>4. PhaseOf(j) = "running" /\ \A k \in Jobs \ {j} : PhaseOf(k)' = PhaseOf(k)
  BY <1>1, <1>2, <1>3, PhaseByStatus, SamePhase
<1>5. Phase' = [Phase EXCEPT ![j] = PhaseOf(j)'] /\ Phase[j] = "running"
  BY <1>1, <1>4, OneRowMoves DEF Phase
<1>6. CASE status'[j] = "locked"
  <2>1. PhaseOf(j)' = "stuck"
    BY <1>1, <1>3, <1>6, NextPhaseByStatus
  <2>2. Phase' = [k \in Jobs |-> IF k \in {j} THEN "stuck" ELSE Phase[k]]
    BY <1>4, <2>1 DEF Phase
  <2>3. WQ!Abandon({j})
    BY <1>1, <1>5, <2>2 DEF WQ!Abandon, Phase
  <2> QED BY <1>1, <2>3 DEF WQ!WorkNext
<1>7. CASE status'[j] = "deleted"
  <2>1. PhaseOf(j)' = "done"
    BY <1>1, <1>7, NextPhaseByStatus
  <2>2. WQ!Finish(j)
    BY <1>1, <1>5, <2>1 DEF WQ!Finish, Phase
  <2> QED BY <1>1, <2>2 DEF WQ!WorkNext
<1>8. CASE \/ status'[j] = "failed" /\ attempts[j] >= MaxAttempts
           \/ status'[j] = "available" /\ attempts[j] < MaxAttempts
  <2>1. PhaseOf(j)' = IF attempts[j] < MaxAttempts THEN "ready" ELSE "dead"
    BY <1>1, <1>8, NextPhaseByStatus, PgAssumption
  <2>2. WQ!GiveBack(j)
    BY <1>1, <1>5, <2>1 DEF WQ!GiveBack, Phase
  <2> QED BY <1>1, <2>2 DEF WQ!WorkNext
<1> QED BY <1>2, <1>6, <1>7, <1>8

\* A process that crashes abandons the rows of its workers.
LEMMA WorkCrash ==
  ASSUME JobInv, NEW p \in Procs, Crash(p)
  PROVE  [WQ!WorkNext]_(WQ!workVars)
<1> DEFINE J == {j \in Jobs : \E w \in Workers : w[1] = p /\ wjob[w] = j}
<1>1. /\ UNCHANGED <<status, attempts>>
      /\ \A w \in Workers : wjob'[w] = IF w[1] = p THEN NoJob ELSE wjob[w]
  BY DEF Crash, rowVars
<1>2. ASSUME NEW j \in J
      PROVE  PhaseOf(j) = "running" /\ PhaseOf(j)' = "stuck"
  <2>1. PICK w \in Workers : w[1] = p /\ wjob[w] = j
    OBVIOUS
  <2>2. j \in Jobs /\ status[j] = "locked" /\ Taken(j)
    BY <2>1 DEF JobInv, OneWorkerPerJob, Holds, Taken
  <2>3. \A v \in Workers : wjob[v] = j => v = w
    BY <2>1, <2>2 DEF JobInv, OneWorkerPerJob, Holds
  <2>4. ~Taken(j)'
    BY <1>1, <2>1, <2>2, <2>3, PgAssumption DEF Taken, Holds
  <2> QED BY <1>1, <2>2, <2>4, PhaseByStatus, NextPhaseByStatus
<1>3. ASSUME NEW j \in Jobs \ J
      PROVE  PhaseOf(j)' = PhaseOf(j)
  <2>1. Taken(j)' <=> Taken(j)
    BY <1>1, PgAssumption DEF Taken, Holds
  <2> QED BY <1>1, <2>1, SamePhase
<1>4. J \in SUBSET Jobs
  OBVIOUS
<1> HIDE DEF J
<1>5. \A j \in J : Phase[j] = "running"
  BY <1>2, <1>4 DEF Phase
<1>6. Phase' = [j \in Jobs |-> IF j \in J THEN "stuck" ELSE Phase[j]]
  BY <1>2, <1>3 DEF Phase
<1>7. WQ!Abandon(J)
  BY <1>1, <1>5, <1>6 DEF WQ!Abandon, Phase
<1> QED BY <1>4, <1>7 DEF WQ!WorkNext

LEMMA WorkRefined == JobInv /\ [Next]_vars => [WQ!WorkNext]_(WQ!workVars)
<1> SUFFICES ASSUME JobInv, [Next]_vars PROVE [WQ!WorkNext]_(WQ!workVars)
  OBVIOUS
<1>1. CASE UNCHANGED vars
  BY <1>1, WorkStutters DEF vars, rowVars, workVars
<1>2. ASSUME NEW p \in Procs, \/ Subscribe(p) \/ TickerFires(p) \/ ListenerStep(p)
                              \/ LoseConnection(p) \/ CloseBegin(p) \/ CloseEnd(p)
      PROVE  UNCHANGED <<status, attempts, wjob>>
  BY <1>2 DEF Subscribe, TickerFires, ListenerStep, Select, WaitReturns, Fill,
     LoseConnection, CloseBegin, CloseEnd, rowVars, workVars
<1>3. ASSUME NEW w \in Workers, Handle(w) PROVE UNCHANGED <<status, attempts, wjob>>
  BY <1>3 DEF Handle, rowVars
<1>4. CASE Next
  BY <1>2, <1>3, <1>4, WorkStutters, WorkPub, WorkCrash, WorkFetch, WorkSettle
     DEF Next, WorkerStep
<1> QED BY <1>1, <1>4

\* The table event_queue and the workers of all processes implement the abstract queue:
\* a row that is locked and that no worker has is stuck for good.
THEOREM PgIsWorkQueue == Spec => ImplementsWorkQueue
<1>1. Init => WQ!WorkInit
  BY PhaseByStatus DEF Init, WQ!WorkInit
<1> QED BY <1>1, JobInit, JobStep, WorkRefined, PTL
           DEF Spec, ImplementsWorkQueue, WQ!WorkSpec
=============================================================================
