---------------------------- MODULE DocPipeline ----------------------------
(***************************************************************************)
(* DefaultDocumentProcessor of aipkg/rag/docpipeline/pipeline.go: Process  *)
(* of one text, and BatchProcess, which runs it for several texts, one by  *)
(* one or in tasks of a goroutine pool, with a semaphore.  firstErr is     *)
(* read without the mutex that guards its writes.                          *)
(***************************************************************************)
EXTENDS Integers, FiniteSets

CONSTANTS
    Texts,           \* number of texts
    Slices,          \* the documents the chunking strategy makes of a text
    PoolSize,        \* maxWorkers
    Limits,          \* values of options.MaxConcurrency
    Nothing

ASSUME PipelineAssumption ==
    /\ Texts \in Nat
    /\ IsFiniteSet(Slices)
    /\ PoolSize \in Nat \ {0}
    /\ Limits \subseteq Nat
    /\ Nothing \notin 1..Texts

VARIABLES
    concurrent,  \* options.EnableConcurrency
    limit,       \* options.MaxConcurrency
    i, dpc,      \* the loop variable and the control of BatchProcess
    worker,      \* control of each text's task
    first,       \* the text whose error is in firstErr
    sem,         \* messages in the semaphore channel
    out,         \* the outcome of Process for each text
    results,     \* the texts whose documents are in results
    dret,        \* what the caller got
    closed       \* the pool was released

pipeVars == <<concurrent, limit, i, dpc, worker, first, sem, out, results, dret, closed>>

T == 1..Texts

-----------------------------------------------------------------------------
(* Process *)

\* Slices without content (empty) are not embedded.  BatchEmbed answers with a
\* vector for all others ("all"), for some of them ("some"), or not at all ("none");
\* then each slice is embedded alone.  bad are the slices that get no vector.
Process(empty, answer, bad) ==
    [fate |-> [d \in Slices |->
                 IF d \in empty THEN "empty"
                 ELSE IF d \in bad /\ answer = "some" THEN "missing"
                 ELSE IF d \in bad /\ answer = "none" THEN "failed"
                 ELSE "embedded"],
     err |-> IF empty # Slices /\ answer = "none" THEN "partial" ELSE "nil"]

ChunkFails == [fate |-> [d \in Slices |-> "failed"], err |-> "chunk"]

Outcomes ==
    {ChunkFails} \cup
    {Process(empty, answer, bad) :
        empty \in SUBSET Slices, answer \in {"all", "some", "none"}, bad \in SUBSET Slices}

NoOutcome == [fate |-> [d \in Slices |-> "failed"], err |-> "none"]

-----------------------------------------------------------------------------
PipeTypes ==
    /\ concurrent \in BOOLEAN
    /\ limit \in Limits
    /\ i \in 1..(Texts + 1)
    /\ dpc \in {"loop", "acquire", "submit", "wait", "returned"}
    /\ worker \in [T -> {"none", "check", "process", "error", "write", "release", "ended"}]
    /\ first \in T \cup {Nothing}
    /\ sem \in 0..limit
    /\ out \in [T -> Outcomes \cup {NoOutcome}]
    /\ results \subseteq T
    /\ dret \in {"none", "results", "error"}
    /\ closed \in BOOLEAN

PipeInit ==
    /\ concurrent \in BOOLEAN
    /\ limit \in Limits
    /\ i = 1
    /\ dpc = "loop"
    /\ worker = [t \in T |-> "none"]
    /\ first = Nothing
    /\ sem = 0
    /\ out = [t \in T |-> NoOutcome]
    /\ results = {}
    /\ dret = "none"
    /\ closed = FALSE

BatchReturns(r) == dpc' = "returned" /\ dret' = r

\* EnableConcurrency is off: the first error ends the loop.
OneByOne ==
    /\ ~concurrent
    /\ dpc = "loop"
    /\ \/ /\ i > Texts
          /\ BatchReturns("results")
          /\ UNCHANGED <<i, out, results>>
       \/ /\ i <= Texts
          /\ \E o \in Outcomes :
               /\ out' = [out EXCEPT ![i] = o]
               /\ \/ /\ o.err = "nil"
                     /\ results' = results \cup {i}
                     /\ i' = i + 1
                     /\ UNCHANGED <<dpc, dret>>
                  \/ /\ o.err # "nil"
                     /\ BatchReturns("error")
                     /\ UNCHANGED <<i, results>>
    /\ UNCHANGED <<concurrent, limit, worker, first, sem, closed>>

\* "if firstErr != nil": a read that races with the write may see the old value.
LoopHead ==
    /\ concurrent
    /\ dpc = "loop"
    /\ \/ i <= Texts /\ dpc' = "acquire"
       \/ (i > Texts \/ first # Nothing) /\ dpc' = "wait"
    /\ UNCHANGED <<concurrent, limit, i, worker, first, sem, out, results, dret, closed>>

\* Without a limit there is no semaphore.
Limited == limit > 0

AcquireSemaphore ==
    /\ dpc = "acquire"
    /\ Limited => sem < limit
    /\ sem' = IF Limited THEN sem + 1 ELSE sem
    /\ dpc' = "submit"
    /\ UNCHANGED <<concurrent, limit, i, worker, first, out, results, dret, closed>>

\* The pool's goroutines, and what wg counts.
InPool == {t \in T : worker[t] \notin {"none", "ended"}}
Waited == {t \in T : worker[t] \notin {"none", "release", "ended"}}

ReleaseSemaphore == sem' = IF Limited THEN sem - 1 ELSE sem

SubmitTask ==
    /\ dpc = "submit"
    /\ \/ /\ ~closed
          /\ Cardinality(InPool) < PoolSize
          /\ worker' = [worker EXCEPT ![i] = "check"]
          /\ i' = i + 1
          /\ dpc' = "loop"
          /\ UNCHANGED <<sem, dret>>
       \/ /\ closed
          /\ ReleaseSemaphore
          /\ BatchReturns("error")
          /\ UNCHANGED <<worker, i>>
    /\ UNCHANGED <<concurrent, limit, first, out, results, closed>>

WaitForTasks ==
    /\ dpc = "wait"
    /\ Waited = {}
    /\ BatchReturns(IF first # Nothing THEN "error" ELSE "results")
    /\ UNCHANGED <<concurrent, limit, i, worker, first, sem, out, results, closed>>

ReleaseEarly(t) ==
    /\ worker[t] = "check"
    /\ ReleaseSemaphore
    /\ worker' = [worker EXCEPT ![t] = "process"]
    /\ UNCHANGED <<concurrent, limit, i, dpc, first, out, results, dret, closed>>

CheckFirst(t) ==
    /\ worker[t] = "check"
    /\ \/ worker' = [worker EXCEPT ![t] = "process"]
       \/ first # Nothing /\ worker' = [worker EXCEPT ![t] = "release"]
    /\ UNCHANGED <<concurrent, limit, i, dpc, first, sem, out, results, dret, closed>>

IgnorePartial(o) == IF o.err = "chunk" THEN "error" ELSE "write"
AfterProcess(o) == IF o.err # "nil" THEN "error" ELSE "write"

RunProcess(t) ==
    /\ worker[t] = "process"
    /\ \E o \in Outcomes :
         /\ out' = [out EXCEPT ![t] = o]
         /\ worker' = [worker EXCEPT ![t] = AfterProcess(o)]
    /\ UNCHANGED <<concurrent, limit, i, dpc, first, sem, results, dret, closed>>

RecordFirst(t) ==
    /\ worker[t] = "error"
    /\ first' = IF first = Nothing THEN t ELSE first
    /\ worker' = [worker EXCEPT ![t] = "release"]
    /\ UNCHANGED <<concurrent, limit, i, dpc, sem, out, results, dret, closed>>

WriteResult(t) ==
    /\ worker[t] = "write"
    /\ results' = results \cup {t}
    /\ worker' = [worker EXCEPT ![t] = "release"]
    /\ UNCHANGED <<concurrent, limit, i, dpc, first, sem, out, dret, closed>>

\* wg.Done() runs before the deferred function that empties the semaphore.
KeepSemaphore(t) ==
    /\ worker[t] = "release"
    /\ worker' = [worker EXCEPT ![t] = "ended"]
    /\ UNCHANGED <<concurrent, limit, i, dpc, first, sem, out, results, dret, closed>>

TaskEnds(t) ==
    /\ worker[t] = "release"
    /\ ReleaseSemaphore
    /\ worker' = [worker EXCEPT ![t] = "ended"]
    /\ UNCHANGED <<concurrent, limit, i, dpc, first, out, results, dret, closed>>

\* Close
ClosePool ==
    /\ ~closed
    /\ closed' = TRUE
    /\ UNCHANGED <<concurrent, limit, i, dpc, worker, first, sem, out, results, dret>>

BatchStep == OneByOne \/ LoopHead \/ AcquireSemaphore \/ SubmitTask \/ WaitForTasks
WorkerStep(t) ==
    CheckFirst(t) \/ RunProcess(t) \/ RecordFirst(t) \/ WriteResult(t) \/ TaskEnds(t)

PipeNext == BatchStep \/ ClosePool \/ \E t \in T : WorkerStep(t)

\* Goroutines that can run do run, and Process returns.
PipeFairness == WF_pipeVars(BatchStep) /\ \A t \in T : WF_pipeVars(WorkerStep(t))

PipeSpec == PipeInit /\ [][PipeNext]_pipeVars /\ PipeFairness

-----------------------------------------------------------------------------
(* Properties *)

\* BatchProcess returns results only when every text has its documents, and no
\* document is without the vector that Embed refused; only the documents a model's
\* short answer leaves out have none.
DocumentsComplete ==
    dret = "results" =>
        /\ results = T
        /\ \A t \in T : \A d \in Slices : out[t].fate[d] # "failed"

\* No more than options.MaxConcurrency texts are in work at a time, although the semaphore
\* is filled by the caller and emptied by the tasks.
WithinLimit ==
    Limited => Cardinality({t \in T : worker[t] \in {"check", "process", "error", "write"}})
                 <= limit

\* What BatchProcess answers with is true of the texts, and it keeps its limit.
PipelineAnswers == DocumentsComplete /\ WithinLimit

\* BatchProcess comes to an end: the semaphore, the pool and the wait group do not
\* wait for one another.
BatchProcessReturns == (dpc = "loop") ~> (dpc = "returned")
=============================================================================
