----------------------------- MODULE EmbedBatch -----------------------------
(***************************************************************************)
(* BatchEmbedWithPool of aipkg/models/embedding/batch.go: the texts are    *)
(* cut into batches, each batch is embedded by a task of a goroutine pool, *)
(* and the caller waits for all of them.  firstErr is read without the     *)
(* mutex that guards its writes.  The pool recovers a task that panics,    *)
(* and the task's deferred calls run.                                      *)
(***************************************************************************)
EXTENDS Integers, FiniteSets

CONSTANTS
    Batches,   \* number of batches (ChunkSlice makes them)
    Workers,   \* capacity of the pool
    NoErr

ASSUME EmbedAssumption ==
    /\ Batches \in Nat
    /\ Workers \in Nat \ {0}
    /\ NoErr \notin 1..Batches

VARIABLES
    next,      \* the batch that is submitted next
    epc,       \* control of the caller
    task,      \* control of each batch's task
    firstErr,  \* the batch whose error is recorded
    mu,        \* free, or held by a task that panicked
    vectors,   \* what is in the results of each batch
    answer,    \* the model's answer, on its way into the results
    eret,      \* what the caller got
    released,  \* the pool was released
    short,     \* history: a model answered with fewer vectors than texts
    erred      \* history: batches the model returned an error for

embedVars == <<next, epc, task, firstErr, mu, vectors, answer, eret, released, short, erred>>

B == 1..Batches

EmbedTypes ==
    /\ next \in 1..(Batches + 1)
    /\ epc \in {"submit", "wait", "returned"}
    /\ task \in [B -> {"none", "check", "embed", "error", "store", "ended"}]
    /\ firstErr \in B \cup {NoErr}
    /\ mu \in {"free", "held"}
    /\ vectors \in [B -> {"none", "some", "all"}]
    /\ answer \in [B -> {"none", "some", "all"}]
    /\ eret \in {"none", "results", "error"}
    /\ released \in BOOLEAN
    /\ short \in BOOLEAN
    /\ erred \subseteq B

EmbedInit ==
    /\ next = 1
    /\ epc = "submit"
    /\ task = [b \in B |-> "none"]
    /\ firstErr = NoErr
    /\ mu = "free"
    /\ vectors = [b \in B |-> "none"]
    /\ answer = [b \in B |-> "none"]
    /\ eret = "none"
    /\ released = FALSE
    /\ short = FALSE
    /\ erred = {}

\* What wg counts: Add comes before Submit, Done is deferred by the task.
Begun == {b \in B : task[b] \in {"embed", "error", "store"}}
Pending == {b \in B : task[b] \notin {"none", "ended"}}

\* Submit waits for a worker, and fails when the pool is released.
Submit ==
    /\ epc = "submit"
    /\ next <= Batches
    /\ \/ /\ ~released
          /\ Cardinality(Pending) < Workers
          /\ task' = [task EXCEPT ![next] = "check"]
          /\ next' = next + 1
          /\ UNCHANGED <<epc, eret>>
       \/ /\ released
          /\ epc' = "returned"
          /\ eret' = "error"
          /\ UNCHANGED <<task, next>>
    /\ UNCHANGED <<firstErr, mu, vectors, answer, released, short, erred>>

AllSubmitted ==
    /\ epc = "submit"
    /\ next > Batches
    /\ epc' = "wait"
    /\ UNCHANGED <<next, task, firstErr, mu, vectors, answer, eret, released, short, erred>>

\* wg.Wait()
BegunOver == Begun = {}
WaitOver == Pending = {}

EmbedReturn ==
    /\ epc = "wait"
    /\ WaitOver
    /\ epc' = "returned"
    /\ eret' = IF firstErr # NoErr THEN "error" ELSE "results"
    /\ UNCHANGED <<next, task, firstErr, mu, vectors, answer, released, short, erred>>

\* A read that races with the write may see the old value.
CheckWithoutDone(b) ==
    /\ task[b] = "check"
    /\ task' = [task EXCEPT ![b] = IF firstErr # NoErr THEN "lost" ELSE "embed"]
    /\ UNCHANGED <<next, epc, firstErr, mu, vectors, answer, eret, released, short, erred>>

Check(b) ==
    /\ task[b] = "check"
    /\ \/ task' = [task EXCEPT ![b] = "embed"]
       \/ firstErr # NoErr /\ task' = [task EXCEPT ![b] = "ended"]
    /\ UNCHANGED <<next, epc, firstErr, mu, vectors, answer, eret, released, short, erred>>

Embed(b) ==
    /\ task[b] = "embed"
    /\ \/ /\ task' = [task EXCEPT ![b] = "error"]
          /\ erred' = erred \cup {b}
          /\ UNCHANGED <<answer, short>>
       \/ \E a \in {"some", "all"} :
            /\ task' = [task EXCEPT ![b] = "store"]
            /\ answer' = [answer EXCEPT ![b] = a]
            /\ short' = (short \/ a = "some")
            /\ UNCHANGED erred
    /\ UNCHANGED <<next, epc, firstErr, mu, vectors, eret, released>>

ForgetError(b) == firstErr
KeepFirst(b) == IF firstErr = NoErr THEN b ELSE firstErr

RecordError(b) ==
    /\ task[b] = "error"
    /\ mu = "free"
    /\ firstErr' = KeepFirst(b)
    /\ task' = [task EXCEPT ![b] = "ended"]
    /\ UNCHANGED <<next, epc, mu, vectors, answer, eret, released, short, erred>>

\* With too few vectors the index panics, and the mutex stays locked.
Store(b) ==
    /\ task[b] = "store"
    /\ mu = "free"
    /\ vectors' = [vectors EXCEPT ![b] = answer[b]]
    /\ mu' = IF answer[b] = "all" THEN "free" ELSE "held"
    /\ task' = [task EXCEPT ![b] = "ended"]
    /\ UNCHANGED <<next, epc, firstErr, answer, eret, released, short, erred>>

\* The owner of the pool releases it; tasks that run go on.
ReleasePool ==
    /\ ~released
    /\ released' = TRUE
    /\ UNCHANGED <<next, epc, task, firstErr, mu, vectors, answer, eret, short, erred>>

CallerStep == Submit \/ AllSubmitted \/ EmbedReturn
TaskStep(b) == Check(b) \/ Embed(b) \/ RecordError(b) \/ Store(b)

EmbedNext == CallerStep \/ ReleasePool \/ \E b \in B : TaskStep(b)

\* Goroutines that can run do run, and the model answers.
EmbedFairness == WF_embedVars(CallerStep) /\ \A b \in B : WF_embedVars(TaskStep(b))

EmbedSpec == EmbedInit /\ [][EmbedNext]_embedVars /\ EmbedFairness

-----------------------------------------------------------------------------
(* Properties *)

\* A caller that gets results gets the vectors of all texts, although tasks that
\* read firstErr too early or too late skip their batch or not: no batch is
\* skipped, still running or failed.  (A model that answers with too few vectors
\* is a different matter: its task panics before it records an error.)
ResultsComplete ==
    eret = "results" /\ ~short => erred = {} /\ \A b \in B : vectors[b] = "all"

\* An error is returned only for a reason, and nothing is written behind the back
\* of a caller that has waited.
ErrorForAReason ==
    /\ eret = "error" => erred # {} \/ released
    /\ epc = "returned" /\ ~released => Pending = {}

\* What EmbedStrings answers with is true of the batches.
EmbedAnswers == ResultsComplete /\ ErrorForAReason

\* The call comes to an end, unless a model's short answer leaves the mutex locked.
EmbedReturns == (epc = "submit") ~> (epc = "returned" \/ mu = "held")
=============================================================================
