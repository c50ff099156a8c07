# A TLA+ verification of igo-pkg

igo-pkg is a library of Go packages for services (`src/pkg`: message queues,
caches, locks, databases, small algorithms) and for applications of language
models (`src/aipkg`: chunking, embedding, knowledge graphs, memory). It is not one
program: its components meet in the services that import them, and share goroutine
pools, database tables, Redis keys and streams. This directory models them one by
one, checks the models with TLC, and proves the most important facts with TLAPS.

`PROJECT.json` maps every definition to the source lines it stands for, lists the
runs, and gives for each property a mutant: a plausible bug that breaks it.

## 1. Inventory

What each component keeps, does, depends on, and what makes it correct. "Status" says
whether it is modelled now (M), planned (P) or left out (–; reasons in section 8).

| Component | State | Operations | Interacts through | Hard behaviour | Correct when | |
|---|---|---|---|---|---|---|
| In-memory queue `pkg/event/memory.go` | a channel per topic, subscriber channels, `done`, mutex, counter | `Pub`, `Sub`, `dispatchMessages`, `cleanExpiredMessages`, `monitorMemoryUsage`, `Close` | channels, one mutex, a map read without it | seven kinds of goroutines; the channel is replaced while in use | no accepted message is lost, no lock is held for ever, every goroutine ends | M |
| PostgreSQL queue `pkg/event/pgsql.go` | table `event_queue`, a listener per process, a semaphore | `Pub`, `Sub`/`listenAndProcess`, workers, `Close` | SQL of several processes, LISTEN/NOTIFY | failing statements, lost answers, crashes | one worker per row, one success per message, bounded attempts, `Close` returns | M |
| Redis stream queue `pkg/event/redis_stream.go` | a stream, groups, pending entries | `Pub` (3 attempts), `Sub`, consumers, `Close`, `CleanupStream` | Redis commands of several goroutines and processes | retries, lost answers, a lost group | an entry is handled once per group, none is skipped or deleted unhandled | M |
| Redis pub/sub queue `pkg/event/redis.go` | a subscription, a worker pool | `Pub`, `Sub`, workers, `Close` | a Go channel, a semaphore | a 30 s limit that abandons handlers, a full pool, signals | every delivery is handled once; `Sub` ends | M |
| RedisLock `pkg/database/redis/redis_redsync.go` | key, value, expiry, `seconds` | `Acquire`, `Release`, `SetExpire` | two Lua scripts | leases that end, repeated scripts, `uint32(seconds)` | a lease is honoured until it ends | M |
| DLock `pkg/database/cache/cache_lock*.go` | one Redis key or one table row | `Lock`, `Unlock` | one command each | no owner in the entry, clocks, repeated commands | one holder within its time to live | M |
| Batch embedding `aipkg/models/embedding/batch.go` | results, `firstErr`, mutex, wait group | `BatchEmbedWithPool` | a goroutine pool | racy read of `firstErr`, a panic with the mutex locked | no error means all vectors; nothing runs on | M |
| Document pipeline `aipkg/rag/docpipeline` | results, `firstErr`, semaphore | `Process`, `BatchProcess`, `Close` | a goroutine pool, chunker, embedder | semaphore, pool and wait group together; partial failure | no error means all documents; limits hold; it returns | M |
| Key-value cache `pkg/database/cache/cache_kv*.go` | keys with expiry | `Get`, `Set`, `Del` | Redis or a table | `Get` of an expired row deletes what is there by then | a value is found until its expiry, unless a statement was late | M |
| Redis wrapper `pkg/database/redis/cache.go` | none | one command per call | Redis | – | – | – |
| Data, transactions, tenants `pkg/data`, `pkg/database/dbresolver` | map of connections, transaction in the context | `DB`, `ExecTx`, `GetDB` | mutex, context | double-checked map, nested transactions | one connection per tenant; a transaction is all or nothing | M |
| Resolver of sources and replicas, `ExecTxForDBManager` | configuration of connections | choose a connection | gorm | – | – | – |
| Knowledge graph `aipkg/rag/graph` | entities, relations, weights, degrees, links | `BuildGraph`, the two queries, the diagram | goroutines, mutex, model | concurrent extraction, failing calls, repeated calls | what models said is in the graph; the three maps agree | M |
| Conversation memory `aipkg/mem/mem0` | a client's project; the callers' options | `Add`, `Search`, `GetAll`, `Get`, `Delete`, `DeleteAll`, `BatchDelete`, users | HTTP, an options object shared by callers | a call writes into its options; filters that are not sent | a client stays in its project | M |
| Context compaction `aipkg/rag/contextcompact` | the messages of a conversation, files | replace old results, save, summarise | a model | repeated compaction, a failing summary | the conversation is still there: as messages, in a summary or in a file | M |
| Chunking `aipkg/rag/chunker` | none | three strategies | – | termination, overlap, headings, pages | every letter is in a chunk, in order; sizes keep their bounds | M |
| Splitting `aipkg/rag/split` | none | four strategies, three semantic modes, tables | embedder | code and tables, overlap that cuts, pages | as above, and parts that belong together stay together | M |
| Rank fusion `aipkg/pkg/rrf` | none | fuse lists | – | ties, missing entries | scores are the sums they claim to be | P |
| Murmur3 `pkg/murmur3` | a digest: tail, hash, length | `Write`, `Sum`, `Reset` | – | input cut anywhere | the sum is that of the whole input, however it was cut | M |
| PHP functions `pkg/xphp2go` | none | arrays, slices, strings | – | negative and excessive bounds | the functions' definitions | P |
| SQL builder `pkg/xsql/builder` | none | conditions, five statements, pages | gorm, a database | order of a map, empty lists, nesting | the text means the request, and its marks and values are in step | M |
| Facade, clients, middleware, drivers, logging, telemetry, configuration, model clients | little or none | conversions and calls of libraries | the network | – | – | – |

How the modelled components interact: a process that uses a queue starts goroutines
(in-memory), shares a table (PostgreSQL) or a stream (Redis) with other processes;
locks share a key; the document pipeline and the batch embedder are each a caller and
tasks that share a pool, and each is modelled with its own. The queues, the locks and
the two batch calls do not call each other, so each has a model of its own; what they
share, a client library that repeats a command whose answer was lost, is modelled in
each of them. The chunkers and splitters stand between a document and the pipeline, which sees
only whether they fail; the graph builder takes chunks that it does not look into. These four are therefore
modelled apart, with any text, and any answer, at the seam.

## 2. Plan

Order, the most important behaviour first:

1. **Done.** `MemoryQueue`, its proofs; `WorkQueue` (abstract) and `PgQueue` that
   implements it; `LeaseLock` (abstract), `LockCalls`, `RedisLock` that implements
   `LeaseLock`, `DLock`; `RedisStream`, `RedisPubSub`; `EmbedBatch`, `DocPipeline`.
2. **Done.** Text: `Runes`, `Windows`, `TextSplit`, `DocStructure`, `SemanticSplit`, `TableGrid`, `Splitters`,
   `Chunker`. State around a model: `GraphBuilder`, `GraphDiagram`, `ContextCompact`, `MemClient`. Data: `KVCache`,
   `TenantData`, `Pagination`, `SqlBuilder`, `Murmur3`.
3. **Done.** Proofs of the safety properties and of both refinements of the components whose modules
   have no recursion, and of the pure operators that need none (section 7).
4. Next: the same for tables (`TableGrid`); `RankFusion` and the array and slice functions of `xphp2go`, as operators against reference definitions.

Components that do not interact are checked in one run by an MC module that picks one
of them at Init and leaves the others at rest (`MCExclusive`, `MCQueuesLive`, `MCPools`, `MCLibrary`); that keeps the
runs to one per question.

## 3. Modules

| Module | Models | |
|---|---|---|
| `MemoryQueue` | `pkg/event/memory.go` | one topic; the goroutines of section 4 |
| `MCMemoryQueue` | – | instances for TLC |
| `WorkQueue` | what a queue with retries promises | abstract |
| `PgQueue` | `pkg/event/pgsql.go` | one topic, several processes; refines `WorkQueue` |
| `LeaseLock` | what a lock with a time to live promises | abstract |
| `LockCalls` | clients that call a server, lost and repeated commands | used by the next two |
| `RedisLock` | `pkg/database/redis/redis_redsync.go` | refines `LeaseLock` |
| `DLock` | `pkg/database/cache/cache_lock_redis.go`, `cache_lock_pgsql.go` | both backends |
| `RedisStream` | `pkg/event/redis_stream.go` | one stream, several groups |
| `MCRedisStream` | – | instances for TLC |
| `EmbedBatch` | `aipkg/models/embedding/batch.go` | one call |
| `DocPipeline` | `aipkg/rag/docpipeline/pipeline.go` | one call of `BatchProcess` |
| `RedisPubSub` | `pkg/event/redis.go` | one subscription and its workers |
| `MCPools` | – | picks one of the three |
| `MCExclusive` | – | picks a kind of lock, or `PgQueue` |
| `MCQueuesLive` | – | picks `PgQueue` or `RedisStream`, under fairness |
| `Runes` | texts as sequences of classes of runes, with the place each stood at | used by the text modules |
| `Windows` | `FixedSizeStrategy.Split` of `split/fixed_size.go`, the overlap of `split/util.go`, `hardSplitByRunes` of `recursive_character.go` | cutting by length alone |
| `TextSplit` | `split/fixed_size.go`, `recursive_character.go`, `splitter.go`, parts of `util.go` | sizes, separators, overlap, pages |
| `DocStructure` | `split/document_structure.go` | headings, sections, rows, blocks of code |
| `SemanticSplit` | `split/semantic.go` | sentences; greedy, double-merging and window mode |
| `TableGrid` | the tables of `split/util.go` | cells with spans on a grid |
| `Splitters` | `Split` of the four strategies | the specification, and its properties |
| `MCText` | – | calls of `Splitters`: texts of a few lines, options with small sizes |
| `Chunker` | `aipkg/rag/chunker` | the three strategies |
| `GraphBuilder` | `aipkg/rag/graph/graph.go` | concurrent tasks, then the finishing steps; the two queries |
| `GraphDiagram` | `generateKnowledgeGraphDiagram` of `graph.go` | the subgraphs of the diagram, a depth-first search |
| `ContextCompact` | `aipkg/rag/contextcompact` | `BeforeModel` in a conversation |
| `MCChunker` | – | the instance of `chunk_loops` |
| `MCRag` | – | instances of `Chunker`, `GraphBuilder` with `GraphDiagram`, `ContextCompact` |
| `Pagination` | `GormPaginate`, `CeilPageNum` of `pkg/xsql/builder` | the rows of a page, the number of pages |
| `SqlBuilder` | `pkg/xsql/builder` | text as a tree with marks, values as a list |
| `Murmur3` | `pkg/murmur3` | the bytes that each word depends on |
| `KVCache` | `pkg/database/cache/cache_kv*.go` | one key, two backends |
| `TenantData` | `pkg/data`, `dbresolver/db_manager.go` | requests with transactions |
| `MemClient` | `aipkg/mem/mem0/mem0.go` | clients, options, the service |
| `MCTools` | – | instances of the last five |
| `MCLibrary` | – | picks one of `MCRag`, `MCTools` and `Splitters` |
| `MemoryQueueProofs`, `PgQueueProofs`, `RedisStreamProofs` | – | theorems about one module each (section 7) |
| `LockProofs` | – | theorems about `RedisLock` and `DLock`, and the types of `MCExclusive` |
| `PoolProofs` | – | theorems about `EmbedBatch`, `DocPipeline`, `RedisPubSub` and the types of `MCPools` |
| `ContextProofs` | – | theorems about `ContextCompact` |
| `GraphProofs` | – | theorems about `GraphBuilder` |
| `ToolsProofs` | – | theorems about `KVCache`, `TenantData`, `MemClient`, `Murmur3`, `Pagination` and `Windows` |

An operator such as `DrainedTooSoon`, defined just before the one it resembles, is a
mutant: no model uses it, and `PROJECT.json` says which property notices it.

## 4. How state and actions correspond to the code

**Memory queue.** A goroutine's step ends where it blocks, takes or drops the mutex, or
touches what others can touch without the mutex. `mu` is the holder of the write lock;
`queue` is `messageQueues[topic]`; `buf` and `open` are the contents and state of the
channels, which have identities because goroutines keep references to old ones.
`PubBegin`/`PubLocked`/`PubCheckDone`/`PubReadMap`/`PubSend`/`PubCount` are `Pub` line by line;
`SubRegister`, `SubReceive`, `SubStartHandler`, `HandlerDone`, `SubExit` the loop of `Sub`;
`Dispatch*` one round of `dispatchMessages`, which sends to a copy of the subscriber list;
`Clean*` and `Evict*` the two clean-ups, which drain the closed channel message by message
with the mutex held; `Close*` the three parts of `Close`. The Go runtime's own answers are
outcomes: a send on a closed channel panics (`panicked` for a caller of `Pub`, `crashed` for a
goroutine nobody recovers), closing twice panics, and a map read that races with a write
may be caught by the runtime (`PubReadMapRace`). Other topics only delay this one.

**PostgreSQL queue.** A row's `status`, `attempts` and `created_at` are variables; a statement is
one step that succeeds, fails, or takes effect although its caller sees an error
(`Outcomes`, `Executed`). `Select` chooses among the ready branches of the listener's select,
`WaitReturns` is `WaitForNotification`, `Fill` starts workers while the semaphore has room.
A worker fetches (`FOR UPDATE SKIP LOCKED` is one atomic step), handles, and deletes the row or makes it available or
failed (`Delete`, `ReleaseOrMarkFailed`).
`CloseBegin` cancels the context, after which statements fail; `CloseEnd` is the end of `wg.Wait`.
`Crash` takes a process with all its workers; its rows stay `locked`.

**Locks.** A call sends one command; the server executes it (`ExecuteLock`, `ExecuteDel`,
`ExecuteSet`, `ExecuteDelete`), the answer comes (`Answer`), or is lost and the client library
sends the command again (`Resend`), or gives up (`Fail`). Between any two of these steps any time may pass, so a
command may reach the server long after the call began; it is not executed after its call has returned, which is
the limit of this model. In `DLock` an `Unlock` may be called at any time and its DEL deletes whatever entry is there;
`skew` is how far a client's clock is ahead of the database's. Its history is `due` (when the time to live ends that a
client's entry was set for) and `robbed` (the entry was deleted by a client that had no lease): `HasLease(c)` says that the
time runs (`LeaseEnd`, which is earlier for a client whose clock is behind) and that nobody has deleted the entry that way. Time is the server's clock; in
`RedisLock` a unit is the tolerance of 500 ms, so a lease is `2 * seconds + 1` units. `SetExpire`
reduces its argument modulo `UintSize`, as the conversion to `uint32` does.

**Redis stream.** Entries have the IDs 1, 2, … in the order they were added; `last` and `pel` are
the server's state of a group. `Read` is XREADGROUP with its three answers (entries, NOGROUP,
another error); no new entries means that the command is sent again, which changes nothing and
is no step. `Handle`, `Ack` and `Del` are the three steps for an entry, with failures that are only
logged. `PubAdd` is one XADD of the retry loop; `PubAddRepeated` and `ReadRepeated` are the client
library sending the command again. `LoseGroup` is what the code's NOGROUP branch is there for.

**Batches.** `Submit`/`AllSubmitted`/`EmbedReturn` are the caller of `BatchEmbedWithPool`, `Check`, `Embed`,
`RecordError` and `Store` a task. A read of `firstErr` that is not ordered with its writes may return
the old value. ants recovers a panic of a task and its deferred functions run, so a short answer
leaves the mutex locked and the wait group counted down (`Store`). In `DocPipeline`, `Process` is a
function of what the chunker and the embedder answer; `LoopHead`, `AcquireSemaphore`, `SubmitTask`,
`WaitForTasks` are `BatchProcess`, the others its tasks. The deferred functions of a task run in
reverse order: the wait group first, the semaphore after it (`TaskEnds`).

**Redis pub/sub.** `Publish` is one attempt of `Pub`; `Reaches` is Redis and go-redis putting the message into the channel
that `Sub` ranges over, or losing it. `LoopTop`, `SubscribeFails`, `PauseOver` and `StartWorkers` are the loop of
`createSubscription`; `Dispatch` and `SendBlocking` the two branches for a message; `SubscriptionOver` the end of the range with
the deferred `close(workChan)`. `Timeout` is `ctx.Done()` of a worker, which leaves the handler running (`abandoned`).

**Texts.** A rune is `<<class, place>>`. The class is all that a splitter looks at (a letter, a blank, a stop, the
first rune of a heading, a row of a table, a code fence, a page marker); the place is where it stood in the document, or 0 when
the splitter wrote it. Places make "nothing is lost, repeated or moved" exact. The strategies are functions of a call
`[strategy, text, o]` with `o` its options. `Prepare` is `Validate` and `preProcessText`, whose results every later step works on (`doc`); `SplitFixed`, `SplitRecursive`, `SplitStructure`, `SplitTable` and the window mode answer in one step, the greedy and
the double-merging loop of `semantic.go` take one step per sentence (`StartSemantic`, `SemanticStep`, `SemanticReturns`), because each asks again how
alike two texts are, and the answer is arbitrary. `Refuse` and `AnswerNothing` are the early returns, `ConvertTable` is one table of a document. A loop that would not end is an outcome (`"loops"`) and not a
computation. Sizes are counted in runes, as the code counts them, ratios are percentages; sizes that the code takes as 500 by
default are small constants (`DefaultSize`, `DefaultChunk`).

**Graph.** `BuildGraph` is one call at a time, with the tasks of an errgroup inside it: `StartExtract`, `ExtractEntities` (which merges under the
mutex) and `ExtractFails` for a chunk, `StartRelate`, `ExtractRelationships` and `RelateFails` for a batch. What a failed call has merged
stays in the maps. `Extracted`, `CalculateWeights`, `CalculateDegrees` and `BuildChunkGraph` run after the groups have
ended. A loop over a slice is a function of the number of elements it has seen (`merged`, `after`), a loop over
a map takes any order of its keys. The queries and the diagram are operators of the maps.

**Compaction.** The conversation is any that an agent can have. A call of `BeforeModel` is one step with three outcomes: `StaysAsItIs`
(only `MicroCompact`), `Compacts` and `SummaryFails`, both with or without a file. A summary knows the messages it was made
from, so that what is gone from everywhere can be said.

**SQL.** A statement is a tree whose leaves have a number of marks and a list of values; its meaning is what a database makes of it on
all rows over two fields when it binds the values from left to right (`Chosen`), and a request's meaning is defined
apart from the builder (`Means`). A Go map is given in the order in which `range` may visit it, so all orders are taken.

**Murmur3.** The words are left open: `mixed` is the sequence of blocks mixed in, `tail` what is left in the array of the digest,
which still has the bytes of earlier writes behind its length. Two sums are the same when they depend on the same bytes at the
same places.

**Cache, tenants, clients of the memory.** One statement is one step; `KVCache` separates a caller's decision from its
statement (`SetBegin` and `SetExec`, and so on), so a DELETE can come late. `TenantData` separates the two looks at the map of `GetDB`, and the writes in and around
transactions, which gorm begins and ends. `MemClient` has the options as objects that a call may write into; the
service is external and does what it can with the query it gets.

## 5. Runs

| Run | Question and answer | Bounds, and why they are enough |
|---|---|---|
| `memory_queue` | Do replaced channels lose messages, block a clean-up, upset the counter, get closed twice? No. | 1 publisher, 1 subscriber, 2 messages, queue of 2, 4 channels, messages that are kept, dropped by a clean-up (one tick) or skipped when read (two ticks). Two messages fill the queue, and one can be in a channel, a dispatcher and a clean-up; 4 identities leave a free one beside map, clean-up, publisher and dispatcher. |
| `memory_two_subs` | Can a subscriber get a message twice? No. | 2 subscribers, hence 2 dispatchers that both send to both. |
| `memory_live` | Is the state well typed? Does `Pub` return and does `Close` stop everything? Yes, unless the process has crashed. | 1 publisher, 1 subscriber, 1 message, queue of 1: every blocking operation can block. |
| `memory_served` | Has a topic with a subscriber a dispatcher? **No**, see section 6. | as above |
| `memory_panic` | Can `Pub` panic? **Yes**, see section 6. | as above |
| `pg_taken` | Is an available row taken? **No**, see section 6. | 1 process, 1 worker, 1 row, no failures. |
| `chunk_loops` | Does `Chunk` return? **No**, see section 6. | up to 3 words of 1, 3 and 7 letters, a size of 4, overlaps of 0 and 1 letter. |
| `exclusive` | Two holders of a lock, a lost lease, a denial that took the lock; two workers of a row, two successes, too many attempts? No, under the stated conditions; `RedisLock` implements `LeaseLock`. | 2 clients, one repetition of a command, 4 ticks (a lease of 1 or 3 ticks ends and is taken over), a `UintSize` of 2, so that -1 wraps to the largest value and 1 is representable, ttl 0 and 2, clocks that are a tick ahead, in time or a tick behind (PostgreSQL; Redis does not look at them). 2 processes with one worker, 1 row, 2 attempts (one that is retried and one that is the last), failing statements, a crash. |
| `queues_live` | Does the table implement `WorkQueue`, and does `Close` return? Yes. Does every entry of a stream reach a handler? Yes, while a consumer lives, but for entries whose delivery was a lost answer. | 1 process with 2 workers, which `wg` and the semaphore need to matter; 1 row, failing statements, a crash. 1 group with 2 consumers, a publisher with 2 attempts, reads of up to 2 entries. |
| `stream` | Two groups: an entry handled twice, skipped, or deleted unhandled? No. | 1 message and 2 entries (a repeated XADD), 2 groups with one consumer, one crash or loss of a group, reads of both entries at once. |
| `pools` | The three components with a pool of goroutines. Batches and documents: does a nil error mean that all is there, are limits kept, do the calls return? Yes, but for a model's short answer. Pub/sub: is every delivery handled once, also by handlers that hang, and does `Sub` end? Yes, after `Close` and a signal. | 3 batches or texts and 2 workers; no semaphore, one of 1 and one of 2, so a text waits for a token or for a worker; failures, short answers, a released pool. 1 message delivered up to 3 times (3 attempts), 2 workers: both wait and the third delivery finds the work channel full. |
| `library` | See below. | See below. |

`library` asks one question of each of its components:

| Property | Question and answer | Bounds |
|---|---|---|
| `SplitWell`, `PartsKeptTogether` | Does a splitter lose, repeat or reorder a letter, put a piece on a later page, exceed a size, or take apart a heading and its content, a block of code, a row, a column? No, under the conditions of section 6. | Texts of up to 3 or 4 lines, of the 3 to 5 kinds of lines that a strategy tells apart, sizes of 1 to 12 runes and overlaps of 10 and 20 % or of a number of runes, so that a line is shorter, as long and longer than a chunk, and an overlap is 0, 1 and 2 runes; headings of two depths; every similarity; tables up to 3x3 with any spans. |
| `ChunkedWell` | Do the chunkers keep all letters, in order, within the size, on the right page and under the right title? Yes, unless the merge does not end. | texts of up to 3 or 4 lines out of 4 to 7 kinds, sizes of 4 to 30 around a line's length, overlaps that are 0, refused, 30, 50 and 100 % |
| `BuilderKeepsAnswers`, `GraphAgreesWithRelations`, `DiagramIsComplete` | Does a nil error mean that every chunk was read, is all that was said in the maps, and do degrees, links, queries and the diagram agree with the relations? Yes, but that a relation with a `#` in a title may be merged into another. | 3 chunks (two overlap, one is empty) in one call, or 2 chunks in two calls of which the second repeats one, 2 tasks at a time, batches of 2 and 1, answers with duplicates, self-loops, missing titles and two relations that have one key, failures |
| `ConversationContinues`, `LastResultsStay` | Is every message still there, or read for the summary that is? Are the last results of the list left whole? Yes. | 8 messages of 8 or 200 characters, threshold of 80 tokens (two long ones), 2 seconds, so that two transcripts can share a name |
| `StatementsAreTheRequests` | Do statements mean what was asked? Yes, with the exceptions of section 6. | 2 fields, each operator with each kind of value, `_or` in `_or`, 3 conditions, rows of all values |
| `DigestOfTheWhole` | Is a sum that of the whole input? Yes. | blocks of 4, writes of up to 6 and an input of up to 9 bytes: a write ends before, at and after a block's end, one and two blocks |
| `CacheAnswers` | Does a Get that no write overlaps answer what was stored last, or nothing if that has expired? Yes, but in PostgreSQL it may find nothing too early. | 2 callers, 2 values, ttl -1, 0 and 1, 2 ticks: an expiry, and a late DELETE |
| `TenantsServed` | One connection per tenant, transactions all or nothing? Yes. | 2 requests of 1 tenant, 2 writes, 2 transactions (one nested) |
| `ClientsKeepToTheirProject` | Does a client's memory go to its own project, and do searches find only its own? Yes, for the calls that send their project. | 2 clients of 2 projects with 1 shared options object, 2 memories |

Deadlock is not checked where a behaviour may end: a call has answered, a bounded number of messages, ticks and crashes
is used up, all calls have returned, or the process has died. That nothing gets stuck before is what the
liveness properties say.

**Fairness.** Weak fairness of each goroutine's next step: the Go scheduler lets a goroutine that
can run run, `sync.RWMutex` does not starve writers, and handlers and models are assumed to return (in `RedisPubSub` handlers are
not: its workers have a time limit, and 30 seconds pass).
Strong fairness only for a `select` that is ready again and again with `ctx.Done()` among its branches
(it chooses at random) and for the creation of a lost stream group (Redis answers in the end).
Timers that tick are fair; timeouts, failures, `Close`, signals and crashes never are.

**What the properties say that the code's tests do not.** The queue tests publish and wait; none of them runs a
clean-up (their periods are a minute), a second process, a failing statement or a crash. The lock tests
run against one server without losing an answer. The pipeline tests do not make a model fail while
other tasks run. The tests of the splitters print the chunks of one document, those of the graph need a model,
those of the builder compare a statement with a text and do not bind its values.

## 6. Disagreements between code and comments

With a run that shows them (`expect: violation`):

- `memory_served`: a dispatcher that waits on a queue channel returns when a clean-up closes it (memory.go:178),
  and nobody starts another: after the first clean-up of an idle topic its subscribers get nothing
  any more, although messages are accepted.
- `memory_panic`: `Pub` sends on a channel that a clean-up or `Close` has closed after `Pub` read it.
- `pg_taken`: `WaitForNotification` returns nil for a notification, after which the listener waits again, and
  blocks without a limit when there is none, so its ticker is not seen: a row can stay available for ever.

- `chunk_loops`: `mergePartsWithOverlap` (recursive_character.go:265-285) takes the index of the next part back by the parts the overlap needs;
  when these are all the parts it took, the index stays and `Chunk` never returns. Two words that do not fit into one
  chunk are enough, and the default overlap.

Found while modelling, without a run of their own:

- A dispatcher sends to the copy of the subscriber list it made before it blocked, so a message
  accepted after a second subscriber has registered can miss it (`DispatchedToAll`).
- The memory monitor drops about a third of the messages and not "half" (memory.go:242): the bound
  `len(queue)/2` shrinks while the loop empties the queue (`EvictsHalf`).
- `Close` closes subscriber channels that a dispatcher may be sending to; that panic ends the process
  (`CloseIsGraceful`).
- redis_redsync_test.go:35 says of a second `Acquire` of the same object that it should fail ("重复获取锁应该失败");
  the script grants it, as a renewal. `RedisLock` models the script.
- A DLock's entry does not say whose it is: an `Unlock` after the ttl, or one in time whose DEL arrives after it, or a DEL that is
  repeated after a lost answer, deletes another caller's entry, and then that of the next, whose owner did nothing wrong
  and is told nothing. All of it happens in `DLock`; `EntryOutlivesTTL` says that nothing else takes an entry before its time: neither a
  `Lock`, nor the `Unlock` of a client that has a lease. A client whose clock is behind the database's by some time
  loses that much of its lease (cache_lock_pgsql.go:22), one whose clock is ahead blocks the others for longer than its ttl. A SET NX that is repeated is denied
  because of its own first execution.
- `ErrPartialVectorizationFailed` ("部分切片向量化失败", pipeline.go:42) is returned as soon as the batch call failed, also when every
  slice got its vector on the second try.
- A model that answers with fewer vectors than texts makes a task panic with the mutex locked (batch.go:56);
  the next task that wants the mutex, and the caller, wait for ever.
- `Sub` of redis.go logs "Received shutdown signal, closing subscription..." (redis.go:103), but looks at the signal only between two
  subscriptions; after `Close` it subscribes again and again. `SubscriptionEnds` needs both events.
- Entries of a stream whose handler failed, or whose delivery was lost, are pending for ever: only new entries (`>`) are
  ever read.

Of the text components (the properties named are defined in the modules; `SplitWell`, `PartsKeptTogether` and `ChunkedWell` state the
conditions under which the others hold):

- With an overlap of 100 %, `splitBySizeWithOverlap` of the chunkers has a step of 0, a loop without an end, which the model answers with `"loops"` too.
- The chunker's "semantic" strategy collapses white space before it looks for paragraphs, so it never finds a second one.
- A table row's newline is not counted (document_structure.go:135-192), so a chunk is one rune too long, and the overlap's cut takes a letter off the
  last row (`TableKeepsRows`). A row longer than a chunk is cut too.
- The window mode returns a document of one sentence however long it is (`ChunkSizeKept`; splitter.go:22 "单个块最大字符数").
- The page of repeated text is that of its first occurrence; structured chunks that are not found in the text get page 1.
  `PageNotPastPiece` is what is left.
- A heading as long as a chunk loses its content and its children; what stands before the first heading, and a heading with nothing
  under it, are dropped; a cancelled call returns what it has with a nil error.
- A row of an HTML table that is filled by spans from above is dropped but still counted by those spans, which shifts cells; JSON ignores spans of
  the header; a table of one row is nothing (`CellsInPlace`).

Of the graph: links of a relation are the union of the chunks of its two ends, where graph.go:289 speaks of "common" ones; a failed call leaves
what it has merged, and its repetition counts it twice; a failing relation batch is only logged, so a nil error says nothing of
relations; the average strength depends on the order; `MinEntitiesForRelation` counts duplicates. The key of a relation is `source#target`
(graph.go:247), which two relations may share when titles have a `#`, as "A" to "B#C" and "A#B" to "C": the second is then merged
into the first, which gets its chunks and part of its strength, and is itself nowhere. `NothingSaidIsLost` therefore claims, of every relation, that its chunks are
under its key, and only of one whose titles have no `#` that it is there itself and has no other's chunks; such a relation never
shares its key with another (`KeyTellsApart`).

Of the compaction: the recent results are put back in reverse order (contextcompact.go:283-298, "保留最近的 keepRecent 个" :159), so the next round
replaces the newest (`RecentResultsKept`); the "complete" transcript (:98) has already lost the replaced results; its name has a
resolution of a second; the user's messages are only in the summary, which is cut at a byte, and system messages after the first are nowhere (the
model's conversations have none).

Of the SQL builder: `between` without exactly two values leaves the bare field (dao.go:268); an empty list gives `IN ()`, an empty
`_or` gives `()`; a delete without conditions ignores its limit (:466); two spellings of one operator on a field lose one condition;
`HAVING` of nothing is written all the same; an insert ignores fields that its first row lacks; pages are cut to 100 rows but counted with the size
that was asked for (`PagesShowAll`).

Of the others:

- A Get that found an expired row deletes whatever the key has by then, so a value just set is gone (`StoredIsFound`, cache_kv_pgsql.go:66). A ttl of 0
  means for ever in Redis and expired in PostgreSQL, and so does a negative one.
- Inside of `ExecTx` a tenant's operations go to the default database (`TenantKeepsToItsDatabase`); a nested `ExecTx` is a transaction of its own.
- `structToQuery` takes the whole JSON tag for a key and skips embedded options, so the filters of `GetAll` and `DeleteAll` do not arrive, nor
  does the project; `Search` writes its client's project into the options of the caller (mem0.go:280), which the next client then keeps.
- `Size()` of the 64-bit Murmur digest is 16, its sum has 8 bytes; a hash of 0 makes an empty short URL.
- Rank fusion (not modelled) panics when `TopN` is negative and counts an entry that a list has twice.

`Close` against senders (memory.go:300) is a hazard of PROJECT.json without a property of a run, and so is what the caller of a repeated SET NX is told
(cache_lock_redis.go:19, a step of `DLock`). The code does what the lists above say; `CloseIsGraceful`, and `EvictsHalf` of the monitor's
eviction, are in the module and would fail.

## 7. Proofs

37 theorems say for every value of the constants what the runs show for small ones. A theorem's only assumptions are the `ASSUME` of its module: that a limit, a size or a number of
attempts is a natural number (positive where the code's default or validation makes it so), that markers such as `Nil` are not values, that
the sets `Slices` and `Pool` are finite, and that what is given to `BuildGraph`, and what models answer, has the types that the Go compiler demands (`GraphInputs`). Three
theorems are about pure operators and state their hypotheses themselves. Each of the other proofs has the same parts: an inductive invariant, a lemma that `Init`
gives it, one lemma per action that keeps it, a lemma that combines them along `Next`, and the theorem, which adds `PTL`.
TLC finds every inductive invariant true on the instances of section 5. Few of the properties are inductive by
themselves, and what had to be added is where the argument lies:

| Module | Theorems | What the invariant adds, and why |
|---|---|---|
| `MemoryQueueProofs` | `TypeCorrect`, `CleanupNeverBlocks`, `ClosedOnce`, `AcceptedIsKept`, `SentOnce`, `CounterAgrees` | See below. |
| `LockProofs` | `RedisLockTyped`, `LeasesHonoured`, `DenialsAreTrue`, `RedisLockIsLeaseLock`, `DLockTyped`, `EntriesOutliveTTL`, `ExclusiveTyped` | `IdleQuiet`: no answer is under way to a client that asked nothing, so a command that is repeated belongs to the call that made it. `EntriesOutliveTTL` is inductive with the types, for any ttl, any clocks and any callers: a client with a lease is the one whose entry is there and has not expired, so no SET replaces it (`LeaseKeepsOthersOut`), and who deletes it either has that lease or robs it. `ExclusiveTyped` joins these invariants with that of `PgQueueProofs`, for the composition that picks one. |
| `PgQueueProofs` | `PgTypeCorrect`, `RowsHaveOneWorker`, `RowsEndWell`, `PgIsWorkQueue` | `WorkerKnowsItsJob`: a busy worker's copy of `attempts` is the row's, and its handler has succeeded exactly when it is about to delete. `NoSuccessYet`: a row that can still be fetched has no success and attempts left. Without them a second worker, or a late statement of the first, could end the row a second time. |
| `RedisStreamProofs` | `StreamTypeCorrect`, `HandlersCalledOnce`, `NoEntrySkipped`, `OnlyHandledDeleted` | `BatchesFit` and `CallsBounded`: for each group and entry, the calls made, plus the batches of live consumers the entry is still in, plus one if the group has not passed it, are at most one more than the groups lost. That sum, and not the number of calls, is what a read, a repeated read, a crash and a recreated group keep. `HandledWhenAcked`: XACK and XDEL come after a success. |
| `PoolProofs` | `EmbeddingsComplete`, `DocumentsServed`, `NoDeliveryLost`, `PoolsTyped` | Embedding: `ErrorsRecorded`, `AnswersKnown` and `TasksEndWell` relate `firstErr`, which the tasks read without its mutex, to what tasks did; `CallerKnows` is what `wg.Wait` tells the caller. Pipeline: `SemaphoreAddsUp` (tokens taken are goroutines that have not given theirs back), `TextsInOrder`, `ResultsGood`. Pub/sub: `HandWhenFull`, and the sum of `DeliveriesAddUp` itself. |
| `ContextProofs` | `ConversationKept`, `LastResultsKept` | `IDsDiffer` and `SystemFirst`: a message is at one place, so that a system message that is kept and a result that is put back are not taken for each other. `Coupled`: counted from the end, every two of the calls and results are a call and its result, from the second on while a tool is at work. See below. |
| `GraphProofs` | `GraphInvariant`, `GraphKeepsAnswers`, `GraphAgrees` | `ReadBefore`, `EntitiesFit`, `AreRelations`, `Remembered`, `LinksFit` and `Finished`; see below. |
| `ToolsProofs` | `CacheIsRight`, `TransactionsAndTenants`, `ProjectsApart`, `DigestIsWhole` | Cache: `RowFollows` (the row is what was stored last, or gone), `OwedWhenSettled` (what a Get that began undisturbed must answer). Tenants: `TxsNumbered`, `WritesInTxs` and `WritesNumbered` (a transaction is open or ended and never both, and a new write is new), `GetDBOutsideOfTx`. Digest: `MurmurInv` (the blocks mixed are those of the input, and the front of the array is its rest), kept by `Write` because of `BlocksOfConcat`. |
| `ToolsProofs` | `WindowsOverlap`, `PiecesFollow`, `PagesShowEveryRow` | Operators, without an invariant; see below. |

**The memory queue.** `TypeOK` is inductive as it stands, because it has the facts that controls imply (a publisher that is in the
middle of `Pub` has a message, a clean-up that holds the mutex has both queues). `CleanupNeverBlocks` and `ClosedOnce` rest on
`QueueInv`, the conjunction of `TypeOK`, the two properties, and

- `CleanupHoldsMutex`: the locals of a clean-up are set exactly while a clean-up holds the mutex, and the old queue
  is the one in the map, and closed;
- `MapQueueOpen`: whenever no clean-up holds the mutex, the channel in the map is open;
- `NewQueuePrivate`: nobody but its clean-up refers to the new queue.

They are needed because `CleanupFits` alone is not inductive: a publisher that could send into the new queue, or into the
old one after it was closed, would break the sum of the two lengths that `CleanupFits` bounds. The argument: the old queue
is closed, so it only shrinks (`SumsShrink`); a message that leaves it enters the new one or is dropped (`MoveOne`); a
dispatcher's receive only lowers the sum (`SumMonotone`). `ClosedOnce` follows because the clean-ups and `Close` close the channel in the map, which
`MapQueueOpen` says is open. Each step of the specification has its lemma (`Type…` for the types, `Queue…` for
`QueueInv`), and the theorems combine them.

The other three rest on `ClientInv`, which adds `MessageInv`, `OpenLive` and `CountInv`. `MessageInv` follows a message: it is in one channel or in
hand of one goroutine (`BuffersApart`, `InHand`), its fate says which (`FatesFit`, `PubsFit`), and a subscriber that has it is no longer among
the targets of a dispatcher that has it (`LogsFit`, `SubscribersFit`, `TargetsFit`): two dispatchers send one message twice only if both
took it from a channel. `OpenLive`: only the channel in the map and the one that replaces it are open, so nothing is accepted
into a channel that nobody reads. `CountInv` counts the publishers and the clean-up between a send and their change of the counter. Actions that leave messages alone share one lemma (`Quiet`).

**The compaction.** `LastResultsStay` says that the last *n* results of the list stay whole, but `buildCompactedState` keeps the last
2*n* calls and results together, in reverse, and calls that have no result among them would push a result out of that window. What rules
that out is `Coupled`, a property of the counts from the end (`FromEnd`): `ResultsAreHalf` concludes, with an injection from calls to results,
that at least half of what follows a result are results. A compaction keeps it because the window has an even length, so that reversing it
leaves every couple together (`BuiltCoupled`). It is proved, as it is checked, for agents that call one tool at a time. `ConversationKept` needs no
couples: `BuiltCovers` shows that what the new messages hold, through the one summary, is what the old ones held.

**The graph.** `BuildGraph` merges what goroutines bring in any order into three maps, and a second call goes on with the maps of the first, also of one that failed. `GraphInv`
says what holds at every point between: what any model said is in the maps (`Remembered`, where `named` and `related` are the history of the answers); a call that has passed its first
group has read every chunk (`ReadBefore`); a relation's chunks are among those of its ends, if these have no `#` in their titles (`AreRelations`), which lets entities grow while relations refer to them; links go both ways with one weight
(`LinksFit`); and after the last steps, until the next call begins, degrees are the counts and links those of the relations (`Finished`). The lemma `AddRelationsKeeps` follows the
loop over an answer one relation at a time; `SeparatorTellsApart` is why two titles without a `#` can be read back from their key, which no other pair then has. `GraphAgrees` needs a count beside: the sum of all degrees is the number of the ends of relations, by a bijection between the
ends and the pairs of an entity and its relation (`DegreesAdded`); that indirect chunks are found both ways follows from paths read backwards (`PathBothWays`).

**Induction.** The library's induction theorems take an operator, but a set can stand for what is shown of its elements: `Upward` and `UpTo` in `GraphProofs` say that a set which has 0, and
with n also n + 1, has all numbers, from the well-foundedness of `<`. With them what a recursive function returns is proved for every length: `MergedExists` and `AfterExists` (the recursive definitions
have a value at every length, which is what unfolding them needs), `ContentIs` and `BatchText` (the text of a batch has each position of its chunks once).

**Cutting by length.** `WindowsOverlap` and `PiecesFollow` say of any text, size and overlap what `FixedWindows` checks on small ones. `WindowsFrom` shows it
from where windows begin, with sums only; `WindowsOf` adds the products and that no window but the last reaches the end; `CeilDiv` says what rounding up gives, and `OverlapIs` that the overlap is smaller than
a window, whatever was asked for, so that a step is never 0. `PagesShowEveryRow` is the conjunct `PagesShowAll` of `StatementsAreTheRequests`: every row is on
the page that `FloorDiv` gives, and an earlier page ends before a later one begins.

Two refinements are proved step by step: `RedisLockIsLeaseLock` (a key's value is the owner, and a lease is over when the
key has expired) and `PgIsWorkQueue` (`PhaseOf` maps a row and the workers that have it to a phase of the abstract job; the invariant
supplies that a row has one worker and that the worker's number of attempts is the row's).

Lemmas that say what operators do, for any arguments, and that the proofs cite: `OccurrencesOfAppend` and
`OccurrencesOfTail` (how often a delivery is in a channel), `RestIs`, `BlockIs`, `BlocksAre` and
`BlocksOfConcat` (a sequence is cut into blocks from the front, and what follows its whole blocks is cut as if it stood
alone), `FloorDiv`, `CeilDiv`, `PieceIs` and `RestIsSuffix` (parts of a sequence), `CopyFits` (what an append into the array of a digest leaves there), `FromEndFalls`, `FromEndReaches`, `FromEndAdds` and
`FromEndOfInterval` (counts from the end of a set of places), `BuiltOf` (what a compacted state consists of), `MoveOne` and `SumsShrink` (the two channels of
a clean-up).

**Checked by TLC only**, and why:

- Liveness under fairness (`PubReturns`, `CloseStopsSubscribers`, `CloseReturns`, `EntriesReachAHandler`, `PoolsComeBack`): fairness
  is stated with `ENABLED`, which the prover does not know.
- `PartsKeptTogether`, `ChunkedWell`, `DiagramIsComplete`, the rest of `SplitWell`, and of `StatementsAreTheRequests` the conjuncts `WhereIsTheRequest` and `StatementKeepsData`: the splitters,
  the chunkers, the trees of conditions and the depth-first search are recursive operators, and the SMT backend is not available in a module that declares or reaches one. What was cut out of them
  is without recursion (`Windows`, `Pagination`).
- The properties of the runs that expect a violation are false.

## 8. What is not modelled, and why

- Components marked P in section 1: planned, see section 2. Of components marked M, what the inventory lists apart: the Redis wrapper, the
  resolver of sources and replicas, updates and the management calls of mem0 (one request each), the mixing arithmetic of Murmur3 and
  the short URLs. `PROJECT.json` calls these components partly modelled.
- The facade of the queues (`msq.go`, `mq_client.go`) chooses an implementation. Clients of Redis, databases, asynq, mail,
  HTTP, Hydra, model servers, telemetry and logging: one call of a library each, with no state of their own. Gin and
  gRPC middleware: functions of one request. Configuration, crypto, validation, helpers: conversions.
- In modelled components: the similarity of texts, a weight's value (only its rank matters), quoting and the wording of prompts, diagrams and SQL, the contents of messages, logging, statistics that are only printed (`GetStats`, `lastCleanup`), the
  creation of tables, connections and clients beyond the state they start in, `SliceOnly` (it keeps no state).
- External, and modelled by what the code relies on: the Go runtime (channels, select, mutex, garbage collection of
  channels), PostgreSQL (atomic statements, SKIP LOCKED, LISTEN/NOTIFY), Redis (atomic commands and scripts, consumer
  groups), go-redis (repeated commands), ants (capacity, release, recovery of panics).
