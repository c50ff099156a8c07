---------------------------- MODULE ToolsProofs ----------------------------
(***************************************************************************)
(* Proofs about three components that several callers share, the key-value *)
(* cache, the tenants' connections with their transactions, and the        *)
(* clients of the memory service, about the incremental digest, and about  *)
(* how rows are cut into pages and texts into windows.                     *)
(***************************************************************************)
EXTENDS KVCache, TenantData, MemClient, Murmur3, Pagination, Windows,
        FiniteSetTheorems, SequenceTheorems, TLAPS

-----------------------------------------------------------------------------
(* KVCache: the inductive invariant *)

Rows == [value : Values \cup {"none", "any"}, expireAt : Int]

Statements ==
    [step : {"idle", "del", "get", "cleanup"}]
        \cup [step : {"set"}, value : Values, ttl : TTLs, expireAt : Int]

CacheTypes ==
    /\ backend \in Backends
    /\ now \in Int
    /\ row \in Rows /\ latest \in Rows
    /\ pending \in [Callers -> Statements]
    /\ answer \in [Callers -> Rows]
    /\ owed \in [Callers -> Rows]

\* The server has what was stored last, or nothing: in redis only when that is over.
RowFollows ==
    \/ row = latest
    \/ row = NoRow /\ (backend = "redis" => ~InForce(latest))

\* Only a Get from PostgreSQL cleans up.
CleanupInPgsql == \A c \in Callers : pending[c].step = "cleanup" => backend = "pgsql"

\* A Get that knows what it has to find began, and is, without a write under way.
OwedWhenSettled ==
    \A c \in Callers : owed[c] # Open =>
        /\ Settled
        /\ owed[c] = IF InForce(latest) THEN latest ELSE NoRow

CacheInv ==
    /\ CacheTypes
    /\ RowFollows
    /\ CleanupInPgsql
    /\ OwedWhenSettled
    /\ CacheAnswers

LEMMA CacheInitHolds == CacheInit => CacheInv
<1> SUFFICES ASSUME CacheInit PROVE CacheInv
  OBVIOUS
<1>1. CacheTypes
  BY DEF CacheInit, CacheTypes, Rows, Statements, NoRow, Idle
<1>2. RowFollows /\ CleanupInPgsql
  BY DEF CacheInit, RowFollows, CleanupInPgsql, Idle
<1>3. OwedWhenSettled
  BY DEF CacheInit, OwedWhenSettled, Settled, InForce, Idle
<1>4. CacheAnswers
  BY DEF CacheInit, CacheAnswers
<1> QED BY <1>1, <1>2, <1>3, <1>4 DEF CacheInv

\* A Set or a Del that begins: nobody knows any more what is to be found.
LEMMA IssueKeepsInv ==
    ASSUME CacheInv, NEW c \in Callers, NEW s \in Statements, Issue(c, s),
           s.step \in {"set", "del"}
    PROVE  CacheInv'
<1>1. /\ pending' = [pending EXCEPT ![c] = s]
      /\ owed' = [d \in Callers |-> Open]
      /\ UNCHANGED <<backend, now, row, answer, latest>>
  BY DEF Issue
<1>2. CacheTypes'
  <2>1. Open \in Rows
    BY CacheAssumption DEF Open, Rows, Never
  <2> QED BY <1>1, <2>1 DEF CacheInv, CacheTypes
<1>3. RowFollows'
  BY <1>1 DEF CacheInv, RowFollows, InForce, Expired
<1>4. CleanupInPgsql'
  BY <1>1 DEF CacheInv, CacheTypes, CleanupInPgsql
<1>5. Open' = Open
  BY DEF Open, Never
<1>6. OwedWhenSettled'
  BY <1>1, <1>5 DEF OwedWhenSettled
<1>7. CacheAnswers'
  BY <1>1, <1>5 DEF CacheAnswers, GetReturned
<1> QED BY <1>2, <1>3, <1>4, <1>6, <1>7 DEF CacheInv

LEMMA WriteBeginsKeepsInv ==
    ASSUME CacheInv, NEW c \in Callers, SetBegin(c) \/ DelBegin(c)
    PROVE  CacheInv'
<1>1. CASE SetBegin(c)
  <2>1. PICK v \in Values, ttl \in TTLs :
            Issue(c, [step |-> "set", value |-> v, ttl |-> ttl, expireAt |-> now + ttl])
    BY <1>1 DEF SetBegin
  <2>2. [step |-> "set", value |-> v, ttl |-> ttl, expireAt |-> now + ttl] \in Statements
    BY CacheAssumption DEF Statements, CacheInv, CacheTypes
  <2> QED BY <2>1, <2>2, IssueKeepsInv
<1>2. CASE DelBegin(c)
  <2>1. [step |-> "del"] \in Statements
    BY DEF Statements
  <2> QED BY <1>2, <2>1, IssueKeepsInv DEF DelBegin
<1> QED BY <1>1, <1>2

\* While a write is under way, no Get knows what it has to find.
LEMMA NobodyKnows ==
    ASSUME CacheInv, NEW c \in Callers, pending[c].step \in {"set", "del"}
    PROVE  \A d \in Callers : owed[d] = Open
BY DEF CacheInv, OwedWhenSettled, Settled

LEMMA SetExecKeepsInv ==
    ASSUME CacheInv, NEW c \in Callers, SetExec(c)
    PROVE  CacheInv'
<1>1. /\ pending[c].step = "set"
      /\ latest' = row'
      /\ pending' = [pending EXCEPT ![c] = Idle]
      /\ UNCHANGED <<backend, now, answer, owed>>
  BY DEF SetExec
<1>2. \A d \in Callers : owed'[d] = Open'
  BY <1>1, NobodyKnows DEF Open, Never
<1>3. row' \in Rows
  <2>1. pending[c] \in [step : {"set"}, value : Values, ttl : TTLs, expireAt : Int]
    BY <1>1 DEF CacheInv, CacheTypes, Statements
  <2>2. /\ pending[c].value \in Values /\ pending[c].expireAt \in Int
        /\ pending[c].ttl \in Int
    BY <2>1, CacheAssumption
  <2>3. RedisEnd(pending[c]) \in Int
    BY <2>2, CacheAssumption DEF CacheInv, CacheTypes, RedisEnd, Never
  <2> QED BY <2>2, <2>3 DEF SetExec, Rows
<1>4. CacheTypes'
  BY <1>1, <1>3 DEF CacheInv, CacheTypes, Idle, Statements
<1>5. RowFollows'
  BY <1>1 DEF RowFollows
<1>6. CleanupInPgsql'
  BY <1>1 DEF CacheInv, CacheTypes, CleanupInPgsql, Idle
<1>7. OwedWhenSettled' /\ CacheAnswers'
  BY <1>2 DEF OwedWhenSettled, CacheAnswers, GetReturned
<1> QED BY <1>4, <1>5, <1>6, <1>7 DEF CacheInv

LEMMA DelExecKeepsInv ==
    ASSUME CacheInv, NEW c \in Callers, DelExec(c)
    PROVE  CacheInv'
<1>1. /\ pending[c].step \in {"del", "cleanup"}
      /\ row' = NoRow
      /\ latest' = IF pending[c].step = "del" THEN NoRow ELSE latest
      /\ pending' = [pending EXCEPT ![c] = Idle]
      /\ UNCHANGED <<backend, now, answer, owed>>
  BY DEF DelExec
<1>2. CacheTypes'
  BY <1>1 DEF CacheInv, CacheTypes, Idle, Statements, NoRow, Rows
<1>3. CleanupInPgsql'
  BY <1>1 DEF CacheInv, CacheTypes, CleanupInPgsql, Idle
<1>4. RowFollows'
  <2>1. CASE pending[c].step = "del"
    BY <1>1, <2>1 DEF RowFollows
  <2>2. CASE pending[c].step = "cleanup"
    BY <1>1, <2>2 DEF CacheInv, CleanupInPgsql, RowFollows
  <2> QED BY <1>1, <2>1, <2>2
<1>5. OwedWhenSettled' /\ CacheAnswers'
  <2>1. CASE pending[c].step = "del"
    <3>1. \A d \in Callers : owed'[d] = Open'
      BY <1>1, <2>1, NobodyKnows DEF Open, Never
    <3> QED BY <3>1 DEF OwedWhenSettled, CacheAnswers, GetReturned
  <2>2. CASE pending[c].step = "cleanup"
    <3>1. /\ latest' = latest
          /\ InForce(latest)' = InForce(latest)
          /\ Open' = Open
      BY <1>1, <2>2 DEF InForce, Expired, Open, Never
    <3>2. \A d \in Callers : /\ d # c => pending'[d] = pending[d]
                             /\ pending'[c].step = "idle"
      BY <1>1 DEF CacheInv, CacheTypes, Idle
    <3>3. Settled => Settled'
      BY <3>2 DEF Settled
    <3>4. OwedWhenSettled'
      BY <1>1, <3>1, <3>3 DEF CacheInv, OwedWhenSettled
    <3>5. \A d \in Callers : GetReturned(d)' => GetReturned(d)
      BY <1>1, <2>2, <3>1, <3>2 DEF GetReturned
    <3> QED BY <1>1, <3>4, <3>5 DEF CacheInv, CacheAnswers
  <2> QED BY <1>1, <2>1, <2>2
<1> QED BY <1>2, <1>3, <1>4, <1>5 DEF CacheInv

LEMMA GetBeginKeepsInv ==
    ASSUME CacheInv, NEW c \in Callers, GetBegin(c)
    PROVE  CacheInv'
<1> DEFINE new == IF ~Settled THEN Open ELSE IF InForce(latest) THEN latest ELSE NoRow
<1>1. /\ pending[c].step = "idle"
      /\ pending' = [pending EXCEPT ![c] = [step |-> "get"]]
      /\ owed' = [owed EXCEPT ![c] = new]
      /\ answer' = [answer EXCEPT ![c] = NoRow]
      /\ UNCHANGED <<backend, now, row, latest>>
  BY DEF GetBegin
<1>2. Open' = Open /\ Open \in Rows /\ NoRow \in Rows /\ InForce(latest)' = InForce(latest)
  BY <1>1, CacheAssumption DEF Open, Never, Rows, NoRow, InForce, Expired
<1>3. \A d \in Callers : /\ pending'[d].step = (IF d = c THEN "get" ELSE pending[d].step)
                         /\ owed'[d] = (IF d = c THEN new ELSE owed[d])
                         /\ answer'[d] = (IF d = c THEN NoRow ELSE answer[d])
  BY <1>1 DEF CacheInv, CacheTypes
<1>4. CacheTypes'
  <2>1. new \in Rows
    BY <1>2 DEF CacheInv, CacheTypes
  <2>2. [step |-> "get"] \in Statements
    BY DEF Statements
  <2> HIDE DEF new
  <2> QED BY <1>1, <1>2, <2>1, <2>2 DEF CacheInv, CacheTypes
<1>5. RowFollows'
  BY <1>1, <1>2 DEF CacheInv, RowFollows
<1>6. CleanupInPgsql'
  BY <1>1, <1>3 DEF CacheInv, CleanupInPgsql
<1>7. Settled' <=> Settled
  BY <1>1, <1>3 DEF Settled
<1>8. OwedWhenSettled'
  BY <1>1, <1>2, <1>3, <1>7 DEF CacheInv, OwedWhenSettled
<1>9. CacheAnswers'
  BY <1>1, <1>2, <1>3 DEF CacheInv, CacheAnswers, GetReturned
<1> QED BY <1>4, <1>5, <1>6, <1>8, <1>9 DEF CacheInv

LEMMA GetExecKeepsInv ==
    ASSUME CacheInv, NEW c \in Callers, GetExec(c)
    PROVE  CacheInv'
<1>1. PICK after \in {[step |-> "cleanup"], Idle} :
          /\ pending' = [pending EXCEPT ![c] = after]
          /\ after = [step |-> "cleanup"] => backend = "pgsql"
  BY DEF GetExec, Idle
<1>2. /\ pending[c].step = "get"
      /\ answer' = [answer EXCEPT ![c] = IF Live(row) THEN row ELSE NoRow]
      /\ UNCHANGED <<backend, now, row, latest, owed>>
  BY DEF GetExec
<1>3. Open' = Open /\ NoRow \in Rows /\ InForce(latest)' = InForce(latest)
  BY <1>2 DEF Open, Never, Rows, NoRow, InForce, Expired
<1>4. after \in Statements /\ after.step \in {"idle", "cleanup"}
      /\ (after.step = "cleanup" => backend = "pgsql")
  BY <1>1 DEF Idle, Statements
<1>5. \A d \in Callers : /\ pending'[d] = (IF d = c THEN after ELSE pending[d])
                         /\ answer'[d] = (IF d # c THEN answer[d]
                                          ELSE IF Live(row) THEN row ELSE NoRow)
  BY <1>1, <1>2 DEF CacheInv, CacheTypes
<1>6. CacheTypes'
  BY <1>1, <1>2, <1>3, <1>4 DEF CacheInv, CacheTypes
<1>7. RowFollows'
  BY <1>2, <1>3 DEF CacheInv, RowFollows
<1>8. CleanupInPgsql'
  BY <1>2, <1>4, <1>5 DEF CacheInv, CleanupInPgsql
<1>9. Settled' <=> Settled
  BY <1>2, <1>4, <1>5 DEF Settled
<1>10. OwedWhenSettled'
  BY <1>2, <1>3, <1>9 DEF CacheInv, OwedWhenSettled
<1>11. CacheAnswers'
  <2> SUFFICES ASSUME NEW d \in Callers, GetReturned(d)'
               PROVE  answer'[d] = owed'[d] \/ (backend' = "pgsql" /\ answer'[d] = NoRow)
    BY DEF CacheAnswers
  <2>1. CASE d = c
    <3>1. owed[c] = IF InForce(latest) THEN latest ELSE NoRow
      BY <1>2, <1>3, <2>1 DEF CacheInv, OwedWhenSettled, GetReturned
    <3>2. Live(row) = InForce(row)
      BY DEF Live, InForce
    <3>3. CASE row = latest
      BY <1>2, <1>5, <2>1, <3>1, <3>2, <3>3
    <3>4. CASE row = NoRow /\ (backend = "redis" => ~InForce(latest))
      <4>1. answer'[d] = NoRow
        BY <1>5, <2>1, <3>4
      <4>2. backend = "pgsql" \/ backend = "redis"
        BY DEF CacheInv, CacheTypes, Backends
      <4> QED BY <1>2, <2>1, <3>1, <3>4, <4>1, <4>2
    <3> QED BY <3>3, <3>4 DEF CacheInv, RowFollows
  <2>2. CASE d # c
    BY <1>2, <1>3, <1>5, <2>2 DEF CacheInv, CacheAnswers, GetReturned
  <2> QED BY <2>1, <2>2
<1> QED BY <1>6, <1>7, <1>8, <1>10, <1>11 DEF CacheInv

LEMMA TimePassesKeepsInv == CacheInv /\ TimePasses => CacheInv'
<1> SUFFICES ASSUME CacheInv, TimePasses PROVE CacheInv'
  OBVIOUS
<1>1. /\ now' = now + 1 /\ now \in Int
      /\ UNCHANGED <<backend, pending, answer, latest>>
      /\ row' = IF backend = "redis" /\ row # NoRow /\ now + 1 > row.expireAt THEN NoRow
                ELSE row
      /\ owed' = [c \in Callers |->
                    IF owed[c] # NoRow /\ now + 1 > owed[c].expireAt THEN Open ELSE owed[c]]
  BY DEF TimePasses, CacheInv, CacheTypes
<1>2. Open' = Open /\ Open \in Rows /\ NoRow \in Rows /\ latest.expireAt \in Int
  BY CacheAssumption DEF Open, Never, Rows, NoRow, CacheInv, CacheTypes
<1>3. CacheTypes'
  BY <1>1, <1>2 DEF CacheInv, CacheTypes
<1>4. InForce(latest)' <=> InForce(latest) /\ ~(now + 1 > latest.expireAt)
  BY <1>1, <1>2 DEF InForce, Expired
<1>5. RowFollows'
  BY <1>1, <1>4 DEF CacheInv, RowFollows
<1>6. CleanupInPgsql'
  BY <1>1 DEF CacheInv, CleanupInPgsql
<1>7. Settled' <=> Settled
  BY <1>1 DEF Settled
<1>8. \A c \in Callers : owed'[c] = owed[c] \/ owed'[c] = Open
  BY <1>1
<1>9. OwedWhenSettled'
  <2> SUFFICES ASSUME NEW c \in Callers, owed'[c] # Open
               PROVE  Settled /\ owed'[c] = IF InForce(latest)' THEN latest ELSE NoRow
    BY <1>1, <1>2, <1>7 DEF OwedWhenSettled
  <2>1. owed'[c] = owed[c] /\ ~(owed[c] # NoRow /\ now + 1 > owed[c].expireAt)
    BY <1>1
  <2>2. Settled /\ owed[c] = IF InForce(latest) THEN latest ELSE NoRow
    BY <2>1 DEF CacheInv, OwedWhenSettled
  <2>3. InForce(latest) => latest # NoRow
    BY DEF InForce
  <2> QED BY <1>4, <2>1, <2>2, <2>3
<1>10. CacheAnswers'
  BY <1>1, <1>2, <1>8 DEF CacheInv, CacheAnswers, GetReturned
<1> QED BY <1>3, <1>5, <1>6, <1>9, <1>10 DEF CacheInv

LEMMA CacheStutterKeepsInv == CacheInv /\ UNCHANGED cacheVars => CacheInv'
BY DEF cacheVars, CacheInv, CacheTypes, RowFollows, CleanupInPgsql, OwedWhenSettled, Settled,
       InForce, Expired, Open, Never, CacheAnswers, GetReturned

LEMMA CacheStepKeepsInv == CacheInv /\ [CacheNext]_cacheVars => CacheInv'
<1> SUFFICES ASSUME CacheInv, [CacheNext]_cacheVars
             PROVE  CacheInv'
  OBVIOUS
<1>1. ASSUME NEW c \in Callers,
             SetBegin(c) \/ SetExec(c) \/ DelBegin(c) \/ DelExec(c) \/ GetBegin(c) \/ GetExec(c)
      PROVE  CacheInv'
  BY <1>1, WriteBeginsKeepsInv, SetExecKeepsInv, DelExecKeepsInv, GetBeginKeepsInv,
     GetExecKeepsInv
<1>2. CASE TimePasses
  BY <1>2, TimePassesKeepsInv
<1>3. CASE UNCHANGED cacheVars
  BY <1>3, CacheStutterKeepsInv
<1> QED
  BY <1>1, <1>2, <1>3 DEF CacheNext

\* The key-value cache: with any callers, values and times to live (negative ones too),
\* a Get that no write overlaps answers with what was stored last, or in PostgreSQL
\* with nothing, and never with an earlier value.
THEOREM CacheIsRight == CacheSpec => []CacheAnswers
<1>1. CacheInv => CacheAnswers
  BY DEF CacheInv
<1> QED BY <1>1, CacheInitHolds, CacheStepKeepsInv, PTL DEF CacheSpec
-----------------------------------------------------------------------------
(* MemClient: the inductive invariant *)

MemTypes ==
    /\ client \in [Clients -> NewMemoryClient]
    /\ options \in [OptionSets ->
          [user : Users \cup {Absent}, names : Projects \cup {Absent},
           ids : Projects \cup {Absent}]]

MemInv == MemTypes /\ ClientsKeepToTheirProject

\* A client with ids goes to its own project, whatever the options have.
LEMMA OwnProject ==
    ASSUME MemTypes, NEW c \in Clients, NEW o \in OptionSets
    PROVE  /\ WithOwnProject(c, options[o])
                \in [user : Users \cup {Absent}, names : Projects \cup {Absent},
                     ids : Projects \cup {Absent}]
           /\ IsGiven(client[c].ids) =>
                 ProjectOf(WithOwnProject(c, options[o])) = client[c].ids
BY DEF MemTypes, WithOwnProject, NewMemoryClient, ProjectOf, IsGiven

LEMMA MemInitHolds == MemInit => MemInv
<1> SUFFICES ASSUME MemInit PROVE MemInv
  OBVIOUS
<1>1. MemTypes
  BY DEF MemInit, MemTypes, NewOptions
<1>2. ClientsKeepToTheirProject
  BY DEF MemInit, ClientsKeepToTheirProject, Absent
<1> QED BY <1>1, <1>2 DEF MemInv

LEMMA AddKeepsInv ==
    ASSUME MemInv, NEW c \in Clients, NEW o \in OptionSets, NEW outcome, Add(c, o, outcome)
    PROVE  MemInv'
<1> DEFINE sent == WithOwnProject(c, options[o])
           new == [id |-> serial', by |-> c, user |-> sent.user, project |-> ProjectOf(sent)]
<1>1. memories' \subseteq memories \cup {new} /\ UNCHANGED <<client, options, results>>
  BY DEF Add, Executes
<1>2. IsGiven(client[c].ids) => new.project = client[c].ids
  BY OwnProject DEF MemInv
<1>3. new.by = c
  OBVIOUS
<1> HIDE DEF new
<1>4. ASSUME NEW m \in memories', IsGiven(client[m.by].ids)
      PROVE  m.project = client[m.by].ids
  BY <1>1, <1>2, <1>3, <1>4 DEF MemInv, ClientsKeepToTheirProject
<1>5. ClientsKeepToTheirProject'
  BY <1>1, <1>4 DEF MemInv, ClientsKeepToTheirProject
<1> QED BY <1>1, <1>5 DEF MemInv, MemTypes

\* Search leaves the client's project in the options, and looks in it alone.
LEMMA SearchKeepsInv ==
    ASSUME MemInv, NEW c \in Clients, NEW o \in OptionSets, NEW outcome, Search(c, o, outcome)
    PROVE  MemInv'
<1> DEFINE sent == WithOwnProject(c, options[o])
<1>1. /\ options' = [options EXCEPT ![o] = sent]
      /\ results'.by = c
      /\ results'.memories \subseteq In(ProjectOf(sent))
      /\ UNCHANGED <<client, memories, serial>>
  BY DEF Search, Returns
<1>2. MemTypes'
  BY <1>1, OwnProject DEF MemInv, MemTypes
<1>3. IsGiven(client[c].ids) => \A m \in results'.memories : m.project = client[c].ids
  BY <1>1, OwnProject DEF MemInv, In
<1>4. ClientsKeepToTheirProject'
  BY <1>1, <1>3 DEF MemInv, ClientsKeepToTheirProject
<1> QED BY <1>2, <1>4 DEF MemInv

\* Other answers are not a Search's, and the deletes take memories away.
LEMMA OtherRequestsKeepInv ==
    ASSUME MemInv,
           /\ UNCHANGED <<client, options>>
           /\ memories' \subseteq memories
           /\ results' = results \/ results'.of # "Search"
    PROVE  MemInv'
BY DEF MemInv, MemTypes, ClientsKeepToTheirProject

LEMMA MemStepKeepsInv == MemInv /\ [MemNext]_memVars => MemInv'
<1> SUFFICES ASSUME MemInv, [MemNext]_memVars
             PROVE  MemInv'
  OBVIOUS
<1>1. ASSUME NEW outcome, NEW c \in Clients, NEW o \in OptionSets,
             Search(c, o, outcome) \/ Add(c, o, outcome)
      PROVE  MemInv'
  BY <1>1, AddKeepsInv, SearchKeepsInv
<1>2. ASSUME NEW outcome, NEW c, NEW id, GetAll(c, outcome) \/ Get(c, id, outcome)
      PROVE  MemInv'
  BY <1>2, OtherRequestsKeepInv DEF GetAll, Get, Returns
<1>3. ASSUME NEW outcome, NEW ids, NEW users,
             DeleteAll(outcome) \/ DeleteMemories(ids, outcome) \/ DeleteUsers(users, outcome)
      PROVE  MemInv'
  BY <1>3, OtherRequestsKeepInv DEF DeleteAll, DeleteMemories, DeleteUsers, Executes
<1>4. CASE UNCHANGED memVars
  BY <1>4, OtherRequestsKeepInv DEF memVars
<1> QED
  BY <1>1, <1>2, <1>3, <1>4 DEF MemNext

\* The clients of the memory service: one that was made with ids adds to its own project
\* and finds nothing of another one, with any options, used by any clients before.
THEOREM ProjectsApart == MemSpec => []ClientsKeepToTheirProject
<1>1. MemInv => ClientsKeepToTheirProject
  BY DEF MemInv
<1> QED BY <1>1, MemInitHolds, MemStepKeepsInv, PTL DEF MemSpec
-----------------------------------------------------------------------------
(* TenantData: the inductive invariant *)

Txs(r) == Len(open[r]) + Len(ended[r])
Endings == [tx : Nat, committed : BOOLEAN]
Writes == [request : Requests, n : Nat, tx : Nat]

TenantTypes ==
    /\ tenantOf \in [Requests -> Databases]
    /\ step \in [Requests -> {"run", "lock", "locked", "panicked"}]
    /\ open \in [Requests -> Seq(Nat)]
    /\ ended \in [Requests -> Seq(Endings)]
    /\ made \subseteq Writes
    /\ stored \in [Databases -> SUBSET made]
    /\ tenantDBs \subseteq Tenants
    /\ opened \in [Tenants -> Nat]

\* The writes of a request are numbered, so that the next one is new.
WritesNumbered ==
    \A r \in Requests :
        /\ IsFiniteSet(OfRequest(r))
        /\ \A w \in OfRequest(r) : w.n < Cardinality(OfRequest(r))

\* A request is in GetDB only outside of its transactions, and for a tenant.
GetDBOutsideOfTx ==
    \A r \in Requests :
        /\ step[r] # "run" => open[r] = <<>>
        /\ step[r] \in {"lock", "locked"} => tenantOf[r] \in Tenants

\* The transactions of a request are numbered in the order in which they begin, and
\* each of them is open or has ended, once.
TxsNumbered ==
    \A r \in Requests :
        /\ \A k \in DOMAIN open[r] : open[r][k] \in 1..Txs(r)
        /\ \A k \in DOMAIN ended[r] : ended[r][k].tx \in 1..Txs(r)
        /\ \A k, l \in DOMAIN open[r] : open[r][k] = open[r][l] => k = l
        /\ \A k \in DOMAIN open[r], l \in DOMAIN ended[r] : open[r][k] # ended[r][l].tx

\* A write inside of ExecTx belongs to a transaction that began.
WritesInTxs == \A w \in made : w.tx <= Txs(w.request)

TenantInv ==
    /\ TenantTypes
    /\ WritesNumbered
    /\ GetDBOutsideOfTx
    /\ TxsNumbered
    /\ WritesInTxs
    /\ AllOrNothing
    /\ OneConnectionPerTenant

LEMMA TenantInitHolds == TenantInit => TenantInv
<1> SUFFICES ASSUME TenantInit PROVE TenantInv
  OBVIOUS
<1>1. TenantTypes
  BY DEF TenantInit, TenantTypes
<1>2. WritesNumbered
  <2>1. \A r \in Requests : OfRequest(r) = {}
    BY DEF TenantInit, OfRequest
  <2> QED BY <2>1, FS_EmptySet DEF WritesNumbered
<1>3. GetDBOutsideOfTx /\ TxsNumbered /\ WritesInTxs
  BY DEF TenantInit, GetDBOutsideOfTx, TxsNumbered, WritesInTxs
<1>4. AllOrNothing /\ OneConnectionPerTenant
  BY DEF TenantInit, AllOrNothing, OneConnectionPerTenant
<1> QED BY <1>1, <1>2, <1>3, <1>4 DEF TenantInv

\* The next write of a request, and that it is not one of those that were made.
LEMMA NewWriteIsNew ==
    ASSUME TenantInv, NEW r \in Requests
    PROVE  /\ NewWrite(r) \in Writes /\ NewWrite(r) \notin made
           /\ NewWrite(r).request = r
           /\ open[r] = <<>> => NewWrite(r).tx = 0
           /\ open[r] # <<>> => /\ NewWrite(r).tx = Last(open[r])
                                /\ Len(open[r]) \in DOMAIN open[r]
                                /\ NewWrite(r).tx = open[r][Len(open[r])]
           /\ NewWrite(r).tx <= Txs(r)
<1>1. Cardinality(OfRequest(r)) \in Nat
  BY FS_CardinalityType DEF TenantInv, WritesNumbered
<1>2. open[r] \in Seq(Nat) /\ ended[r] \in Seq(Endings)
  BY DEF TenantInv, TenantTypes
<1>3. CASE open[r] = <<>>
  <2>1. NewWrite(r) = [request |-> r, n |-> Cardinality(OfRequest(r)), tx |-> 0]
    BY <1>3 DEF NewWrite
  <2>2. NewWrite(r) \notin made
    <3> SUFFICES ASSUME NewWrite(r) \in made PROVE FALSE
      OBVIOUS
    <3>1. NewWrite(r) \in OfRequest(r)
      BY <2>1 DEF OfRequest
    <3>2. NewWrite(r).n < Cardinality(OfRequest(r))
      BY <3>1 DEF TenantInv, WritesNumbered
    <3> QED BY <1>1, <2>1, <3>2
  <2>3. 0 <= Txs(r)
    <3>1. Len(open[r]) \in Nat /\ Len(ended[r]) \in Nat
      BY <1>2
    <3>2. \A a, b \in Nat : 0 <= a + b
      OBVIOUS
    <3> QED BY <3>1, <3>2 DEF Txs
  <2> QED BY <1>1, <1>3, <2>1, <2>2, <2>3 DEF Writes
<1>4. CASE open[r] # <<>>
  <2>1. /\ Len(open[r]) \in DOMAIN open[r]
        /\ Last(open[r]) = open[r][Len(open[r])]
        /\ Last(open[r]) \in Nat
    BY <1>2, <1>4 DEF Last
  <2>2. NewWrite(r) = [request |-> r, n |-> Cardinality(OfRequest(r)), tx |-> Last(open[r])]
    BY <1>4 DEF NewWrite
  <2>3. NewWrite(r) \notin made
    <3> SUFFICES ASSUME NewWrite(r) \in made PROVE FALSE
      OBVIOUS
    <3>1. NewWrite(r) \in OfRequest(r)
      BY <2>2 DEF OfRequest
    <3>2. NewWrite(r).n < Cardinality(OfRequest(r))
      BY <3>1 DEF TenantInv, WritesNumbered
    <3> QED BY <1>1, <2>2, <3>2
  <2>4. Last(open[r]) <= Txs(r)
    <3>1. Last(open[r]) \in 1..Txs(r)
      BY <2>1 DEF TenantInv, TxsNumbered
    <3> QED BY <3>1
  <2> QED BY <1>1, <1>4, <2>1, <2>2, <2>3, <2>4 DEF Writes
<1> QED BY <1>3, <1>4

\* One more write of a request.
LEMMA OneMoreWrite ==
    ASSUME TenantInv, NEW r \in Requests,
           made' = made \cup {NewWrite(r)}, UNCHANGED <<open, ended>>
    PROVE  WritesNumbered' /\ WritesInTxs' /\ TxsNumbered' /\ made' \subseteq Writes
<1> DEFINE w == NewWrite(r)
<1>1. w \in Writes /\ w \notin made /\ w.request = r /\ w.tx <= Txs(r)
  BY NewWriteIsNew
<1>2. w.n = Cardinality(OfRequest(r)) /\ w.n \in Nat
  BY FS_CardinalityType DEF NewWrite, TenantInv, WritesNumbered
<1> HIDE DEF w
<1>3. made' = made \cup {w}
  BY DEF w
<1>4. ASSUME NEW s \in Requests
      PROVE  /\ IsFiniteSet(OfRequest(s)')
             /\ \A v \in OfRequest(s)' : v.n < Cardinality(OfRequest(s)')
  <2>1. /\ IsFiniteSet(OfRequest(s)) /\ Cardinality(OfRequest(s)) \in Nat
        /\ \A v \in OfRequest(s) : v.n < Cardinality(OfRequest(s)) /\ v.n \in Nat
    BY FS_CardinalityType DEF TenantInv, WritesNumbered, TenantTypes, OfRequest, Writes
  <2>2. CASE s = r
    <3>1. OfRequest(s)' = OfRequest(s) \cup {w} /\ w \notin OfRequest(s)
      BY <1>1, <1>3, <2>2 DEF OfRequest
    <3>2. /\ IsFiniteSet(OfRequest(s)')
          /\ Cardinality(OfRequest(s)') = Cardinality(OfRequest(s)) + 1
      BY <2>1, <3>1, FS_AddElement
    <3>3. \A v \in OfRequest(s)' : v.n < Cardinality(OfRequest(s)) + 1
      BY <1>2, <2>1, <2>2, <3>1
    <3> QED BY <3>2, <3>3
  <2>3. CASE s # r
    <3>1. OfRequest(s)' = OfRequest(s)
      BY <1>1, <1>3, <2>3 DEF OfRequest
    <3> QED BY <2>1, <3>1
  <2> QED BY <2>2, <2>3
<1>5. WritesNumbered'
  BY <1>4 DEF WritesNumbered
<1>6. \A s \in Requests : Txs(s)' = Txs(s)
  BY DEF Txs
<1>7. \A v \in made : v.request \in Requests
  BY DEF TenantInv, TenantTypes, Writes
<1>8. WritesInTxs'
  BY <1>1, <1>3, <1>6, <1>7 DEF TenantInv, WritesInTxs
<1>9. TxsNumbered'
  BY <1>6 DEF TenantInv, TxsNumbered
<1>10. made' \subseteq Writes
  BY <1>1, <1>3 DEF TenantInv, TenantTypes
<1> QED BY <1>5, <1>8, <1>9, <1>10

\* A write inside of ExecTx is in no database yet, as its transaction has not ended.
LEMMA WriteInTxKeepsInv ==
    ASSUME TenantInv, NEW r \in Requests, WriteInTx(r)
    PROVE  TenantInv'
<1>1. PICK w : w = NewWrite(r)
  OBVIOUS
<1>2. /\ open[r] # <<>> /\ made' = made \cup {w}
      /\ UNCHANGED <<tenantOf, step, open, ended, stored, tenantDBs, opened, mu>>
  BY <1>1 DEF WriteInTx
<1>3. /\ w \notin made /\ w.request = r
      /\ Len(open[r]) \in DOMAIN open[r]
      /\ w.tx = open[r][Len(open[r])]
  BY <1>1, <1>2, NewWriteIsNew
<1>4. WritesNumbered' /\ WritesInTxs' /\ TxsNumbered' /\ made' \subseteq Writes
  BY <1>1, <1>2, OneMoreWrite
<1>5. TenantTypes'
  BY <1>2, <1>4 DEF TenantInv, TenantTypes
<1>6. GetDBOutsideOfTx'
  BY <1>2 DEF TenantInv, GetDBOutsideOfTx
<1>7. \A v : Committed(v)' = Committed(v)
  BY <1>2 DEF Committed
<1>8. ~Committed(w)
  BY <1>3 DEF Committed, TenantInv, TxsNumbered
<1>9. w.tx # 0
  <2>1. w.tx \in 1..Txs(r)
    BY <1>3 DEF TenantInv, TxsNumbered
  <2> QED BY <2>1
<1>10. \A d \in Databases : w \notin stored[d]
  BY <1>3 DEF TenantInv, TenantTypes
<1>11. AllOrNothing'
  BY <1>2, <1>7, <1>8, <1>10 DEF TenantInv, AllOrNothing
<1>12. OneConnectionPerTenant'
  BY <1>2, <1>9 DEF TenantInv, OneConnectionPerTenant
<1> QED BY <1>4, <1>5, <1>6, <1>11, <1>12 DEF TenantInv

\* A write outside of ExecTx is in one database at once.
LEMMA WriteToKeepsInv ==
    ASSUME TenantInv, NEW r \in Requests, open[r] = <<>>, WriteTo(r, tenantOf[r]),
           UNCHANGED <<tenantOf, open, ended>>,
           step' \in [Requests -> {"run", "lock", "locked", "panicked"}],
           GetDBOutsideOfTx',
           tenantDBs' \subseteq Tenants, opened' \in [Tenants -> Nat],
           \A t \in Tenants : opened'[t] = IF t \in tenantDBs' THEN 1 ELSE 0
    PROVE  TenantInv'
<1>1. PICK w : w = NewWrite(r)
  OBVIOUS
<1>2. PICK db \in Databases : db = tenantOf[r]
  BY DEF TenantInv, TenantTypes
<1>3. made' = made \cup {w} /\ stored' = [stored EXCEPT ![db] = @ \cup {w}]
  BY <1>1, <1>2 DEF WriteTo
<1>4. w \notin made /\ w.request = r /\ w.tx = 0
  BY <1>1, NewWriteIsNew
<1>5. WritesNumbered' /\ WritesInTxs' /\ TxsNumbered' /\ made' \subseteq Writes
  BY <1>1, <1>3, OneMoreWrite
<1>6. stored \in [Databases -> SUBSET made]
  BY DEF TenantInv, TenantTypes
<1>7. \A d \in Databases : stored'[d] = IF d = db THEN stored[d] \cup {w} ELSE stored[d]
  BY <1>3, <1>6
<1>8. TenantTypes'
  <2>1. stored' \in [Databases -> SUBSET made']
    BY <1>3, <1>6
  <2> QED BY <1>5, <2>1 DEF TenantInv, TenantTypes
<1>9. \A v : Committed(v)' = Committed(v)
  BY DEF Committed
<1>10. AllOrNothing'
  <2> SUFFICES ASSUME NEW v \in made', v.tx # 0
               PROVE  (\E d \in Databases : v \in stored'[d]) <=> Committed(v)
    BY <1>9 DEF AllOrNothing
  <2>1. v \in made /\ v # w
    BY <1>3, <1>4
  <2>2. \A d \in Databases : v \in stored'[d] <=> v \in stored[d]
    BY <1>7, <2>1
  <2> QED BY <2>1, <2>2 DEF TenantInv, AllOrNothing
<1>11. OneConnectionPerTenant'
  <2>1. ASSUME NEW v \in made', v.tx = 0, NEW d \in Databases
        PROVE  v \in stored'[d] <=> d = tenantOf[v.request]
    <3>1. CASE v = w
      BY <1>2, <1>4, <1>6, <1>7, <3>1
    <3>2. CASE v # w
      <4>1. v \in made
        BY <1>3, <3>2
      <4>2. v \in stored'[d] <=> v \in stored[d]
        BY <1>7, <3>2
      <4> QED BY <2>1, <4>1, <4>2 DEF TenantInv, OneConnectionPerTenant
    <3> QED BY <3>1, <3>2
  <2> QED BY <2>1 DEF OneConnectionPerTenant
<1> QED BY <1>5, <1>8, <1>10, <1>11 DEF TenantInv

LEMMA WriteAloneKeepsInv ==
    ASSUME TenantInv, NEW r \in Requests, WriteAlone(r)
    PROVE  TenantInv'
<1>1. /\ open[r] = <<>> /\ WriteTo(r, tenantOf[r])
      /\ UNCHANGED <<tenantOf, step, open, ended, tenantDBs, opened>>
  BY DEF WriteAlone
<1>2. GetDBOutsideOfTx'
  BY <1>1 DEF TenantInv, GetDBOutsideOfTx
<1>3. /\ step' \in [Requests -> {"run", "lock", "locked", "panicked"}]
      /\ tenantDBs' \subseteq Tenants /\ opened' \in [Tenants -> Nat]
      /\ \A t \in Tenants : opened'[t] = IF t \in tenantDBs' THEN 1 ELSE 0
  BY <1>1 DEF TenantInv, TenantTypes, OneConnectionPerTenant
<1> QED BY <1>1, <1>2, <1>3, WriteToKeepsInv

\* The second look under the lock is why the connection is opened once.
LEMMA ConnectToKeepsInv ==
    ASSUME TenantInv, NEW r \in Requests, ConnectTo(r)
    PROVE  TenantInv'
<1>1. /\ step[r] = "locked" /\ ConnectOnce(tenantOf[r]) /\ WriteTo(r, tenantOf[r])
      /\ step' = [step EXCEPT ![r] = "run"]
      /\ UNCHANGED <<tenantOf, open, ended>>
  BY DEF ConnectTo
<1>2. open[r] = <<>> /\ tenantOf[r] \in Tenants
  BY <1>1 DEF TenantInv, GetDBOutsideOfTx
<1>3. GetDBOutsideOfTx'
  BY <1>1 DEF TenantInv, TenantTypes, GetDBOutsideOfTx
<1>4. step' \in [Requests -> {"run", "lock", "locked", "panicked"}]
  BY <1>1 DEF TenantInv, TenantTypes
<1>5. PICK t \in Tenants : t = tenantOf[r]
  BY <1>2
<1>6. /\ tenantDBs' \subseteq Tenants /\ opened' \in [Tenants -> Nat]
      /\ \A s \in Tenants : opened'[s] = IF s \in tenantDBs' THEN 1 ELSE 0
  <2>1. /\ tenantDBs \subseteq Tenants /\ opened \in [Tenants -> Nat]
        /\ \A s \in Tenants : opened[s] = IF s \in tenantDBs THEN 1 ELSE 0
    BY DEF TenantInv, TenantTypes, OneConnectionPerTenant
  <2>2. CASE t \in tenantDBs /\ UNCHANGED <<opened, tenantDBs>>
    BY <2>1, <2>2
  <2>3. CASE /\ t \notin tenantDBs
             /\ opened' = [opened EXCEPT ![t] = @ + 1]
             /\ tenantDBs' = tenantDBs \cup {t}
    <3>1. opened[t] = 0
      BY <2>1, <2>3
    <3>2. \A s \in Tenants : opened'[s] = IF s = t THEN 1 ELSE opened[s]
      BY <2>1, <2>3, <3>1
    <3>3. opened' \in [Tenants -> Nat]
      BY <2>1, <2>3
    <3> QED BY <2>1, <2>3, <3>2, <3>3
  <2> QED BY <1>1, <1>5, <2>2, <2>3 DEF ConnectOnce
<1> QED BY <1>1, <1>2, <1>3, <1>4, <1>6, WriteToKeepsInv

\* Steps of GetDB that touch no data.
LEMMA GetDBStepsKeepInv ==
    ASSUME TenantInv, NEW r \in Requests, MissConnection(r) \/ Lock(r) \/ ConnectFails(r)
    PROVE  TenantInv'
<1>1. /\ UNCHANGED <<tenantOf, open, ended, made, stored, tenantDBs, opened>>
      /\ \E s \in {"lock", "locked", "panicked"} : step' = [step EXCEPT ![r] = s]
      /\ open[r] = <<>> /\ tenantOf[r] \in Tenants
  BY DEF MissConnection, Lock, ConnectFails, TenantInv, GetDBOutsideOfTx
<1>2. TenantTypes'
  BY <1>1 DEF TenantInv, TenantTypes
<1>3. GetDBOutsideOfTx'
  BY <1>1 DEF TenantInv, TenantTypes, GetDBOutsideOfTx
<1>4. WritesNumbered'
  BY <1>1 DEF TenantInv, WritesNumbered, OfRequest
<1>5. TxsNumbered' /\ WritesInTxs'
  BY <1>1 DEF TenantInv, TxsNumbered, WritesInTxs, Txs
<1>6. AllOrNothing' /\ OneConnectionPerTenant'
  BY <1>1 DEF TenantInv, AllOrNothing, Committed, OneConnectionPerTenant
<1> QED BY <1>2, <1>3, <1>4, <1>5, <1>6 DEF TenantInv
LEMMA BeginTxKeepsInv ==
    ASSUME TenantInv, NEW r \in Requests, BeginTx(r)
    PROVE  TenantInv'
<1>1. PICK n : n = Txs(r) + 1
  OBVIOUS
<1>2. /\ open' = [open EXCEPT ![r] = Append(@, n)] /\ step[r] = "run"
      /\ UNCHANGED <<tenantOf, step, ended, made, stored, tenantDBs, opened>>
  BY <1>1 DEF BeginTx, Txs
<1>3. /\ \A s \in Requests : open[s] \in Seq(Nat) /\ ended[s] \in Seq(Endings)
      /\ \A s \in Requests : Len(open[s]) \in Nat /\ Len(ended[s]) \in Nat
      /\ open \in [Requests -> Seq(Nat)]
  <2>1. /\ \A s \in Requests : open[s] \in Seq(Nat) /\ ended[s] \in Seq(Endings)
        /\ open \in [Requests -> Seq(Nat)]
    BY DEF TenantInv, TenantTypes
  <2> QED BY <2>1
<1>4. /\ n \in Nat /\ Txs(r) \in Nat /\ n # 0
  BY <1>1, <1>3 DEF Txs
<1>5. \A s \in Requests : open'[s] = IF s = r THEN Append(open[r], n) ELSE open[s]
  BY <1>2, <1>3
<1>6. /\ Len(open'[r]) = Len(open[r]) + 1
      /\ \A k \in DOMAIN open[r] : open'[r][k] = open[r][k]
      /\ open'[r][Len(open[r]) + 1] = n
      /\ \A k \in DOMAIN open'[r] : k \in DOMAIN open[r] \/ k = Len(open[r]) + 1
      /\ Len(open[r]) + 1 \notin DOMAIN open[r]
  <2>1. open[r] \in Seq(Nat) /\ open'[r] = Append(open[r], n) /\ n \in Nat
    BY <1>3, <1>4, <1>5
  <2> QED BY ONLY <2>1
<1>7. Txs(r)' = n /\ \A s \in Requests \ {r} : Txs(s)' = Txs(s)
  <2>1. Txs(r)' = n
    <3>1. Txs(r)' = Len(open'[r]) + Len(ended[r])
      BY <1>2 DEF Txs
    <3>2. \A a, b \in Nat : (a + 1) + b = (a + b) + 1
      OBVIOUS
    <3> QED BY <1>1, <1>3, <1>6, <3>1, <3>2 DEF Txs
  <2>2. \A s \in Requests \ {r} : Txs(s)' = Txs(s)
    BY <1>2, <1>5 DEF Txs
  <2> QED BY <2>1, <2>2
<1>8. TenantTypes'
  <2>1. open' \in [Requests -> Seq(Nat)]
    BY <1>2, <1>3, <1>4
  <2> QED BY <1>2, <2>1 DEF TenantInv, TenantTypes
<1>9. GetDBOutsideOfTx'
  BY <1>2, <1>5 DEF TenantInv, GetDBOutsideOfTx
<1>10. WritesNumbered'
  BY <1>2 DEF TenantInv, WritesNumbered, OfRequest
<1>11. WritesInTxs'
  <2> SUFFICES ASSUME NEW w \in made PROVE w.tx <= Txs(w.request)'
    BY <1>2 DEF WritesInTxs
  <2>1. w.tx \in Nat /\ w.request \in Requests /\ w.tx <= Txs(w.request)
    BY DEF TenantInv, TenantTypes, Writes, WritesInTxs
  <2>2. CASE w.request = r
    BY <1>1, <1>4, <1>7, <2>1, <2>2
  <2>3. CASE w.request # r
    BY <1>7, <2>1, <2>3
  <2> QED BY <2>2, <2>3
<1>12. TxsNumbered'
  <2> SUFFICES ASSUME NEW s \in Requests
               PROVE  /\ \A k \in DOMAIN open'[s] : open'[s][k] \in 1..Txs(s)'
                      /\ \A k \in DOMAIN ended[s] : ended[s][k].tx \in 1..Txs(s)'
                      /\ \A k, l \in DOMAIN open'[s] : open'[s][k] = open'[s][l] => k = l
                      /\ \A k \in DOMAIN open'[s], l \in DOMAIN ended[s] :
                            open'[s][k] # ended[s][l].tx
    BY <1>2 DEF TxsNumbered
  <2>1. /\ \A k \in DOMAIN open[s] : open[s][k] \in 1..Txs(s)
        /\ \A k \in DOMAIN ended[s] : ended[s][k].tx \in 1..Txs(s)
        /\ \A k, l \in DOMAIN open[s] : open[s][k] = open[s][l] => k = l
        /\ \A k \in DOMAIN open[s], l \in DOMAIN ended[s] : open[s][k] # ended[s][l].tx
    BY DEF TenantInv, TxsNumbered
  <2>2. CASE s # r
    <3>1. open'[s] = open[s] /\ Txs(s)' = Txs(s)
      BY <1>5, <1>7, <2>2
    <3> QED BY <2>1, <3>1
  <2>3. CASE s = r
    <3>1. \A x : x \in 1..Txs(r) => x \in 1..n /\ x # n
      BY <1>1, <1>4
    <3>2. n \in 1..n
      BY <1>4
    <3>3. \A k \in DOMAIN open[r] : open'[r][k] \in 1..n /\ open'[r][k] # n
      BY <1>6, <2>1, <2>3, <3>1
    <3>4. \A k \in DOMAIN ended[r] : ended[r][k].tx \in 1..n /\ ended[r][k].tx # n
      BY <2>1, <2>3, <3>1
    <3>5. \A k \in DOMAIN open'[r] : open'[r][k] \in 1..Txs(r)'
      BY <1>6, <1>7, <3>2, <3>3
    <3>6. \A k \in DOMAIN ended[r] : ended[r][k].tx \in 1..Txs(r)'
      BY <1>7, <3>4
    <3>7. ASSUME NEW k \in DOMAIN open'[r], NEW l \in DOMAIN open'[r],
                 open'[r][k] = open'[r][l]
          PROVE  k = l
      BY <1>6, <2>1, <2>3, <3>3, <3>7
    <3>8. ASSUME NEW k \in DOMAIN open'[r], NEW l \in DOMAIN ended[r]
          PROVE  open'[r][k] # ended[r][l].tx
      BY <1>6, <2>1, <2>3, <3>4
    <3> QED BY <2>3, <3>5, <3>6, <3>7, <3>8
  <2> QED BY <2>2, <2>3
<1>13. AllOrNothing' /\ OneConnectionPerTenant'
  BY <1>2 DEF TenantInv, AllOrNothing, Committed, OneConnectionPerTenant
<1> QED BY <1>8, <1>9, <1>10, <1>11, <1>12, <1>13 DEF TenantInv

\* The transaction tx, the innermost one of r, goes from the open ones to those that ended.
MovesTx(r, tx, committed) ==
    /\ open[r] # <<>> /\ tx = Last(open[r])
    /\ ended' = [ended EXCEPT ![r] = Append(@, [tx |-> tx, committed |-> committed])]
    /\ open' = [open EXCEPT ![r] = Front(@)]

\* The end of a transaction: the innermost one goes from open to ended.
LEMMA EndMovesTx ==
    ASSUME TenantInv, NEW r \in Requests, NEW tx, NEW committed \in BOOLEAN,
           MovesTx(r, tx, committed)
    PROVE  /\ open' \in [Requests -> Seq(Nat)]
           /\ ended' \in [Requests -> Seq(Endings)]
           /\ tx \in Nat /\ tx # 0
           /\ \A s \in Requests : Txs(s)' = Txs(s)
           /\ TxsNumbered'
           /\ \A k \in DOMAIN ended[r] : ended[r][k].tx # tx
           /\ \A s \in Requests \ {r} : ended'[s] = ended[s]
           /\ ended'[r] = Append(ended[r], [tx |-> tx, committed |-> committed])
<1> USE DEF MovesTx
<1>1. /\ open \in [Requests -> Seq(Nat)] /\ ended \in [Requests -> Seq(Endings)]
      /\ open[r] \in Seq(Nat) /\ ended[r] \in Seq(Endings)
  BY DEF TenantInv, TenantTypes
<1>2. PICK n \in Nat : n = Len(open[r])
  BY <1>1
<1>3. n > 0 /\ tx = open[r][n] /\ n \in DOMAIN open[r] /\ tx \in Nat
  BY <1>1, <1>2 DEF Last
<1>4. /\ open'[r] \in Seq(Nat) /\ Len(open'[r]) = n - 1
      /\ \A k \in DOMAIN open'[r] : /\ k \in DOMAIN open[r] /\ k # n
                                    /\ open'[r][k] = open[r][k]
  <2>1. open'[r] = SubSeq(open[r], 1, n - 1)
    BY <1>1, <1>2 DEF Front
  <2> QED BY <1>1, <1>2, <1>3, <2>1
<1>5. PICK e : e = [tx |-> tx, committed |-> committed]
  OBVIOUS
<1>6. ended'[r] = Append(ended[r], e) /\ e \in Endings /\ e.tx = tx
  BY <1>1, <1>3, <1>5 DEF Endings
<1>7. PICK m \in Nat : m = Len(ended[r])
  BY <1>1
<1>8. /\ ended'[r] \in Seq(Endings) /\ Len(ended'[r]) = m + 1
      /\ ended'[r][m + 1] = e
      /\ \A k \in DOMAIN ended[r] : ended'[r][k] = ended[r][k]
      /\ \A k \in DOMAIN ended'[r] : k \in DOMAIN ended[r] \/ k = m + 1
  BY <1>1, <1>6, <1>7
<1>9. \A s \in Requests \ {r} : ended'[s] = ended[s] /\ open'[s] = open[s]
  BY <1>1
<1>10. open' \in [Requests -> Seq(Nat)] /\ ended' \in [Requests -> Seq(Endings)]
  <2>1. /\ \A s \in Requests : open'[s] \in Seq(Nat) /\ ended'[s] \in Seq(Endings)
    BY <1>1, <1>4, <1>8, <1>9
  <2>2. /\ open' = [s \in Requests |-> open'[s]]
        /\ ended' = [s \in Requests |-> ended'[s]]
    BY <1>1
  <2> QED BY <2>1, <2>2
<1>11. \A s \in Requests : Txs(s)' = Txs(s)
  <2>1. Txs(r)' = (n - 1) + (m + 1)
    BY <1>4, <1>8 DEF Txs
  <2>2. Txs(r) = n + m
    BY <1>2, <1>7 DEF Txs
  <2>3. \A s \in Requests \ {r} : Txs(s)' = Txs(s)
    BY <1>9 DEF Txs
  <2> QED BY <2>1, <2>2, <2>3
<1>12. /\ \A s \in Requests : \A k \in DOMAIN open[s] : open[s][k] \in 1..Txs(s)
       /\ \A s \in Requests : \A k \in DOMAIN ended[s] : ended[s][k].tx \in 1..Txs(s)
       /\ \A s \in Requests : \A k, l \in DOMAIN open[s] : open[s][k] = open[s][l] => k = l
       /\ \A s \in Requests : \A k \in DOMAIN open[s], l \in DOMAIN ended[s] :
             open[s][k] # ended[s][l].tx
  BY DEF TenantInv, TxsNumbered
<1>13. tx \in 1..Txs(r) /\ \A k \in DOMAIN ended[r] : ended[r][k].tx # tx
  BY <1>3, <1>12
<1>14. tx # 0
  BY <1>13
<1>15. ASSUME NEW s \in Requests
       PROVE  /\ \A k \in DOMAIN open'[s] : open'[s][k] \in 1..Txs(s)
              /\ \A k \in DOMAIN ended'[s] : ended'[s][k].tx \in 1..Txs(s)
              /\ \A k, l \in DOMAIN open'[s] : open'[s][k] = open'[s][l] => k = l
              /\ \A k \in DOMAIN open'[s], l \in DOMAIN ended'[s] :
                    open'[s][k] # ended'[s][l].tx
  <2>1. CASE s # r
    BY <1>9, <1>12, <2>1
  <2>2. CASE s = r
    <3>1. \A k \in DOMAIN open'[r] : open'[r][k] \in 1..Txs(r) /\ open'[r][k] # tx
      BY <1>3, <1>4, <1>12
    <3>2. \A k \in DOMAIN ended'[r] : ended'[r][k].tx \in 1..Txs(r)
      BY <1>6, <1>8, <1>12, <1>13
    <3>3. \A k, l \in DOMAIN open'[r] : open'[r][k] = open'[r][l] => k = l
      BY <1>4, <1>12
    <3>4. ASSUME NEW k \in DOMAIN open'[r], NEW l \in DOMAIN ended'[r]
          PROVE  open'[r][k] # ended'[r][l].tx
      BY <1>4, <1>6, <1>8, <1>12, <3>1
    <3> QED BY <2>2, <3>1, <3>2, <3>3, <3>4
  <2> QED BY <2>1, <2>2
<1>16. TxsNumbered'
  BY <1>11, <1>15 DEF TxsNumbered
<1> QED BY <1>3, <1>5, <1>6, <1>9, <1>10, <1>11, <1>13, <1>14, <1>16

\* What was written in the transaction that ends was in no database before, and is in
\* the default one when it is committed.
LEMMA EndKeepsInv ==
    ASSUME TenantInv, NEW r \in Requests, NEW committed \in BOOLEAN, End(r, committed)
    PROVE  TenantInv'
<1>1. PICK tx : tx = Last(open[r])
  OBVIOUS
<1>2. PICK own : own = {w \in OfRequest(r) : committed /\ w.tx = tx}
  OBVIOUS
<1>3. /\ step[r] = "run" /\ open[r] # <<>>
      /\ stored' = [stored EXCEPT ![Mysql] = @ \cup own]
      /\ ended' = [ended EXCEPT ![r] = Append(@, [tx |-> tx, committed |-> committed])]
      /\ open' = [open EXCEPT ![r] = Front(@)]
      /\ UNCHANGED <<tenantOf, step, made, tenantDBs, opened>>
  BY <1>1, <1>2 DEF End
<1>4. /\ open' \in [Requests -> Seq(Nat)]
      /\ ended' \in [Requests -> Seq(Endings)]
      /\ tx \in Nat /\ tx # 0
      /\ \A s \in Requests : Txs(s)' = Txs(s)
      /\ TxsNumbered'
      /\ \A k \in DOMAIN ended[r] : ended[r][k].tx # tx
      /\ \A s \in Requests \ {r} : ended'[s] = ended[s]
      /\ ended'[r] = Append(ended[r], [tx |-> tx, committed |-> committed])
  <2>1. MovesTx(r, tx, committed)
    BY <1>1, <1>3 DEF MovesTx
  <2> QED BY <2>1, EndMovesTx
<1>5. Mysql \in Databases /\ own \subseteq made
      /\ \A w \in own : w.request = r /\ w.tx = tx /\ committed
  BY <1>2 DEF Databases, OfRequest
<1>6. stored \in [Databases -> SUBSET made]
      /\ \A w \in made : w.request \in Requests
  BY DEF TenantInv, TenantTypes, Writes
<1>7. \A d \in Databases : stored'[d] = IF d = Mysql THEN stored[d] \cup own ELSE stored[d]
  BY <1>3, <1>6
<1>8. TenantTypes'
  <2>1. stored' \in [Databases -> SUBSET made']
    BY <1>3, <1>5, <1>6
  <2> QED BY <1>3, <1>4, <2>1 DEF TenantInv, TenantTypes
<1>9. GetDBOutsideOfTx'
  <2>1. \A s \in Requests : s # r => open'[s] = open[s]
    BY <1>3 DEF TenantInv, TenantTypes
  <2> QED BY <1>3, <2>1 DEF TenantInv, GetDBOutsideOfTx
<1>10. WritesNumbered'
  BY <1>3 DEF TenantInv, WritesNumbered, OfRequest
<1>11. WritesInTxs'
  BY <1>3, <1>4, <1>6 DEF TenantInv, WritesInTxs
<1>12. ASSUME NEW w \in made, w.tx # 0
       PROVE  (\E d \in Databases : w \in stored'[d]) <=> Committed(w)'
  <2>1. (\E d \in Databases : w \in stored[d]) <=> Committed(w)
    BY <1>12 DEF TenantInv, AllOrNothing
  <2>2. CASE w.request = r /\ w.tx = tx
    <3>1. ~Committed(w)
      BY <1>4, <2>2 DEF Committed
    <3>2. Committed(w)' <=> committed
      <4>1. ended[r] \in Seq(Endings)
        BY DEF TenantInv, TenantTypes
      <4>2. PICK e : e = [tx |-> tx, committed |-> committed]
        OBVIOUS
      <4>3. PICK m \in Nat : m = Len(ended[r])
        BY <4>1
      <4>4. e \in Endings /\ ended'[r] = Append(ended[r], e)
        BY <1>4, <4>2 DEF Endings
      <4>5. /\ m + 1 \in DOMAIN ended'[r] /\ ended'[r][m + 1] = e
            /\ \A k \in DOMAIN ended'[r] :
                  k = m + 1 \/ (k \in DOMAIN ended[r] /\ ended'[r][k] = ended[r][k])
        BY <4>1, <4>3, <4>4
      <4>6. e = [tx |-> tx, committed |-> TRUE] <=> committed
        BY <4>2
      <4>7. \A k \in DOMAIN ended[r] : ended[r][k] # [tx |-> tx, committed |-> TRUE]
        BY <1>4
      <4>8. (\E k \in DOMAIN ended'[r] : ended'[r][k] = [tx |-> tx, committed |-> TRUE])
              <=> committed
        BY <4>5, <4>6, <4>7
      <4> QED BY <2>2, <4>8 DEF Committed
    <3>3. w \in own <=> committed
      BY <1>2, <2>2 DEF OfRequest
    <3>4. (\E d \in Databases : w \in stored'[d]) <=> committed
      BY <1>5, <1>7, <2>1, <3>1, <3>3
    <3> QED BY <3>2, <3>4
  <2>3. CASE ~(w.request = r /\ w.tx = tx)
    <3>1. \A d \in Databases : w \in stored'[d] <=> w \in stored[d]
      BY <1>5, <1>7, <2>3
    <3>2. Committed(w)' <=> Committed(w)
      <4>1. CASE w.request # r
        <5>1. ended'[w.request] = ended[w.request]
          BY <1>4, <1>6, <4>1
        <5> QED BY <5>1 DEF Committed
      <4>2. CASE w.request = r /\ w.tx # tx
        <5>1. ended[r] \in Seq(Endings)
          BY DEF TenantInv, TenantTypes
        <5>2. PICK e : e = [tx |-> tx, committed |-> committed]
          OBVIOUS
        <5>3. PICK m \in Nat : m = Len(ended[r])
          BY <5>1
        <5>4. e \in Endings /\ ended'[r] = Append(ended[r], e)
          BY <1>4, <5>2 DEF Endings
        <5>5. /\ ended'[r][m + 1] = e
              /\ \A k \in DOMAIN ended'[r] :
                    k = m + 1 \/ (k \in DOMAIN ended[r] /\ ended'[r][k] = ended[r][k])
              /\ \A k \in DOMAIN ended[r] : k \in DOMAIN ended'[r]
                                            /\ ended'[r][k] = ended[r][k]
          BY <5>1, <5>3, <5>4
        <5>6. PICK g : g = [tx |-> w.tx, committed |-> TRUE]
          OBVIOUS
        <5>7. e.tx = tx /\ g.tx = w.tx
          BY <5>2, <5>6
        <5>8. e # g
          BY <4>2, <5>7
        <5>9. (\E k \in DOMAIN ended'[r] : ended'[r][k] = g)
                <=> (\E k \in DOMAIN ended[r] : ended[r][k] = g)
          BY <5>5, <5>8
        <5> QED BY <4>2, <5>6, <5>9 DEF Committed
      <4> QED BY <2>3, <4>1, <4>2
    <3> QED BY <2>1, <3>1, <3>2
  <2> QED BY <2>2, <2>3
<1>13. AllOrNothing'
  BY <1>3, <1>12 DEF AllOrNothing
<1>14. OneConnectionPerTenant'
  <2>1. ASSUME NEW w \in made, w.tx = 0, NEW d \in Databases
        PROVE  w \in stored'[d] <=> d = tenantOf[w.request]
    <3>1. w \in stored'[d] <=> w \in stored[d]
      BY <1>4, <1>5, <1>7, <2>1
    <3> QED BY <2>1, <3>1 DEF TenantInv, OneConnectionPerTenant
  <2> QED BY <1>3, <2>1 DEF TenantInv, OneConnectionPerTenant
<1> QED BY <1>4, <1>8, <1>9, <1>10, <1>11, <1>13, <1>14 DEF TenantInv

LEMMA TenantStutterKeepsInv == TenantInv /\ UNCHANGED tenantVars => TenantInv'
<1> SUFFICES ASSUME TenantInv, UNCHANGED tenantVars PROVE TenantInv'
  OBVIOUS
<1>1. UNCHANGED <<tenantOf, step, open, ended, made, stored, tenantDBs, opened>>
  BY DEF tenantVars
<1>2. TenantTypes' /\ GetDBOutsideOfTx'
  BY <1>1 DEF TenantInv, TenantTypes, GetDBOutsideOfTx
<1>3. WritesNumbered'
  BY <1>1 DEF TenantInv, WritesNumbered, OfRequest
<1>4. TxsNumbered' /\ WritesInTxs'
  BY <1>1 DEF TenantInv, TxsNumbered, WritesInTxs, Txs
<1>5. AllOrNothing' /\ OneConnectionPerTenant'
  BY <1>1 DEF TenantInv, AllOrNothing, Committed, OneConnectionPerTenant
<1> QED BY <1>2, <1>3, <1>4, <1>5 DEF TenantInv

LEMMA TenantStepKeepsInv == TenantInv /\ [TenantNext]_tenantVars => TenantInv'
<1> SUFFICES ASSUME TenantInv, [TenantNext]_tenantVars
             PROVE  TenantInv'
  OBVIOUS
<1>1. ASSUME NEW r \in Requests,
             \/ WriteInTx(r) \/ WriteAlone(r)
             \/ MissConnection(r) \/ Lock(r) \/ ConnectTo(r) \/ ConnectFails(r)
             \/ BeginTx(r)
      PROVE  TenantInv'
  BY <1>1, WriteInTxKeepsInv, WriteAloneKeepsInv, GetDBStepsKeepInv, ConnectToKeepsInv,
     BeginTxKeepsInv
<1>2. ASSUME NEW r \in Requests, NEW committed \in BOOLEAN, End(r, committed)
      PROVE  TenantInv'
  BY <1>2, EndKeepsInv
<1>3. CASE UNCHANGED tenantVars
  BY <1>3, TenantStutterKeepsInv
<1> QED
  BY <1>1, <1>2, <1>3 DEF TenantNext

\* Tenants and transactions: for any requests and tenants and any nesting of ExecTx, the
\* writes of a transaction are committed together or not at all, and however many
\* requests of a tenant come first, one connection is opened and writes go nowhere else.
THEOREM TransactionsAndTenants == TenantSpec => []TenantsServed
<1>1. TenantInv => TenantsServed
  BY DEF TenantInv, TenantsServed
<1> QED BY <1>1, TenantInitHolds, TenantStepKeepsInv, PTL DEF TenantSpec
-----------------------------------------------------------------------------
(* Murmur3: whole blocks and the rest of a sequence *)

\* What is in the array before anything was written counts as a byte.
AnyByte == Byte \cup {CHOOSE b \in Byte : TRUE}
Bytes == Seq(AnyByte)

WholeBlocks(a) == Len(a) \div Block

LEMMA BlocksCounted ==
    ASSUME NEW a \in Bytes
    PROVE  /\ WholeBlocks(a) \in Nat
           /\ WholeBlocks(a) * Block <= Len(a)
           /\ Len(a) < WholeBlocks(a) * Block + Block
           /\ Block \in Nat /\ Block # 0
<1>1. Len(a) \in Nat /\ Block \in Nat \ {0}
  BY MurmurAssumption DEF Bytes
<1>2. \A n \in Nat, b \in Nat \ {0} :
          n \div b \in Nat /\ (n \div b) * b <= n /\ n < (n \div b) * b + b
  OBVIOUS
<1> QED BY <1>1, <1>2 DEF WholeBlocks

LEMMA RestIs ==
    ASSUME NEW a \in Bytes
    PROVE  /\ RestOf(a) \in Bytes
           /\ Len(RestOf(a)) = Len(a) - WholeBlocks(a) * Block
           /\ Len(RestOf(a)) < Block
           /\ \A n \in 1..Len(RestOf(a)) : RestOf(a)[n] = a[WholeBlocks(a) * Block + n]
<1>1. PICK m \in Nat : m = WholeBlocks(a) * Block /\ m <= Len(a) /\ Len(a) < m + Block
  BY BlocksCounted
<1>2. RestOf(a) = SubSeq(a, m + 1, Len(a))
  BY <1>1 DEF RestOf, WholeBlocks
<1>3. /\ SubSeq(a, m + 1, Len(a)) \in Bytes
      /\ Len(SubSeq(a, m + 1, Len(a))) = Len(a) - m
      /\ \A n \in 1..(Len(a) - m) : SubSeq(a, m + 1, Len(a))[n] = a[m + n]
  BY <1>1 DEF Bytes
<1>4. Len(RestOf(a)) = Len(a) - m
  BY <1>2, <1>3
<1>5. Len(a) \in Nat /\ Block \in Nat /\ Len(a) - m < Block
  BY <1>1, BlocksCounted DEF Bytes
<1>6. \A n \in 1..Len(RestOf(a)) : RestOf(a)[n] = a[m + n]
  BY <1>2, <1>3, <1>4
<1>7. Len(RestOf(a)) < Block
  BY <1>4, <1>5
<1>8. RestOf(a) \in Bytes
  BY <1>2, <1>3
<1> HIDE DEF Bytes
<1> QED BY <1>1, <1>4, <1>6, <1>7, <1>8

\* The k-th block of a sequence.
BlockOf(a, k) == SubSeq(a, (k - 1) * Block + 1, k * Block)

LEMMA BlockIs ==
    ASSUME NEW a \in Bytes, NEW k \in 1..WholeBlocks(a)
    PROVE  /\ BlockOf(a, k) \in Bytes
           /\ Len(BlockOf(a, k)) = Block
           /\ \A n \in 1..Block : /\ BlockOf(a, k)[n] = a[(k - 1) * Block + n]
                                  /\ (k - 1) * Block + n \in 1..Len(a)
<1>1. PICK m \in Nat : m = (k - 1) * Block /\ m + Block = k * Block /\ m + Block <= Len(a)
  <2>1. /\ WholeBlocks(a) \in Nat /\ WholeBlocks(a) * Block <= Len(a)
        /\ Block \in Nat /\ Len(a) \in Nat /\ k \in Nat /\ k >= 1 /\ k <= WholeBlocks(a)
    BY BlocksCounted DEF Bytes
  <2>2. \A i, j, b \in Nat : i <= j => i * b <= j * b
    OBVIOUS
  <2>3. k * Block <= WholeBlocks(a) * Block
    BY <2>1, <2>2
  <2>4. \A i, b \in Nat : i >= 1 => (i - 1) * b \in Nat /\ (i - 1) * b + b = i * b
    OBVIOUS
  <2>5. (k - 1) * Block \in Nat /\ (k - 1) * Block + Block = k * Block
    BY <2>1, <2>4
  <2>6. k * Block \in Nat /\ WholeBlocks(a) * Block \in Nat
    BY <2>1
  <2> QED BY <2>1, <2>3, <2>5, <2>6
<1>2. BlockOf(a, k) = SubSeq(a, m + 1, m + Block)
  BY <1>1 DEF BlockOf
<1>3. Block \in Nat /\ Len(a) \in Nat /\ a \in Seq(AnyByte)
  BY BlocksCounted DEF Bytes
<1>4. /\ SubSeq(a, m + 1, m + Block) \in Bytes
      /\ Len(SubSeq(a, m + 1, m + Block)) = Block
      /\ \A n \in 1..Block : /\ SubSeq(a, m + 1, m + Block)[n] = a[m + n]
                             /\ m + n \in 1..Len(a)
  <2>1. \A i \in (m + 1)..(m + Block) : a[i] \in AnyByte
    BY <1>1, <1>3
  <2>2. (m + Block) - (m + 1) + 1 = Block
    BY <1>1, <1>3
  <2>3. SubSeq(a, m + 1, m + Block) \in Seq(AnyByte)
    BY <1>1, <1>3, <2>1
  <2>4. Len(SubSeq(a, m + 1, m + Block)) = Block
    BY <1>1, <1>3, <2>2
  <2>5. ASSUME NEW n \in 1..Block
        PROVE  SubSeq(a, m + 1, m + Block)[n] = a[m + n] /\ m + n \in 1..Len(a)
    <3>1. m + n \in 1..Len(a)
      BY <1>1, <1>3
    <3>2. n \in 1..((m + Block) - (m + 1) + 1) /\ (m + 1) + n - 1 = m + n
      BY <1>1, <1>3
    <3> QED BY <1>1, <1>3, <3>1, <3>2
  <2> QED BY <2>3, <2>4, <2>5 DEF Bytes
<1> QED BY <1>1, <1>2, <1>4

LEMMA BlocksAre ==
    ASSUME NEW a \in Bytes
    PROVE  /\ BlocksOf(a) \in Seq(Bytes)
           /\ Len(BlocksOf(a)) = WholeBlocks(a)
           /\ \A k \in 1..WholeBlocks(a) : BlocksOf(a)[k] = BlockOf(a, k)
<1>1. BlocksOf(a) = [k \in 1..WholeBlocks(a) |-> BlockOf(a, k)]
  BY DEF BlocksOf, WholeBlocks, BlockOf
<1>2. \A k \in 1..WholeBlocks(a) : BlockOf(a, k) \in Bytes
  BY BlockIs
<1>3. WholeBlocks(a) \in Nat
  BY BlocksCounted
<1> HIDE DEF Bytes
<1> QED BY <1>1, <1>2, <1>3

\* Blocks are cut from the front: what follows the whole blocks of a sequence is cut
\* as if it stood alone.
LEMMA BlocksOfConcat ==
    ASSUME NEW a \in Bytes, NEW p \in Bytes
    PROVE  /\ BlocksOf(a \o p) = BlocksOf(a) \o BlocksOf(RestOf(a) \o p)
           /\ RestOf(a \o p) = RestOf(RestOf(a) \o p)
<1> DEFINE r == RestOf(a)
<1>1. PICK c : c = a \o p
  OBVIOUS
<1>2. PICK d : d = r \o p
  OBVIOUS
<1>3. PICK q \in Nat : q = WholeBlocks(a)
  BY BlocksCounted
<1>4. PICK m \in Nat : m = q * Block
  BY <1>3, BlocksCounted
<1>5. /\ r \in Bytes /\ Len(r) = Len(a) - m /\ Len(r) \in Nat /\ Len(a) \in Nat
      /\ \A n \in 1..Len(r) : r[n] = a[m + n]
  <2>1. /\ r \in Bytes /\ Len(r) = Len(a) - m
        /\ \A n \in 1..Len(r) : r[n] = a[m + n]
    BY <1>3, <1>4, RestIs
  <2> HIDE DEF r
  <2> QED BY <2>1 DEF Bytes
<1> HIDE DEF r
<1>6. /\ c \in Bytes /\ d \in Bytes /\ Len(c) = m + Len(d)
      /\ Len(c) \in Nat /\ Len(d) \in Nat
      /\ \A n \in 1..Len(d) : c[m + n] = d[n]
      /\ \A n \in 1..Len(a) : c[n] = a[n]
  <2>1. a \in Seq(AnyByte) /\ p \in Seq(AnyByte) /\ r \in Seq(AnyByte)
    BY <1>5 DEF Bytes
  <2>2. /\ c \in Seq(AnyByte) /\ Len(c) = Len(a) + Len(p)
        /\ \A n \in 1..Len(c) : c[n] = IF n <= Len(a) THEN a[n] ELSE p[n - Len(a)]
    BY <1>1, <2>1
  <2>3. /\ d \in Seq(AnyByte) /\ Len(d) = Len(r) + Len(p)
        /\ \A n \in 1..Len(d) : d[n] = IF n <= Len(r) THEN r[n] ELSE p[n - Len(r)]
    BY <1>2, <2>1
  <2>4. Len(c) \in Nat /\ Len(d) \in Nat /\ Len(p) \in Nat
    BY <2>1, <2>2, <2>3
  <2>5. Len(c) = m + Len(d)
    BY <1>5, <2>2, <2>3, <2>4
  <2>6. ASSUME NEW n \in 1..Len(d) PROVE c[m + n] = d[n]
    <3>1. m + n \in 1..Len(c)
      BY <1>4, <2>4, <2>5
    <3>2. CASE n <= Len(r)
      BY <1>5, <2>2, <2>3, <3>1, <3>2
    <3>3. CASE ~(n <= Len(r))
      <4>1. ~(m + n <= Len(a)) /\ m + n - Len(a) = n - Len(r)
        BY <1>5, <3>3
      <4>2. c[m + n] = p[m + n - Len(a)]
        BY <2>2, <3>1, <4>1
      <4>3. d[n] = p[n - Len(r)]
        BY <2>3, <3>3
      <4> QED BY <4>1, <4>2, <4>3
    <3> QED BY <3>2, <3>3
  <2>7. \A n \in 1..Len(a) : c[n] = a[n]
    BY <1>5, <2>2, <2>4
  <2> QED BY <2>2, <2>3, <2>4, <2>5, <2>6, <2>7 DEF Bytes
<1>7. PICK j \in Nat : j = WholeBlocks(d)
  BY <1>6, BlocksCounted
<1>8. Block \in Nat \ {0}
  BY MurmurAssumption
<1>9. WholeBlocks(c) = q + j
  <2>1. \A x, t \in Nat, b \in Nat \ {0} : (x * b + t) \div b = x + (t \div b)
    OBVIOUS
  <2>2. (q * Block + Len(d)) \div Block = q + (Len(d) \div Block)
    BY <1>6, <1>8, <2>1
  <2>3. Len(c) = q * Block + Len(d)
    BY <1>4, <1>6
  <2>4. WholeBlocks(c) = (q * Block + Len(d)) \div Block
    BY <2>3 DEF WholeBlocks
  <2> QED BY <1>7, <2>2, <2>4 DEF WholeBlocks
<1>10. \A l \in Int : (q + l) * Block = m + l * Block /\ l * Block \in Int
  <2>1. \A x, l \in Int, b \in Nat : (x + l) * b = x * b + l * b /\ l * b \in Int
    OBVIOUS
  <2> QED BY <1>4, <1>8, <2>1
<1>11. RestOf(c) = RestOf(d)
  <2>1. PICK k \in Int : k = j * Block
    BY <1>10
  <2>2. /\ RestOf(c) \in Bytes /\ Len(RestOf(c)) = Len(c) - (m + k)
        /\ \A n \in 1..Len(RestOf(c)) : RestOf(c)[n] = c[(m + k) + n]
    <3>1. WholeBlocks(c) * Block = m + k
      BY <1>7, <1>9, <1>10, <2>1
    <3>2. /\ RestOf(c) \in Bytes /\ Len(RestOf(c)) = Len(c) - WholeBlocks(c) * Block
          /\ \A n \in 1..Len(RestOf(c)) : RestOf(c)[n] = c[WholeBlocks(c) * Block + n]
      BY <1>6, RestIs
    <3> QED BY <3>1, <3>2
  <2>3. /\ RestOf(d) \in Bytes /\ Len(RestOf(d)) = Len(d) - k
        /\ \A n \in 1..Len(RestOf(d)) : RestOf(d)[n] = d[k + n]
    BY <1>6, <1>7, <2>1, RestIs
  <2>4. k >= 0
    BY <1>7, <1>8, <2>1
  <2>5. Len(RestOf(c)) = Len(RestOf(d))
    BY <1>6, <2>2, <2>3
  <2>6. ASSUME NEW n \in 1..Len(RestOf(d)) PROVE RestOf(c)[n] = RestOf(d)[n]
    <3>1. k + n \in 1..Len(d) /\ (m + k) + n = m + (k + n)
      BY <1>6, <2>3, <2>4
    <3> QED BY <1>6, <2>2, <2>3, <2>5, <3>1
  <2> QED BY <2>2, <2>3, <2>5, <2>6, SeqEqual DEF Bytes
<1>12. BlocksOf(c) = BlocksOf(a) \o BlocksOf(d)
  <2>1. /\ BlocksOf(c) \in Seq(Bytes) /\ Len(BlocksOf(c)) = q + j
        /\ \A k \in 1..(q + j) : BlocksOf(c)[k] = BlockOf(c, k)
    BY <1>6, <1>9, BlocksAre
  <2>2. /\ BlocksOf(a) \in Seq(Bytes) /\ Len(BlocksOf(a)) = q
        /\ \A k \in 1..q : BlocksOf(a)[k] = BlockOf(a, k)
    BY <1>3, BlocksAre
  <2>3. /\ BlocksOf(d) \in Seq(Bytes) /\ Len(BlocksOf(d)) = j
        /\ \A k \in 1..j : BlocksOf(d)[k] = BlockOf(d, k)
    BY <1>6, <1>7, BlocksAre
  <2>4. ASSUME NEW k \in 1..q PROVE BlockOf(c, k) = BlockOf(a, k)
    <3>1. k \in 1..WholeBlocks(c) /\ k \in 1..WholeBlocks(a)
      BY <1>3, <1>7, <1>9
    <3>2. /\ BlockOf(a, k) \in Bytes /\ Len(BlockOf(a, k)) = Block
          /\ \A n \in 1..Block : /\ BlockOf(a, k)[n] = a[(k - 1) * Block + n]
                                 /\ (k - 1) * Block + n \in 1..Len(a)
      BY <3>1, BlockIs
    <3>3. /\ BlockOf(c, k) \in Bytes /\ Len(BlockOf(c, k)) = Block
          /\ \A n \in 1..Block : BlockOf(c, k)[n] = c[(k - 1) * Block + n]
      BY <1>6, <3>1, BlockIs
    <3>4. \A n \in 1..Block : BlockOf(c, k)[n] = BlockOf(a, k)[n]
      BY <1>6, <3>2, <3>3
    <3> QED BY <3>2, <3>3, <3>4, SeqEqual DEF Bytes
  <2>5. ASSUME NEW l \in 1..j PROVE BlockOf(c, q + l) = BlockOf(d, l)
    <3>1. q + l \in 1..WholeBlocks(c) /\ l \in 1..WholeBlocks(d)
      BY <1>7, <1>9
    <3>2. PICK k \in Int : k = (l - 1) * Block
      BY <1>10
    <3>3. (q + l - 1) * Block = m + k
      <4>1. q + l - 1 = q + (l - 1) /\ l - 1 \in Int
        OBVIOUS
      <4> QED BY <1>10, <3>2, <4>1
    <3>4. /\ BlockOf(d, l) \in Bytes /\ Len(BlockOf(d, l)) = Block
          /\ \A n \in 1..Block : BlockOf(d, l)[n] = d[k + n] /\ k + n \in 1..Len(d)
      BY <1>6, <3>1, <3>2, BlockIs
    <3>5. /\ BlockOf(c, q + l) \in Bytes /\ Len(BlockOf(c, q + l)) = Block
          /\ \A n \in 1..Block : BlockOf(c, q + l)[n] = c[(m + k) + n]
      <4>1. /\ BlockOf(c, q + l) \in Bytes /\ Len(BlockOf(c, q + l)) = Block
            /\ \A n \in 1..Block : BlockOf(c, q + l)[n] = c[(q + l - 1) * Block + n]
        BY SMTT(30), <1>6, <3>1, BlockIs
      <4> QED BY <3>3, <4>1
    <3>6. ASSUME NEW n \in 1..Block PROVE BlockOf(c, q + l)[n] = BlockOf(d, l)[n]
      <4>1. (m + k) + n = m + (k + n)
        OBVIOUS
      <4> QED BY <1>6, <3>4, <3>5, <4>1
    <3> QED BY <3>4, <3>5, <3>6, SeqEqual DEF Bytes
  <2>6. PICK u : u = BlocksOf(a) \o BlocksOf(d)
    OBVIOUS
  <2>7. /\ u \in Seq(Bytes) /\ Len(u) = q + j
        /\ \A k \in 1..(q + j) : u[k] = IF k <= q THEN BlocksOf(a)[k] ELSE BlocksOf(d)[k - q]
    <3> HIDE DEF Bytes
    <3>1. \A x, y \in Seq(Bytes) :
              /\ x \o y \in Seq(Bytes) /\ Len(x \o y) = Len(x) + Len(y)
              /\ \A k \in 1..(Len(x) + Len(y)) :
                     (x \o y)[k] = IF k <= Len(x) THEN x[k] ELSE y[k - Len(x)]
      OBVIOUS
    <3> QED BY <2>2, <2>3, <2>6, <3>1
  <2>8. ASSUME NEW k \in 1..(q + j) PROVE BlocksOf(c)[k] = u[k]
    <3>1. CASE k <= q
      <4>1. k \in 1..q
        BY <3>1
      <4>2. BlocksOf(c)[k] = BlockOf(c, k) /\ u[k] = BlocksOf(a)[k]
        BY <2>1, <2>7, <3>1
      <4>3. BlocksOf(a)[k] = BlockOf(a, k) /\ BlockOf(c, k) = BlockOf(a, k)
        BY <2>2, <2>4, <4>1
      <4> QED BY <4>2, <4>3
    <3>2. CASE ~(k <= q)
      <4>1. PICK l \in 1..j : k = q + l /\ k - q = l
        <5>1. k - q \in 1..j /\ k = q + (k - q)
          BY <3>2
        <5> QED BY <5>1
      <4> QED BY <2>1, <2>3, <2>5, <2>7, <3>2, <4>1
    <3> QED BY <3>1, <3>2
  <2>9. Len(BlocksOf(c)) = Len(u) /\ Len(u) = q + j
    BY <2>1, <2>7
  <2> QED BY <2>1, <2>6, <2>7, <2>8, <2>9, SeqEqual
<1> QED BY <1>1, <1>2, <1>11, <1>12 DEF r

\* Fewer bytes than a block are all rest; exactly a block leaves none.
LEMMA NoBlockYet ==
    ASSUME NEW a \in Bytes, Len(a) < Block
    PROVE  BlocksOf(a) = <<>> /\ RestOf(a) = a
<1>1. Len(a) \in Nat /\ Block \in Nat \ {0}
  BY MurmurAssumption DEF Bytes
<1>2. \A n \in Nat, b \in Nat \ {0} : n < b => n \div b = 0
  OBVIOUS
<1>3. WholeBlocks(a) = 0
  BY <1>1, <1>2 DEF WholeBlocks
<1>4. Len(BlocksOf(a)) = 0 /\ BlocksOf(a) \in Seq(Bytes)
  BY <1>3, BlocksAre
<1>5. BlocksOf(a) = <<>>
  <2> HIDE DEF Bytes
  <2> QED BY <1>4, EmptySeq
<1>6. RestOf(a) = SubSeq(a, 0 * Block + 1, Len(a))
  BY <1>3 DEF RestOf, WholeBlocks
<1>7. 0 * Block + 1 = 1
  BY <1>1
<1>8. RestOf(a) = SubSeq(a, 1, Len(a))
  BY <1>6, <1>7
<1> QED BY <1>5, <1>8, SubSeqFull DEF Bytes

LEMMA OneBlock ==
    ASSUME NEW a \in Bytes, Len(a) = Block
    PROVE  BlocksOf(a) = <<a>> /\ RestOf(a) = <<>>
<1>1. Len(a) \in Nat /\ Block \in Nat \ {0}
  BY MurmurAssumption DEF Bytes
<1>2. \A b \in Nat \ {0} : b \div b = 1
  OBVIOUS
<1>3. WholeBlocks(a) = 1
  BY <1>1, <1>2 DEF WholeBlocks
<1>4. /\ Len(BlocksOf(a)) = 1 /\ BlocksOf(a) \in Seq(Bytes)
      /\ BlocksOf(a)[1] = BlockOf(a, 1)
  <2>1. 1 \in 1..WholeBlocks(a)
    BY <1>3
  <2>2. \A k \in 1..WholeBlocks(a) : BlocksOf(a)[k] = BlockOf(a, k)
    BY BlocksAre
  <2>3. Len(BlocksOf(a)) = 1 /\ BlocksOf(a) \in Seq(Bytes)
    BY <1>3, BlocksAre
  <2> QED BY <2>1, <2>2, <2>3
<1>5. (1 - 1) * Block + 1 = 1 /\ 1 * Block = Len(a)
  BY <1>1
<1>6. BlockOf(a, 1) = a
  BY <1>5, SubSeqFull DEF BlockOf, Bytes
<1>7. BlocksOf(a) = <<a>>
  <2> HIDE DEF Bytes
  <2>1. \A z \in Seq(Bytes) : Len(z) = 1 => z = <<z[1]>>
    OBVIOUS
  <2> QED BY <1>4, <1>6, <2>1
<1>8. 1 * Block + 1 = Len(a) + 1
  BY <1>1
<1>9. RestOf(a) = SubSeq(a, Len(a) + 1, Len(a))
  BY <1>3, <1>8 DEF RestOf, WholeBlocks
<1> QED BY <1>1, <1>7, <1>9, SubSeqEmpty

\* Copying into the array keeps its size, and its front is what was copied.
LEMMA CopyFits ==
    ASSUME NEW x \in Bytes, NEW array \in Bytes, Len(array) = Block, Len(x) <= Block
    PROVE  /\ CopyToBuf(x, array) \in Bytes
           /\ Len(CopyToBuf(x, array)) = Block
           /\ SubSeq(CopyToBuf(x, array), 1, Len(x)) = x
<1>1. /\ Len(x) \in Nat /\ Block \in Nat /\ x \in Seq(AnyByte) /\ array \in Seq(AnyByte)
  BY MurmurAssumption DEF Bytes
<1>2. PICK e : e = SubSeq(array, Len(x) + 1, Block)
  OBVIOUS
<1>3. e \in Seq(AnyByte) /\ Len(e) = Block - Len(x)
  <2>1. \A i \in (Len(x) + 1)..Block : array[i] \in AnyByte
    BY <1>1
  <2>2. Len(x) + 1 \in Int /\ Block \in Int
    BY <1>1
  <2>3. /\ e \in Seq(AnyByte)
        /\ Len(e) = IF Len(x) + 1 <= Block THEN Block - (Len(x) + 1) + 1 ELSE 0
    BY <1>2, <2>1, <2>2, SubSeqProperties
  <2> QED BY <1>1, <2>3
<1>4. PICK f : f = x \o e
  OBVIOUS
<1>5. /\ f \in Seq(AnyByte) /\ Len(f) = Len(x) + Len(e)
      /\ \A i \in 1..Len(x) : f[i] = x[i]
  BY <1>1, <1>3, <1>4
<1>6. Len(f) = Block
  BY <1>1, <1>3, <1>5
<1>7. SubSeq(f, 1, Len(x)) = x
  <2>1. \A i \in 1..Len(x) : f[i] \in AnyByte
    BY <1>1, <1>5
  <2>2. /\ SubSeq(f, 1, Len(x)) \in Seq(AnyByte)
        /\ Len(SubSeq(f, 1, Len(x))) = Len(x)
        /\ \A i \in 1..Len(x) : SubSeq(f, 1, Len(x))[i] = f[i]
    BY <1>1, <1>5, <1>6
  <2> QED BY <1>1, <1>5, <2>2, SeqEqual
<1>8. CopyToBuf(x, array) = f
  BY <1>2, <1>4 DEF CopyToBuf
<1> QED BY <1>5, <1>6, <1>7, <1>8 DEF Bytes

LEMMA MinOfTwo ==
    ASSUME NEW x \in Int, NEW y \in Int
    PROVE  Min({x, y}) = IF x <= y THEN x ELSE y
BY DEF Min

\* The digest so far is that of the input, and the array holds its rest.
MurmurInv ==
    /\ buf \in Bytes /\ Len(buf) = Block
    /\ input \in Bytes /\ clen = Len(input)
    /\ mixed = BlocksOf(input)
    /\ Pending = RestOf(input) /\ tail = Len(RestOf(input))

\* The state before the first Write and after Reset.
LEMMA EmptyDigest ==
    /\ <<>> \in Bytes /\ BlocksOf(<<>>) = <<>> /\ RestOf(<<>>) = <<>>
    /\ \A array : SubSeq(array, 1, 0) = <<>>
<1>1. <<>> \in Bytes /\ Len(<<>>) = 0
  BY DEF Bytes
<1>2. Len(<<>>) < Block
  BY <1>1, MurmurAssumption
<1>3. \A array : SubSeq(array, 1, 0) = <<>>
  BY SubSeqEmpty
<1> QED BY <1>1, <1>2, <1>3, NoBlockYet

LEMMA MurmurInitHolds == MurmurInit => MurmurInv
<1> SUFFICES ASSUME MurmurInit PROVE MurmurInv
  OBVIOUS
<1>1. buf \in Bytes /\ Len(buf) = Block
  <2>1. Block \in Nat /\ buf \in [1..Block -> AnyByte]
    BY MurmurAssumption DEF MurmurInit, AnyByte
  <2> QED BY <2>1 DEF Bytes
<1>2. mixed = <<>> /\ tail = 0 /\ clen = 0 /\ input = <<>>
  BY DEF MurmurInit
<1>3. Pending = <<>> /\ Len(<<>>) = 0
  BY <1>2, EmptyDigest DEF Pending
<1> QED BY <1>1, <1>2, <1>3, EmptyDigest DEF MurmurInv

LEMMA ResetKeepsInv ==
    ASSUME MurmurInv, Reset
    PROVE  MurmurInv'
<1>1. mixed' = <<>> /\ tail' = 0 /\ clen' = 0 /\ input' = <<>> /\ buf' = buf
  BY DEF Reset
<1>2. buf \in Bytes /\ Len(buf) = Block
  BY DEF MurmurInv
<1>3. Pending' = <<>> /\ Len(<<>>) = 0
  BY <1>1, EmptyDigest DEF Pending
<1> QED BY <1>1, <1>2, <1>3, EmptyDigest DEF MurmurInv, Bytes, AnyByte, BlocksOf, RestOf
\* A full array in front: it is mixed first, and then the blocks of what follows.
LEMMA WriteFillsArray ==
    ASSUME NEW array \in Bytes, NEW rest \in Bytes, Len(array) = Block
    PROVE  /\ BlocksOf(array \o rest) = <<array>> \o BlocksOf(rest)
           /\ RestOf(array \o rest) = RestOf(rest)
<1>1. BlocksOf(array) = <<array>> /\ RestOf(array) = <<>>
  BY OneBlock
<1>2. <<>> \o rest = rest
  BY ConcatEmptySeq DEF Bytes
<1>3. /\ BlocksOf(array \o rest) = BlocksOf(array) \o BlocksOf(RestOf(array) \o rest)
      /\ RestOf(array \o rest) = RestOf(RestOf(array) \o rest)
  BY BlocksOfConcat
<1> QED BY <1>1, <1>2, <1>3

\* A part of p in front of the rest of p.
LEMMA CutInTwo ==
    ASSUME NEW p \in Bytes, NEW n \in 0..Len(p)
    PROVE  /\ SubSeq(p, 1, n) \in Bytes /\ SubSeq(p, n + 1, Len(p)) \in Bytes
           /\ Len(SubSeq(p, 1, n)) = n
           /\ SubSeq(p, 1, n) \o SubSeq(p, n + 1, Len(p)) = p
<1>1. Len(p) \in Nat /\ p \in Seq(AnyByte) /\ n \in Nat /\ n <= Len(p)
  BY DEF Bytes
<1>2. SubSeq(p, 1, n) \in Seq(AnyByte) /\ Len(SubSeq(p, 1, n)) = n
  BY <1>1
<1>3. SubSeq(p, n + 1, Len(p)) \in Seq(AnyByte)
  BY <1>1
<1>4. 1 \in 1..(Len(p) + 1) /\ n \in (1 - 1)..Len(p) /\ Len(p) \in n..Len(p)
  BY <1>1
<1>5. SubSeq(p, 1, n) \o SubSeq(p, n + 1, Len(p)) = SubSeq(p, 1, Len(p))
  BY <1>1, <1>4, ConcatAdjacentSubSeq
<1>6. SubSeq(p, 1, Len(p)) = p
  BY <1>1, SubSeqFull
<1> QED BY <1>2, <1>3, <1>5, <1>6 DEF Bytes

LEMMA WriteKeepsInv ==
    ASSUME MurmurInv, NEW p \in Bytes, Write(p)
    PROVE  MurmurInv'
<1>1. PICK r \in Bytes : r = RestOf(input) /\ r = Pending /\ tail = Len(r) /\ Len(r) < Block
  BY RestIs DEF MurmurInv
<1>2. PICK fills \in BOOLEAN : fills <=> (tail > 0 /\ Block - tail < Len(p))
  OBVIOUS
<1>3. PICK array : array = IF tail > 0
                           THEN AppendToTail(SubSeq(p, 1, Min({Block - tail, Len(p)})))
                           ELSE buf
  OBVIOUS
<1>4. PICK rest : rest = CASE fills -> SubSeq(p, Block - tail + 1, Len(p))
                           [] tail > 0 /\ ~fills -> SubSeq(array, 1, tail + Len(p))
                           [] tail = 0 -> p
  OBVIOUS
<1>5. PICK extra : extra = IF fills THEN <<array>> ELSE <<>>
  OBVIOUS
<1>6. /\ clen' = clen + Len(p)
      /\ mixed' = mixed \o extra \o BlocksOf(rest)
      /\ tail' = Len(RestOf(rest))
      /\ buf' = CopyToBuf(RestOf(rest), array)
      /\ input' = input \o p
  BY <1>2, <1>3, <1>4, <1>5 DEF Write
<1>7. /\ Len(p) \in Nat /\ tail \in Nat /\ Block \in Nat /\ tail < Block
      /\ r \in Seq(AnyByte) /\ p \in Seq(AnyByte)
  BY <1>1, MurmurAssumption DEF Bytes
<1>8. r \o p \in Bytes /\ Len(r \o p) = tail + Len(p)
  BY <1>1, <1>7 DEF Bytes
<1>9. /\ array \in Bytes /\ Len(array) = Block /\ rest \in Bytes
      /\ extra \in Seq(Bytes)
      /\ BlocksOf(r \o p) = extra \o BlocksOf(rest)
      /\ RestOf(r \o p) = RestOf(rest)
  <2>1. CASE fills
    <3>1. PICK n \in Nat : n = Block - tail /\ n \in 0..Len(p) /\ tail > 0
      BY <1>2, <1>7, <2>1
    <3>2. Min({Block - tail, Len(p)}) = n
      BY <1>7, <3>1, MinOfTwo
    <3>3. /\ SubSeq(p, 1, n) \in Bytes /\ SubSeq(p, n + 1, Len(p)) \in Bytes
          /\ Len(SubSeq(p, 1, n)) = n
          /\ SubSeq(p, 1, n) \o SubSeq(p, n + 1, Len(p)) = p
      BY <3>1, CutInTwo
    <3>4. rest = SubSeq(p, n + 1, Len(p))
      BY <1>4, <2>1, <3>1
    <3>5. PICK front : front = r \o SubSeq(p, 1, n)
      OBVIOUS
    <3>6. front \in Bytes /\ Len(front) = Block
      <4>1. PICK s \in Seq(AnyByte) : s = SubSeq(p, 1, n)
        BY <3>3 DEF Bytes
      <4>2. front \in Seq(AnyByte) /\ Len(front) = Len(r) + Len(s)
        BY <1>7, <3>5, <4>1
      <4> QED BY <1>1, <1>7, <3>1, <3>3, <4>1, <4>2 DEF Bytes
    <3>7. array = CopyToBuf(front, buf)
      BY <1>1, <1>3, <3>1, <3>2, <3>5 DEF AppendToTail
    <3>8. array = front
      <4>1. /\ array \in Bytes /\ Len(array) = Block /\ SubSeq(array, 1, Len(front)) = front
        BY <1>7, <3>6, <3>7, CopyFits DEF MurmurInv
      <4>2. SubSeq(array, 1, Len(array)) = array
        BY <4>1, SubSeqFull DEF Bytes
      <4> QED BY <3>6, <4>1, <4>2
    <3>9. array \o rest = r \o p
      <4>1. (r \o SubSeq(p, 1, n)) \o rest = r \o (SubSeq(p, 1, n) \o rest)
        <5>1. PICK s, t \in Seq(AnyByte) : s = SubSeq(p, 1, n) /\ t = rest
          BY <3>3, <3>4 DEF Bytes
        <5>2. (r \o s) \o t = r \o (s \o t)
          BY SMTT(30), <1>7, ConcatAssociative
        <5> QED BY <5>1, <5>2
      <4> QED BY <3>3, <3>4, <3>5, <3>8, <4>1
    <3>10. extra = <<array>>
      BY <1>5, <2>1
    <3>11. /\ array \in Bytes /\ Len(array) = Block /\ rest \in Bytes
      BY <3>3, <3>4, <3>6, <3>8
    <3>12. extra \in Seq(Bytes)
      <4> HIDE DEF Bytes
      <4> QED BY <3>10, <3>11
    <3>13. /\ BlocksOf(r \o p) = <<array>> \o BlocksOf(rest)
           /\ RestOf(r \o p) = RestOf(rest)
      <4>1. /\ BlocksOf(array \o rest) = <<array>> \o BlocksOf(rest)
            /\ RestOf(array \o rest) = RestOf(rest)
        BY <3>11, WriteFillsArray
      <4> QED BY <3>9, <4>1
    <3> HIDE DEF Bytes
    <3> QED BY <3>10, <3>11, <3>12, <3>13
  <2>2. CASE ~fills /\ tail > 0
    <3>1. Min({Block - tail, Len(p)}) = Len(p)
      BY <1>2, <1>7, <2>2, MinOfTwo
    <3>2. SubSeq(p, 1, Len(p)) = p
      BY <1>7, SubSeqFull
    <3>3. array = CopyToBuf(r \o p, buf)
      BY <1>1, <1>3, <2>2, <3>1, <3>2 DEF AppendToTail
    <3>4. Len(r \o p) <= Block
      BY <1>2, <1>7, <1>8, <2>2
    <3>5. /\ array \in Bytes /\ Len(array) = Block
          /\ SubSeq(array, 1, Len(r \o p)) = r \o p
      BY <1>8, <3>3, <3>4, CopyFits DEF MurmurInv
    <3>6. rest = SubSeq(array, 1, tail + Len(p))
      <4>1. ~fills /\ tail > 0 /\ ~(tail = 0)
        BY <1>7, <2>2
      <4> QED BY <1>4, <4>1
    <3>7. rest = r \o p
      BY <1>8, <3>5, <3>6
    <3>8. extra = <<>>
      BY <1>5, <2>2
    <3>9. <<>> \o BlocksOf(rest) = BlocksOf(rest) /\ <<>> \in Seq(Bytes)
      BY <1>8, <3>7, BlocksAre, ConcatEmptySeq, EmptySeq
    <3> QED BY <1>8, <3>5, <3>7, <3>8, <3>9
  <2>3. CASE ~fills /\ ~(tail > 0)
    <3>1. tail = 0 /\ r = <<>>
      BY <1>1, <1>7, <2>3, EmptySeq DEF Bytes
    <3>2. array = buf
      BY <1>3, <2>3
    <3>3. rest = p
      BY <1>4, <2>3, <3>1
    <3>4. r \o p = p
      BY <1>7, <3>1, ConcatEmptySeq
    <3>5. extra = <<>>
      BY <1>5, <2>3
    <3>6. <<>> \o BlocksOf(rest) = BlocksOf(rest) /\ <<>> \in Seq(Bytes)
      BY <3>3, BlocksAre, ConcatEmptySeq, EmptySeq
    <3> QED BY <3>2, <3>3, <3>4, <3>5, <3>6 DEF MurmurInv
  <2>4. fills => tail > 0
    BY <1>2
  <2> QED BY <2>1, <2>2, <2>3, <2>4
<1>10. PICK c : c = input \o p
  OBVIOUS
<1>11. c \in Bytes /\ Len(c) = clen + Len(p)
  <2>1. input \in Seq(AnyByte)
    BY DEF MurmurInv, Bytes
  <2> QED BY <1>7, <1>10, <2>1 DEF MurmurInv, Bytes
<1>12. BlocksOf(c) = mixed \o extra \o BlocksOf(rest) /\ RestOf(c) = RestOf(rest)
  <2>1. /\ BlocksOf(c) = BlocksOf(input) \o BlocksOf(r \o p)
        /\ RestOf(c) = RestOf(r \o p)
    <3>1. input \in Bytes /\ r = RestOf(input)
      BY <1>1 DEF MurmurInv
    <3>2. /\ BlocksOf(input \o p) = BlocksOf(input) \o BlocksOf(RestOf(input) \o p)
          /\ RestOf(input \o p) = RestOf(RestOf(input) \o p)
      BY <3>1, BlocksOfConcat
    <3> QED BY <1>10, <3>1, <3>2
  <2>2. mixed = BlocksOf(input) /\ mixed \in Seq(Bytes) /\ BlocksOf(rest) \in Seq(Bytes)
    BY <1>9, BlocksAre DEF MurmurInv
  <2>3. (mixed \o extra) \o BlocksOf(rest) = mixed \o (extra \o BlocksOf(rest))
    BY <1>9, <2>2, ConcatAssociative
  <2> QED BY <1>9, <2>1, <2>2, <2>3
<1>13. PICK e : e = RestOf(rest)
  OBVIOUS
<1>14. e \in Bytes /\ Len(e) < Block /\ Len(e) \in Nat
  <2>1. e \in Bytes /\ Len(e) < Block
    BY <1>9, <1>13, RestIs
  <2> QED BY <2>1 DEF Bytes
<1>15. PICK f : f = CopyToBuf(e, array)
  OBVIOUS
<1>16. f \in Bytes /\ Len(f) = Block /\ SubSeq(f, 1, Len(e)) = e
  BY <1>7, <1>9, <1>14, <1>15, CopyFits
<1>17. /\ buf' = f /\ tail' = Len(e) /\ input' = c
       /\ mixed' = BlocksOf(c) /\ clen' = Len(c) /\ RestOf(c) = e
  BY <1>6, <1>10, <1>11, <1>12, <1>13, <1>15
<1>18. Pending' = e
  BY <1>16, <1>17 DEF Pending
<1>19. /\ buf' \in Bytes /\ Len(buf') = Block /\ input' \in Bytes
       /\ mixed' = BlocksOf(input') /\ clen' = Len(input')
       /\ Pending' = RestOf(input') /\ tail' = Len(RestOf(input'))
  BY <1>11, <1>16, <1>17, <1>18
<1> QED BY <1>19 DEF MurmurInv, Bytes, AnyByte, BlocksOf, RestOf

\* Murmur3: for any size of a block and any input, however it is cut into writes and
\* whatever earlier writes left in the array, the sum is that of the input at once.
THEOREM DigestIsWhole == MurmurSpec => []DigestOfTheWhole
<1>1. MurmurInv => DigestOfTheWhole
  <2> SUFFICES ASSUME MurmurInv PROVE DigestOfTheWhole
    OBVIOUS
  <2>1. tail < Block
    BY RestIs DEF MurmurInv
  <2> QED BY <2>1 DEF MurmurInv, DigestOfTheWhole, SumOf
<1>2. MurmurInv /\ [MurmurNext]_murmurVars => MurmurInv'
  <2> SUFFICES ASSUME MurmurInv, [MurmurNext]_murmurVars PROVE MurmurInv'
    OBVIOUS
  <2>1. ASSUME NEW n \in 0..MaxWrite, NEW p \in [1..n -> Byte], Write(p) PROVE MurmurInv'
    <3>1. p \in Bytes
      BY MurmurAssumption DEF Bytes, AnyByte
    <3> QED BY <2>1, <3>1, WriteKeepsInv
  <2>2. CASE Reset
    BY <2>2, ResetKeepsInv
  <2>3. CASE UNCHANGED murmurVars
    BY <2>3 DEF murmurVars, MurmurInv, Pending, Bytes, AnyByte, BlocksOf, RestOf
  <2> QED BY <2>1, <2>2, <2>3 DEF MurmurNext
<1> QED BY <1>1, <1>2, MurmurInitHolds, PTL DEF MurmurSpec

-----------------------------------------------------------------------------
(* Pagination and Windows: cutting by length *)

LEMMA FloorDiv ==
  ASSUME NEW a \in Nat, NEW b \in Nat \ {0}, NEW q, q = a \div b
  PROVE  q \in Nat /\ q * b <= a /\ a < q * b + b
OBVIOUS

LEMMA CeilDiv ==
  ASSUME NEW a \in Nat, NEW b \in Nat \ {0}, NEW n, n = a + b - 1, NEW q, q = n \div b
  PROVE  /\ q \in Nat /\ a <= q * b
         /\ a > 0 => q > 0 /\ (q - 1) * b < a
<1>1. n \in Nat
  OBVIOUS
<1>2. q \in Nat /\ q * b <= a + b - 1 /\ a + b - 1 < q * b + b
  BY <1>1, FloorDiv
<1>3. q * b \in Nat
  BY <1>2
<1>4. a <= q * b
  BY <1>2, <1>3
<1>5. ASSUME a > 0 PROVE q > 0 /\ (q - 1) * b < a
  <2>1. q # 0
    BY <1>4, <1>5
  <2>2. (q - 1) * b = q * b - b
    BY <1>2
  <2> QED BY <1>2, <1>3, <2>1, <2>2
<1> QED BY <1>2, <1>4, <1>5

LEMMA PageIs ==
  ASSUME NEW total \in Nat, NEW size \in 1..PageCap, NEW p \in Nat \ {0}, NEW r \in Int
  PROVE  r \in PageRows(p, size, total)
           <=> (p - 1) * size < r /\ r <= p * size /\ r <= total
<1> DEFINE from == (p - 1) * size
           to == Min({from + size, total})
<1>1. PageSize(size) = size /\ size \in Nat \ {0}
  BY DEF PageSize, PageCap
<1>2. Offset(p, size) = from
  BY <1>1 DEF Offset
<1>3. from \in Nat
  BY <1>1
<1>4. PageRows(p, size, total) = (from + 1)..to
  BY <1>1, <1>2 DEF PageRows
<1>5. to = IF from + size <= total THEN from + size ELSE total
  <2> HIDE DEF from
  <2> QED BY <1>1, <1>3, MinOfTwo
<1>6. from + size = p * size
  BY <1>1
<1> HIDE DEF from, to
<1>7. r \in PageRows(p, size, total) <=> from < r /\ r <= from + size /\ r <= total
  BY <1>1, <1>3, <1>4, <1>5
<1> QED BY <1>6, <1>7 DEF from

\* GormPaginate, CeilPageNum: for any number of rows and any size of a page up to the
\* cap, going through the pages counted shows every row once.
THEOREM PagesShowEveryRow ==
  ASSUME NEW total \in Nat, NEW size \in 1..PageCap
  PROVE  ShowAll([p \in 1..CeilPageNum(total, size) |-> PageRows(p, size, total)], total)
<1> DEFINE count == CeilPageNum(total, size)
           pages == [p \in 1..count |-> PageRows(p, size, total)]
<1>1. size \in Nat \ {0}
  BY DEF PageCap
<1>2. count \in Nat /\ total <= count * size
  <2> DEFINE n == total + size - 1
  <2>1. count = n \div size
    BY DEF CeilPageNum
  <2>2. n = total + size - 1
    OBVIOUS
  <2> HIDE DEF count, n
  <2> QED BY <1>1, <2>1, <2>2, CeilDiv
<1>3. \A p \in 1..count : pages[p] = PageRows(p, size, total) /\ p \in Nat \ {0}
  BY <1>2
<1>4. DOMAIN pages = 1..count
  OBVIOUS
<1> HIDE DEF count, pages
<1>5. ASSUME NEW r \in 1..total PROVE \E p \in 1..count : r \in pages[p]
  <2> DEFINE q == (r - 1) \div size
  <2>1. r - 1 \in Nat /\ r \in Nat
    BY <1>5
  <2>2. q \in Nat /\ q * size <= r - 1 /\ r - 1 < q * size + size
    BY <1>1, <2>1, FloorDiv
  <2> HIDE DEF q
  <2>3. q < count
    <3>1. SUFFICES ASSUME count <= q PROVE FALSE
      BY <1>2, <2>2
    <3>2. count * size <= q * size
      BY <1>1, <1>2, <2>2, <3>1
    <3>3. count * size \in Nat /\ q * size \in Nat
      BY <1>1, <1>2, <2>2
    <3> QED BY <1>2, <1>5, <2>1, <2>2, <3>2, <3>3
  <2> DEFINE p == q + 1
  <2>4. p \in 1..count /\ p \in Nat \ {0}
    BY <1>2, <2>2, <2>3
  <2>5. (p - 1) * size < r /\ r <= p * size /\ r <= total
    <3>1. p - 1 = q /\ p * size = q * size + size /\ q * size \in Nat
      BY <1>1, <2>2
    <3> HIDE DEF p
    <3> QED BY <1>1, <1>5, <2>1, <2>2, <3>1
  <2> HIDE DEF p
  <2>6. r \in PageRows(p, size, total)
    BY <2>1, <2>4, <2>5, PageIs
  <2> QED BY <1>3, <2>4, <2>6
<1>6. ASSUME NEW p \in 1..count, NEW r \in pages[p]
      PROVE  r \in 1..total /\ (p - 1) * size < r /\ r <= p * size
  <2>1. p \in Nat \ {0} /\ r \in PageRows(p, size, total)
    BY <1>3, <1>6
  <2>2. r \in Int
    BY <2>1 DEF PageRows
  <2>3. (p - 1) * size < r /\ r <= p * size /\ r <= total
    BY <2>1, <2>2, PageIs
  <2>4. (p - 1) * size \in Nat
    BY <1>1, <2>1
  <2> QED BY <2>2, <2>3, <2>4
<1>7. \A r : r \in UNION {pages[p] : p \in 1..count} <=> r \in 1..total
  BY <1>5, <1>6
<1>8. ASSUME NEW p \in 1..count, NEW q \in 1..count, p < q,
             NEW r, r \in pages[p], r \in pages[q]
      PROVE  FALSE
  <2>1. r \in Int /\ (q - 1) * size < r /\ r <= p * size
    BY <1>6, <1>8
  <2>2. p \in Nat /\ q \in Nat /\ p <= q - 1
    BY <1>2, <1>8
  <2>3. p * size <= (q - 1) * size
    BY <1>1, <2>2
  <2>4. p * size \in Nat /\ (q - 1) * size \in Nat
    BY <1>1, <1>8, <2>2
  <2> QED BY <2>1, <2>3, <2>4
<1>9. ASSUME NEW p \in 1..count, NEW q \in 1..count, p # q
      PROVE  pages[p] \intersect pages[q] = {}
  <2>1. p < q \/ q < p
    BY <1>2, <1>9
  <2> QED BY <1>8, <2>1
<1>10. UNION {pages[p] : p \in 1..count} = 1..total
  BY <1>7
<1>11. ShowAll(pages, total)
  BY <1>4, <1>9, <1>10 DEF ShowAll
<1> QED BY <1>11 DEF pages, count

LEMMA MaxOfTwo ==
  ASSUME NEW x \in Int, NEW y \in Int
  PROVE  Max({x, y}) = IF x <= y THEN y ELSE x
BY DEF Max

LEMMA PieceIs ==
  ASSUME NEW S, NEW t \in Seq(S), NEW a \in Nat, NEW b \in Nat, a <= b, b <= Len(t)
  PROVE  /\ SubSeq(t, a + 1, b) \in Seq(S)
         /\ Len(SubSeq(t, a + 1, b)) = b - a
         /\ \A i \in 1..(b - a) : SubSeq(t, a + 1, b)[i] = t[a + i]
<1>1. \A i \in (a + 1)..b : t[i] \in S
  OBVIOUS
<1>2. a + 1 \in Int /\ b \in Int
  OBVIOUS
<1>3. /\ SubSeq(t, a + 1, b) \in Seq(S)
      /\ Len(SubSeq(t, a + 1, b)) = IF a + 1 <= b THEN b - (a + 1) + 1 ELSE 0
      /\ \A i \in 1..(b - (a + 1) + 1) : SubSeq(t, a + 1, b)[i] = t[a + 1 + i - 1]
  BY <1>1, <1>2, SubSeqProperties
<1> QED BY <1>3

\* The runes of t from a on are a suffix of t.
LEMMA RestIsSuffix ==
  ASSUME NEW S, NEW t \in Seq(S), NEW a \in Nat, a <= Len(t)
  PROVE  IsSuffix(SubSeq(t, a + 1, Len(t)), t)
<1> DEFINE s == SubSeq(t, a + 1, Len(t))
           n == Len(t) - a
<1>1. n \in Nat /\ Len(t) \in Nat
  OBVIOUS
<1>2. s \in Seq(S) /\ Len(s) = n /\ \A i \in 1..n : s[i] = t[a + i]
  BY <1>1, PieceIs
<1> HIDE DEF s
<1> DEFINE rs == Reverse(s)
           rt == Reverse(t)
<1>3. rs = [i \in 1..n |-> s[n - i + 1]]
  BY <1>2 DEF Reverse
<1>4. rt = [i \in 1..Len(t) |-> t[Len(t) - i + 1]]
  BY DEF Reverse
<1>5. \A i \in 1..n : n - i + 1 \in 1..n /\ a + (n - i + 1) = Len(t) - i + 1
  BY <1>1
<1>6. \A i \in 1..Len(t) : Len(t) - i + 1 \in 1..Len(t)
  BY <1>1
<1>7. rs \in Seq(S) /\ Len(rs) = n
  BY <1>1, <1>2, <1>3, <1>5
<1>8. rt \in Seq(S) /\ Len(rt) = Len(t)
  BY <1>1, <1>4, <1>6
<1>9. \A i \in 1..n : rs[i] = rt[i]
  <2> SUFFICES ASSUME NEW i \in 1..n PROVE rs[i] = rt[i]
    OBVIOUS
  <2>1. rs[i] = t[a + (n - i + 1)]
    BY <1>2, <1>3, <1>5
  <2>2. i \in 1..Len(t)
    BY <1>1
  <2>3. rt[i] = t[Len(t) - i + 1]
    BY <1>4, <2>2
  <2> QED BY <1>5, <2>1, <2>3
<1> HIDE DEF rs, rt, n
<1>10. n <= Len(t)
  BY DEF n
<1>11. \A i \in 1..n : SubSeq(rs, 0 + 1, n)[i] = rs[0 + i] /\ SubSeq(rt, 0 + 1, n)[i] = rt[0 + i]
  BY <1>1, <1>7, <1>8, <1>10, PieceIs
<1>12. /\ SubSeq(rs, 0 + 1, n) \in Seq(S) /\ Len(SubSeq(rs, 0 + 1, n)) = n - 0
       /\ SubSeq(rt, 0 + 1, n) \in Seq(S) /\ Len(SubSeq(rt, 0 + 1, n)) = n - 0
  BY <1>1, <1>7, <1>8, <1>10, PieceIs
<1>13. SubSeq(rs, 1, n) = SubSeq(rt, 1, n)
  BY <1>1, <1>9, <1>11, <1>12, SeqEqual
<1>14. IsPrefix(rs, rt)
  BY <1>7, <1>8, <1>10, <1>13 DEF IsPrefix
<1> QED BY <1>14 DEF IsSuffix, rs, rt, s

LEMMA LongEnough ==
  ASSUME NEW S, NEW t \in Seq(S), t # <<>>
  PROVE  Len(t) \in Nat \ {0}
BY EmptySeq

\* Windows of size runes, step apart, up to the first that reaches the end of the
\* text: B[k] is where the k-th begins.
LEMMA WindowsFrom ==
  ASSUME NEW S, NEW t \in Seq(S), t # <<>>,
         NEW size \in Nat \ {0}, NEW stride \in 1..size, NEW n \in Nat,
         NEW B, NEW docs
  PROVE  ( /\ \A k \in 1..(n + 1) : B[k] \in Nat
           /\ \A k \in 1..n : B[k + 1] = B[k] + stride /\ B[k] + size < Len(t)
           /\ B[1] = 0 /\ Len(t) <= B[n + 1] + size
           /\ Len(docs) = n + 1
           /\ \A k \in 1..(n + 1) :
                docs[k] = SubSeq(t, B[k] + 1, Min({B[k] + size, Len(t)})) )
         => AreWindows(docs, t, size, size - stride)
<1> DEFINE shared == size - stride
           end == Len(t)
<1>0. SUFFICES
        ASSUME \A k \in 1..(n + 1) : B[k] \in Nat,
               \A k \in 1..n : B[k + 1] = B[k] + stride /\ B[k] + size < end,
               B[1] = 0 /\ end <= B[n + 1] + size,
               Len(docs) = n + 1,
               \A k \in 1..(n + 1) :
                  docs[k] = SubSeq(t, B[k] + 1, Min({B[k] + size, end}))
        PROVE  AreWindows(docs, t, size, shared)
  OBVIOUS
<1>1. end \in Nat \ {0} /\ stride \in Nat \ {0} /\ size \in Nat \ {0} /\ stride <= size
  BY LongEnough
<1>2. shared \in Nat /\ shared < size /\ shared + stride = size
  BY <1>1
<1> HIDE DEF shared, end
<1>3. \A k \in 1..(n + 1) : B[k] \in Nat
  BY <1>0
<1>4. \A k \in 1..(n + 1) : docs[k] = SubSeq(t, B[k] + 1, Min({B[k] + size, end}))
  BY <1>0
<1>5. \A k \in 1..n : B[k + 1] = B[k] + stride /\ B[k] + size < end
  BY <1>0
<1>6. B[1] = 0 /\ end <= B[n + 1] + size
  BY <1>0
<1>7. Len(docs) = n + 1 /\ n + 1 \in Nat /\ n + 1 \in 1..(n + 1)
  BY <1>0
<1>8. B[n + 1] < end /\ B[n + 1] \in Nat
  <2>1. CASE n = 0
    BY <1>1, <1>6, <2>1
  <2>2. CASE n > 0
    <3>1. B[n + 1] = B[n] + stride /\ B[n] \in Nat /\ B[n] + size < end
      BY <1>3, <1>5, <2>2
    <3> QED BY <1>1, <3>1
  <2> QED BY <2>1, <2>2
<1>9. ASSUME NEW k \in 1..n
      PROVE  /\ docs[k] = SubSeq(t, B[k] + 1, B[k] + size)
             /\ Len(docs[k]) = size /\ docs[k] \in Seq(S)
             /\ \A i \in 1..size : docs[k][i] = t[B[k] + i]
  <2>1. B[k] \in Nat /\ B[k] + size < end
    BY <1>3, <1>5
  <2>2. Min({B[k] + size, end}) = B[k] + size
    BY <1>1, <2>1, MinOfTwo
  <2>3. docs[k] = SubSeq(t, B[k] + 1, B[k] + size)
    BY <1>4, <2>2
  <2> DEFINE a == B[k]
             b == B[k] + size
  <2>4. a \in Nat /\ b \in Nat /\ a <= b /\ b <= Len(t) /\ b - a = size
    BY <1>1, <2>1 DEF end
  <2>5. docs[k] = SubSeq(t, a + 1, b)
    BY <2>3
  <2> HIDE DEF a, b
  <2>6. docs[k] \in Seq(S) /\ Len(docs[k]) = size /\ \A i \in 1..size : docs[k][i] = t[a + i]
    BY <2>4, <2>5, PieceIs
  <2> QED BY <2>3, <2>6 DEF a
<1> DEFINE rest == end - B[n + 1]
<1>10. /\ docs[n + 1] = SubSeq(t, B[n + 1] + 1, end)
       /\ Len(docs[n + 1]) = rest /\ docs[n + 1] \in Seq(S)
       /\ \A i \in 1..rest : docs[n + 1][i] = t[B[n + 1] + i]
  <2>1. Min({B[n + 1] + size, end}) = end
    BY <1>1, <1>6, <1>8, MinOfTwo
  <2>2. docs[n + 1] = SubSeq(t, B[n + 1] + 1, end)
    BY <1>4, <1>7, <2>1
  <2> DEFINE a == B[n + 1]
  <2>3. a \in Nat /\ end \in Nat /\ a <= end /\ end <= Len(t)
    BY <1>1, <1>8 DEF end
  <2> HIDE DEF a
  <2>4. docs[n + 1] = SubSeq(t, a + 1, end)
    BY <2>2 DEF a
  <2>5. /\ docs[n + 1] \in Seq(S) /\ Len(docs[n + 1]) = end - a
        /\ \A i \in 1..(end - a) : docs[n + 1][i] = t[a + i]
    BY <2>3, <2>4, PieceIs
  <2> QED BY <2>2, <2>5 DEF a
<1>11. rest \in Nat \ {0} /\ rest <= size /\ (n > 0 => shared < rest)
  <2>1. rest \in Nat \ {0} /\ rest <= size
    BY <1>1, <1>6, <1>8
  <2>2. ASSUME n > 0 PROVE shared < rest
    <3>1. B[n + 1] = B[n] + stride /\ B[n] \in Nat /\ B[n] + size < end
      BY <1>3, <1>5, <2>2
    <3> QED BY <1>1, <1>2, <3>1
  <2> QED BY <2>1, <2>2
<1>12. docs[1] = Cut(t, size)
  <2>1. 1 \in 1..(n + 1)
    OBVIOUS
  <2>2. 0 + 1 = 1 /\ 0 + size = size
    BY <1>1
  <2>3. docs[1] = SubSeq(t, 0 + 1, Min({0 + size, end}))
    BY <1>4, <1>6, <2>1
  <2>4. docs[1] = SubSeq(t, 1, Min({size, end}))
    BY <2>2, <2>3
  <2> QED BY <2>4 DEF Cut, end
<1>13. IsSuffix(Last(docs), t)
  <2>1. Last(docs) = SubSeq(t, B[n + 1] + 1, Len(t))
    BY <1>7, <1>10 DEF Last, end
  <2>2. B[n + 1] \in Nat /\ B[n + 1] <= Len(t)
    BY <1>1, <1>8 DEF end
  <2> QED BY <2>1, <2>2, RestIsSuffix
<1>14. ASSUME NEW i \in 1..n
       PROVE  /\ shared < Len(docs[i + 1]) /\ docs[i + 1] \in Seq(S)
              /\ \A j \in 1..shared : docs[i + 1][j] = t[B[i + 1] + j]
  <2> DEFINE k == i + 1
  <2>0. k = i + 1
    OBVIOUS
  <2>1. k \in 1..n \/ (k = n + 1 /\ n > 0)
    OBVIOUS
  <2> HIDE DEF k
  <2>2. CASE k \in 1..n
    <3>1. Len(docs[k]) = size /\ docs[k] \in Seq(S)
      BY <1>9, <2>2
    <3>2. \A j \in 1..shared : docs[k][j] = t[B[k] + j]
      <4>1. \A j \in 1..shared : j \in 1..size
        BY <1>2
      <4> QED BY <1>9, <2>2, <4>1
    <3> QED BY <1>2, <2>0, <3>1, <3>2
  <2>3. CASE k = n + 1 /\ n > 0
    <3>1. shared < Len(docs[k]) /\ docs[k] \in Seq(S)
      BY <1>10, <1>11, <2>3
    <3>2. \A j \in 1..shared : docs[k][j] = t[B[k] + j]
      <4>1. \A j \in 1..shared : j \in 1..rest
        BY <1>2, <1>11, <2>3
      <4> QED BY <1>10, <2>3, <4>1
    <3> QED BY <2>0, <3>1, <3>2
  <2> QED BY <2>1, <2>2, <2>3
<1>15. ASSUME NEW i \in 1..n
       PROVE  Cut(docs[i + 1], shared) = Tailing(docs[i], Min({shared, Len(docs[i + 1])}))
  <2> DEFINE d == docs[i]
             e == docs[i + 1]
             c == SubSeq(e, 0 + 1, shared)
             f == SubSeq(d, stride + 1, size)
  <2>1. d \in Seq(S) /\ Len(d) = size /\ \A j \in 1..size : d[j] = t[B[i] + j]
    BY <1>9
  <2>2. e \in Seq(S) /\ shared < Len(e) /\ \A j \in 1..shared : e[j] = t[B[i + 1] + j]
    BY <1>14
  <2>3. B[i] \in Nat /\ B[i + 1] = B[i] + stride
    BY <1>3, <1>5
  <2> HIDE DEF d, e
  <2>4. Len(e) \in Nat /\ Len(d) \in Nat
    BY <2>1, <2>2
  <2>5. Min({shared, Len(e)}) = shared
    BY <1>2, <2>2, <2>4, MinOfTwo
  <2>6. Max({1, Len(d) - shared + 1}) = stride + 1
    <3>1. Len(d) - shared + 1 = stride + 1 /\ stride + 1 \in Int /\ 1 <= stride + 1
      BY <1>1, <1>2, <2>1
    <3> QED BY <3>1, MaxOfTwo
  <2>7. Cut(e, shared) = c
    <3>1. 0 + 1 = 1
      OBVIOUS
    <3> QED BY <2>5, <3>1 DEF Cut
  <2>8. Tailing(d, shared) = f
    BY <2>1, <2>6 DEF Tailing
  <2>9. /\ c \in Seq(S) /\ Len(c) = shared - 0
        /\ \A j \in 1..(shared - 0) : c[j] = e[0 + j]
    BY <1>2, <2>2, <2>4, PieceIs
  <2>10. /\ f \in Seq(S) /\ Len(f) = size - stride
         /\ \A j \in 1..(size - stride) : f[j] = d[stride + j]
    <3>1. stride \in Nat /\ size \in Nat /\ stride <= size /\ size <= Len(d) /\ d \in Seq(S)
      BY <1>1, <2>1
    <3> QED BY <3>1, PieceIs, SMTT(30)
  <2> HIDE DEF c, f
  <2>11. size - stride = shared
    BY <1>1, <1>2
  <2>12. \A j \in 1..shared : c[j] = f[j]
    <3> SUFFICES ASSUME NEW j \in 1..shared PROVE c[j] = f[j]
      OBVIOUS
    <3>1. stride + j \in 1..size /\ j \in Nat /\ j \in 1..(shared - 0)
      BY <1>1, <1>2
    <3>2. c[j] = t[B[i + 1] + j]
      <4>1. 0 + j = j
        BY <3>1
      <4>2. c[j] = e[j]
        BY <2>9, <3>1, <4>1
      <4>3. e[j] = t[B[i + 1] + j]
        BY <2>2
      <4> QED BY <4>2, <4>3
    <3>3. f[j] = t[B[i] + (stride + j)]
      BY <2>1, <2>10, <2>11, <3>1
    <3>4. B[i + 1] + j = B[i] + (stride + j)
      BY <1>1, <2>3, <3>1
    <3> QED BY <3>2, <3>3, <3>4
  <2>13. c = f
    BY <1>2, <2>9, <2>10, <2>11, <2>12, SeqEqual
  <2> QED BY <2>5, <2>7, <2>8, <2>13 DEF d, e
<1>16. \A i \in 1..(Len(docs) - 1) :
         /\ Len(docs[i]) = size
         /\ Cut(docs[i + 1], shared) = Tailing(docs[i], Min({shared, Len(docs[i + 1])}))
         /\ Len(docs[i + 1]) > shared
  <2>1. Len(docs) - 1 = n
    BY <1>7
  <2>2. ASSUME NEW i \in 1..n PROVE Len(docs[i + 1]) > shared
    BY <1>2, <1>14
  <2> QED BY <1>9, <1>15, <2>1, <2>2
<1>17. AreWindows(docs, t, size, shared)
  BY <1>12, <1>13, <1>16 DEF AreWindows
<1> QED BY <1>17 DEF shared

LEMMA WindowsOf ==
  ASSUME NEW S, NEW t \in Seq(S), t # <<>>,
         NEW size \in Nat \ {0}, NEW stride \in 1..size, NEW n \in Nat
  PROVE  (Len(t) <= n * stride + size /\ (n > 0 => (n - 1) * stride + size < Len(t)))
           => AreWindows([k \in 1..(n + 1) |->
                 SubSeq(t, (k - 1) * stride + 1, Min({(k - 1) * stride + size, Len(t)}))],
                         t, size, size - stride)
<1> DEFINE B == [k \in 1..(n + 1) |-> (k - 1) * stride]
           docs == [k \in 1..(n + 1) |->
                      SubSeq(t, (k - 1) * stride + 1, Min({(k - 1) * stride + size, Len(t)}))]
<1>1. SUFFICES ASSUME Len(t) <= n * stride + size, n > 0 => (n - 1) * stride + size < Len(t)
               PROVE  AreWindows(docs, t, size, size - stride)
  OBVIOUS
<1>2. \A k \in 1..(n + 1) : B[k] = (k - 1) * stride
  OBVIOUS
<1>3. Len(docs) = n + 1
  OBVIOUS
<1>4. \A k \in 1..(n + 1) :
        docs[k] = SubSeq(t, (k - 1) * stride + 1, Min({(k - 1) * stride + size, Len(t)}))
  OBVIOUS
<1> HIDE DEF B, docs
<1>5. stride \in Nat \ {0} /\ size \in Nat \ {0} /\ Len(t) \in Nat
  OBVIOUS
<1>6. \A k \in 1..(n + 1) : docs[k] = SubSeq(t, B[k] + 1, Min({B[k] + size, Len(t)}))
  BY <1>2, <1>4
<1>7. \A k \in 1..(n + 1) : B[k] \in Nat
  <2> SUFFICES ASSUME NEW k \in 1..(n + 1) PROVE B[k] \in Nat
    OBVIOUS
  <2>1. PICK j \in Nat : j = k - 1
    OBVIOUS
  <2>2. j * stride \in Nat
    BY <1>5
  <2> QED BY <1>2, <2>1, <2>2
<1>8. B[1] = 0 /\ Len(t) <= B[n + 1] + size
  <2>1. B[1] = 0 * stride /\ 0 * stride = 0
    <3>1. 1 \in 1..(n + 1) /\ 1 - 1 = 0
      OBVIOUS
    <3> QED BY <1>2, <1>5, <3>1
  <2>2. B[n + 1] = n * stride
    <3>1. n + 1 \in 1..(n + 1) /\ n + 1 - 1 = n
      OBVIOUS
    <3> QED BY <1>2, <3>1
  <2> QED BY <1>1, <2>1, <2>2
<1>9. \A k \in 1..n : B[k + 1] = B[k] + stride /\ B[k] + size < Len(t)
  <2> SUFFICES ASSUME NEW k \in 1..n
               PROVE  B[k + 1] = B[k] + stride /\ B[k] + size < Len(t)
    OBVIOUS
  <2>1. PICK j \in Nat : k = j + 1
    OBVIOUS
  <2>2. PICK m \in Nat : n = m + 1
    OBVIOUS
  <2>3. k - 1 = j /\ k + 1 - 1 = j + 1 /\ n - 1 = m /\ j <= m /\ n > 0
    BY <2>1, <2>2
  <2>4. k \in 1..(n + 1) /\ k + 1 \in 1..(n + 1)
    OBVIOUS
  <2>5. B[k] = j * stride /\ B[k + 1] = (j + 1) * stride
    BY <1>2, <2>3, <2>4
  <2>6. (j + 1) * stride = j * stride + stride
    BY <1>5
  <2>7. j * stride <= m * stride
    BY <1>5, <2>3
  <2>8. PICK x \in Nat : x = j * stride
    BY <1>5
  <2>9. PICK y \in Nat : y = m * stride
    BY <1>5
  <2>10. B[k] + size < Len(t)
    <3>1. x <= y /\ y + size < Len(t) /\ B[k] = x
      BY <1>1, <2>3, <2>5, <2>7, <2>8, <2>9
    <3> QED BY <1>5, <3>1
  <2> QED BY <2>5, <2>6, <2>10
<1> QED BY <1>3, <1>6, <1>7, <1>8, <1>9, WindowsFrom

LEMMA OverlapIs ==
  ASSUME NEW size \in Nat \ {0}, NEW asked \in Int, NEW pct \in Int
  PROVE  FixedOverlap(size, asked, pct) \in 0..(size - 1)
<1> DEFINE wanted == IF asked <= 0 THEN OverlapTokens(size, pct) ELSE asked
<1>1. wanted \in Nat
  <2>1. CASE asked <= 0 /\ pct > 0
    <3>1. 2 * size * pct + 100 \in Nat
      <4>1. size * pct \in Nat
        BY <2>1
      <4>2. 2 * size * pct = 2 * (size * pct)
        BY <2>1
      <4> QED BY <4>1, <4>2
    <3>2. PICK m \in Nat : m = 2 * size * pct + 100
      BY <3>1
    <3>3. wanted = m \div 200
      BY <2>1, <3>2 DEF OverlapTokens
    <3> QED BY <3>2, <3>3
  <2>2. CASE asked <= 0 /\ ~ (pct > 0)
    BY <2>2 DEF OverlapTokens
  <2>3. CASE ~ (asked <= 0)
    BY <2>3
  <2> QED BY <2>1, <2>2, <2>3
<1> HIDE DEF wanted
<1>2. FixedOverlap(size, asked, pct) = Min({wanted, size - 1})
  BY DEF FixedOverlap, wanted
<1> QED BY <1>1, <1>2, MinOfTwo

\* FixedSizeStrategy.Split: whatever the size, the overlap asked for and the ratio,
\* the windows go through the whole text and share the overlap.
THEOREM WindowsOverlap ==
  ASSUME NEW S, NEW t \in Seq(S), t # <<>>,
         NEW size \in Nat \ {0}, NEW asked \in Int, NEW pct \in Int
  PROVE  AreWindows(FixedSizeSplit(t, size, asked, pct), t, size,
                    FixedOverlap(size, asked, pct))
<1> DEFINE shared == FixedOverlap(size, asked, pct)
           stride == size - shared
           end == Len(t)
           n == IF end <= size THEN 0 ELSE (end - size + stride - 1) \div stride
           docs == FixedSizeSplit(t, size, asked, pct)
<1>1. shared \in 0..(size - 1)
  BY OverlapIs
<1>2. docs = [k \in 1..(n + 1) |->
                SubSeq(t, (k - 1) * stride + 1, Min({(k - 1) * stride + size, Len(t)}))]
  BY DEF FixedSizeSplit
<1>3. end \in Nat \ {0}
  BY LongEnough
<1> HIDE DEF shared, docs
<1>4. stride \in 1..size /\ stride \in Nat \ {0} /\ size - stride = shared
  BY <1>1
<1> HIDE DEF stride
<1>5. n \in Nat /\ end <= n * stride + size /\ (n > 0 => (n - 1) * stride + size < end)
  <2>1. CASE end <= size
    <3>1. n = 0 /\ n * stride = 0
      BY <1>4, <2>1
    <3> QED BY <1>3, <2>1, <3>1
  <2>2. CASE ~ (end <= size)
    <3>1. PICK a \in Nat \ {0} : a = end - size
      BY <1>3, <2>2
    <3> DEFINE m == end - size + stride - 1
    <3>2. m = a + stride - 1
      BY <1>3, <1>4, <3>1
    <3>3. n = m \div stride
      BY <2>2
    <3> HIDE DEF n, m
    <3>4. n \in Nat /\ a <= n * stride /\ (a > 0 => n > 0 /\ (n - 1) * stride < a)
      BY <1>4, <3>2, <3>3, CeilDiv
    <3>5. n * stride \in Nat /\ (n - 1) * stride \in Int
      BY <1>4, <3>4
    <3> HIDE DEF end
    <3> QED BY <1>3, <3>1, <3>4, <3>5
  <2> QED BY <2>1, <2>2
<1> HIDE DEF n
<1>6. AreWindows(docs, t, size, size - stride)
  BY <1>2, <1>4, <1>5, WindowsOf DEF end
<1> QED BY <1>4, <1>6 DEF docs, shared

\* hardSplitByRunes: the pieces of any text are of the size asked for, the last one at
\* most, and nothing lies between them or is in two of them.
THEOREM PiecesFollow ==
  ASSUME NEW S, NEW t \in Seq(S), t # <<>>, NEW size \in Nat \ {0}
  PROVE  AreWindows(HardSplit(t, size), t, size, 0)
<1> DEFINE end == Len(t)
           c == end + size - 1
           q == c \div size
           n == q - 1
           docs == HardSplit(t, size)
<1>1. end \in Nat \ {0}
  BY LongEnough
<1> HIDE DEF end
<1>2. c = end + size - 1
  OBVIOUS
<1> HIDE DEF c
<1>3. q \in Nat /\ end <= q * size /\ q > 0 /\ (q - 1) * size < end
  <2>1. q = c \div size
    OBVIOUS
  <2> HIDE DEF q
  <2>2. q \in Nat /\ end <= q * size /\ (end > 0 => q > 0 /\ (q - 1) * size < end)
    BY <1>1, <1>2, <2>1, CeilDiv
  <2> QED BY <1>1, <2>2
<1>4. docs = [k \in 1..q |-> SubSeq(t, (k - 1) * size + 1, Min({k * size, Len(t)}))]
  BY DEF HardSplit, end, c
<1> HIDE DEF q, docs
<1>5. n \in Nat /\ q = n + 1
  BY <1>3
<1> HIDE DEF n
<1>6. ASSUME NEW k \in 1..q PROVE k * size = (k - 1) * size + size
  <2>1. PICK j \in Nat : k = j + 1
    BY <1>3
  <2> QED BY <2>1
<1>7. docs = [k \in 1..(n + 1) |->
                SubSeq(t, (k - 1) * size + 1, Min({(k - 1) * size + size, Len(t)}))]
  BY <1>4, <1>5, <1>6
<1>8. Len(t) <= n * size + size /\ (n > 0 => (n - 1) * size + size < Len(t))
  <2>1. q * size = n * size + size /\ (q - 1) * size = n * size /\ n * size \in Nat
    BY <1>5
  <2>2. n > 0 => (n - 1) * size + size = n * size
    <3>1. ASSUME n > 0 PROVE (n - 1) * size + size = n * size
      <4>1. PICK j \in Nat : n = j + 1
        BY <1>5, <3>1
      <4> QED BY <4>1
    <3> QED BY <3>1
  <2> QED BY <1>3, <2>1, <2>2 DEF end
<1>9. size \in 1..size /\ size - size = 0
  OBVIOUS
<1>10. AreWindows(docs, t, size, size - size)
  BY <1>5, <1>7, <1>8, <1>9, WindowsOf
<1> QED BY <1>9, <1>10 DEF docs
=============================================================================
