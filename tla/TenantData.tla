----------------------------- MODULE TenantData -----------------------------
(***************************************************************************)
(* Data of pkg/data over the tenants' connections of pkg/database/         *)
(* dbresolver: requests, each with the tenant of its context, write with   *)
(* DB(ctx) outside and inside of ExecTx, while they share the map of       *)
(* connections that GetDB fills.  The databases are modelled as far as     *)
(* gorm's Transaction needs: the writes of a transaction are committed     *)
(* together or not at all.  An ExecTx inside of an ExecTx starts from the  *)
(* default connection again, so it is a transaction of its own.            *)
(***************************************************************************)
EXTENDS Integers, SequencesExt

CONSTANTS Requests, Tenants, NoTenant,
          MaxWrites,    \* bound: the writes of a request
          MaxTxs        \* bound: the transactions of a request

ASSUME TenantAssumption == NoTenant \notin Tenants /\ MaxWrites \in Nat /\ MaxTxs \in Nat

Mysql == NoTenant       \* the default database
Databases == Tenants \cup {Mysql}

VARIABLES
    tenantOf,   \* request -> the tenant in its context, or NoTenant
    step,       \* request -> where it is in GetDB
    open,       \* request -> its open transactions, the innermost last
    ended,      \* request -> transactions that have ended -> whether they committed
    made,       \* the writes: of which request, in which transaction (0: none)
    stored,     \* database -> the writes that are committed in it
    tenantDBs,  \* the tenants with a connection in the map
    opened,     \* tenant -> how often its database was connected to
    mu          \* who holds the mutex for writing, or NoTenant

tenantVars == <<tenantOf, step, open, ended, made, stored, tenantDBs, opened, mu>>

TenantInit ==
    /\ tenantOf \in [Requests -> Databases]
    /\ step = [r \in Requests |-> "run"]
    /\ open = [r \in Requests |-> <<>>] /\ ended = [r \in Requests |-> <<>>]
    /\ made = {} /\ stored = [d \in Databases |-> {}]
    /\ tenantDBs = {} /\ opened = [t \in Tenants |-> 0] /\ mu = NoTenant

OfRequest(r) == {w \in made : w.request = r}
\* tx is the value that the context has under contextTxKey.
NewWrite(r) ==
    [request |-> r, n |-> Cardinality(OfRequest(r)),
     tx |-> IF open[r] = <<>> THEN 0 ELSE Last(open[r])]
CanWrite(r) == step[r] = "run" /\ Cardinality(OfRequest(r)) < MaxWrites

\* A write on a connection that is in no transaction.
WriteTo(r, database) ==
    /\ made' = made \cup {NewWrite(r)}
    /\ stored' = [stored EXCEPT ![database] = @ \cup {NewWrite(r)}]

\* As WriteInTx, but on a connection that is not the transaction's.
WriteOutOfTx(r) ==
    /\ CanWrite(r) /\ open[r] # <<>>
    /\ WriteTo(r, Mysql)
    /\ UNCHANGED <<tenantOf, step, open, ended, tenantDBs, opened, mu>>

\* DB with a transaction in the context: the write is its part until it ends.
WriteInTx(r) ==
    /\ CanWrite(r) /\ open[r] # <<>>
    /\ made' = made \cup {NewWrite(r)}
    /\ UNCHANGED <<tenantOf, step, open, ended, stored, tenantDBs, opened, mu>>

\* DB without a tenant, or GetDB when the read lock finds the connection.
WriteAlone(r) ==
    /\ CanWrite(r) /\ open[r] = <<>>
    /\ \/ tenantOf[r] = NoTenant
       \/ mu = NoTenant /\ tenantOf[r] \in tenantDBs
    /\ WriteTo(r, tenantOf[r])
    /\ UNCHANGED <<tenantOf, step, open, ended, tenantDBs, opened, mu>>

\* GetDB when the read lock does not find it.
MissConnection(r) ==
    /\ CanWrite(r) /\ open[r] = <<>>
    /\ mu = NoTenant /\ tenantOf[r] \in Tenants \ tenantDBs
    /\ step' = [step EXCEPT ![r] = "lock"]
    /\ UNCHANGED <<tenantOf, open, ended, made, stored, tenantDBs, opened, mu>>

Lock(r) ==
    /\ step[r] = "lock" /\ mu = NoTenant
    /\ mu' = r /\ step' = [step EXCEPT ![r] = "locked"]
    /\ UNCHANGED <<tenantOf, open, ended, made, stored, tenantDBs, opened>>

\* As ConnectOnce, but without the second look.
ConnectAnyway(t) ==
    /\ opened' = [opened EXCEPT ![t] = @ + 1]
    /\ tenantDBs' = tenantDBs \cup {t}

\* The second look, under the lock: another request may have connected by now.
ConnectOnce(t) ==
    \/ t \in tenantDBs /\ UNCHANGED <<opened, tenantDBs>>
    \/ /\ t \notin tenantDBs
       /\ opened' = [opened EXCEPT ![t] = @ + 1]
       /\ tenantDBs' = tenantDBs \cup {t}

ConnectTo(r) ==
    /\ step[r] = "locked"
    /\ ConnectOnce(tenantOf[r]) /\ WriteTo(r, tenantOf[r])
    /\ mu' = NoTenant /\ step' = [step EXCEPT ![r] = "run"]
    /\ UNCHANGED <<tenantOf, open, ended>>

\* getConn panics when the database cannot be reached; the mutex is released.
ConnectFails(r) ==
    /\ step[r] = "locked" /\ tenantOf[r] \notin tenantDBs
    /\ mu' = NoTenant /\ step' = [step EXCEPT ![r] = "panicked"]
    /\ UNCHANGED <<tenantOf, open, ended, made, stored, tenantDBs, opened>>

\* ExecTx begins, of whatever tenant, on the default connection.
BeginTx(r) ==
    /\ step[r] = "run" /\ Len(open[r]) + Len(ended[r]) < MaxTxs
    /\ open' = [open EXCEPT ![r] = Append(@, Len(open[r]) + Len(ended[r]) + 1)]
    /\ UNCHANGED <<tenantOf, step, ended, made, stored, tenantDBs, opened, mu>>

\* fn has returned nil and the commit worked, or else everything is rolled back.
End(r, committed) ==
    /\ step[r] = "run" /\ open[r] # <<>>
    /\ LET tx == Last(open[r])
       IN /\ stored' = [stored EXCEPT ![Mysql] =
                 @ \cup {w \in OfRequest(r) : committed /\ w.tx = tx}]
          /\ ended' = [ended EXCEPT ![r] = Append(@, [tx |-> tx, committed |-> committed])]
    /\ open' = [open EXCEPT ![r] = Front(@)]
    /\ UNCHANGED <<tenantOf, step, made, tenantDBs, opened, mu>>

TenantNext == \E r \in Requests :
    \/ WriteInTx(r) \/ WriteAlone(r)
    \/ MissConnection(r) \/ Lock(r) \/ ConnectTo(r) \/ ConnectFails(r)
    \/ BeginTx(r) \/ \E committed \in BOOLEAN : End(r, committed)

TenantSpec == TenantInit /\ [][TenantNext]_tenantVars

(***************************************************************************)
(* Properties.                                                             *)
(***************************************************************************)
Committed(w) == \E i \in DOMAIN ended[w.request] :
    ended[w.request][i] = [tx |-> w.tx, committed |-> TRUE]

\* What DB(ctx) writes inside of ExecTx is in a database exactly when the ExecTx it was
\* written in has ended without an error, also when ExecTx calls are nested.
AllOrNothing == \A w \in made :
    w.tx # 0 => ((\E d \in Databases : w \in stored[d]) <=> Committed(w))

\* However many requests of a tenant come first at once, one connection is opened, and
\* what a request writes outside of ExecTx is in the database of its tenant alone.
OneConnectionPerTenant ==
    /\ \A t \in Tenants : opened[t] = IF t \in tenantDBs THEN 1 ELSE 0
    /\ \A w \in made : w.tx = 0 =>
           \A d \in Databases : w \in stored[d] <=> d = tenantOf[w.request]

\* Transactions are kept together and connections apart.
TenantsServed == AllOrNothing /\ OneConnectionPerTenant

\* All that a request with a tenant writes is in the database of the tenant: it is not,
\* inside of ExecTx (db_manager.go:29: "the database connection corresponding to the
\* tenant").
TenantKeepsToItsDatabase == \A d \in Databases : \A w \in stored[d] :
    d = tenantOf[w.request]
=============================================================================
