------------------------------ MODULE MCTools ------------------------------
(***************************************************************************)
(* Instances of SqlBuilder, Murmur3, KVCache, TenantData and MemClient for *)
(* TLC.  A behaviour is one of one of them, or of MCRag; the others are at *)
(* rest.                                                                   *)
(***************************************************************************)
EXTENDS SqlBuilder, Murmur3, KVCache, TenantData, MemClient

\* KVCache: a row that has expired when it is written, one that ends with the next tick.
MCTTLs == {-1, 0, 1}

(***************************************************************************)
(* SqlBuilder: two fields, every operator with every kind of value, and    *)
(* _or groups inside of each other; the other statements with up to three  *)
(* conditions.                                                             *)
(***************************************************************************)
OneTest(field, op, val) == [is |-> "test", field |-> field, op |-> op, val |-> val]
Or(alternatives) == [is |-> "or", alts |-> alternatives]
Skipped == [is |-> "ignored"]

ScalarOps == {"=", "!=", "<>", ">", ">=", "<", "<=", "like", "like2", "not like"}
OtherOps == {"", "in", "not in", "between", "not between", "null", "~"}
ScalarVals == {One(1), Raw(2), IsNull, IsNotNull}
Vals == ScalarVals \cup {Several(<<>>), Several(<<1>>), Several(<<0, 2>>), Several(<<0, 1, 2>>)}
AllTests == {OneTest(1, op, val) : op \in OtherOps, val \in Vals}
    \cup {OneTest(1, op, val) : op \in ScalarOps \ {"like", "like2", "not like"}, val \in ScalarVals}
    \cup {OneTest(1, op, val) : op \in {"like", "like2", "not like"}, val \in ScalarVals \ {Raw(2)}}
FewTests == {OneTest(1, "", One(1)), OneTest(1, "=", One(2)), OneTest(1, ">=", One(0)),
             OneTest(2, "in", Several(<<0, 2>>)), OneTest(2, "<>", IsNull), OneTest(2, "<>", One(0)),
             OneTest(2, "between", Several(<<0, 1>>)), OneTest(1, "not in", One(1))}
UpTo(n, S) == UNION {[1..k -> S] : k \in 0..n}

Ors == {Or(<<>>)} \cup {Or(<<m>>) : m \in UpTo(2, FewTests)}
    \cup {Or(<<m, n>>) : n \in UpTo(2, FewTests),
             m \in [1..1 -> FewTests] \cup {<<OneTest(1, "", One(1)), OneTest(2, "in", Several(<<0, 2>>))>>}}
DeepOrs == {Or(<<<<OneTest(1, ">=", One(1)), Or(<<<<t>>, <<u>>>>)>>, <<OneTest(2, "<", One(2))>>>>) :
               t \in FewTests, u \in FewTests}
WhereRequests ==
    {<<>>} \cup {<<t>> : t \in AllTests} \cup {<<t, u>> : t \in AllTests, u \in FewTests}
    \cup {<<o>> : o \in Ors \cup DeepOrs} \cup {<<t, o>> : t \in FewTests, o \in DeepOrs}
    \cup {<<o, Skipped, t>> : t \in FewTests, o \in DeepOrs}

CompareBy(op, of) == [op |-> op, of |-> of]
SomeComparisons == {
    CompareBy("=", 1 :> One(1)), CompareBy("=", 1 :> Raw(2) @@ 2 :> One(0)), CompareBy("=", <<>>),
    CompareBy("in", 2 :> Several(<<0, 2>>) @@ 1 :> Several(<<1>>)),
    CompareBy("not between", 1 :> Several(<<1, 1>>)), [op |-> "nil"],
    [op |-> "OR", parts |-> <<CompareBy("=", 1 :> One(1)),
        [op |-> "AND", parts |-> <<CompareBy(">=", 2 :> One(1)), CompareBy("like2", 1 :> One(0))>>]>>]}
Updates == {<<>>, 1 :> One(7), 1 :> Raw(6) @@ 2 :> One(7), 2 :> Raw(5) @@ 1 :> One(3)}

MCStatements ==
    {[kind |-> "where", request |-> r] : r \in WhereRequests}
    \cup {[kind |-> "queries", request |-> q] : q \in UpTo(3, FewTests \ {OneTest(1, "", One(1))})}
    \cup {[kind |-> "insert", rows |-> rows, update |-> u] :
             u \in Updates, rows \in UpTo(3, {<<4, 5>>, <<6>>, <<5, 4, 6>>})}
    \cup {[kind |-> "update", update |-> u, limit |-> l, comps |-> cs] :
             u \in Updates, l \in {0, 9}, cs \in UpTo(2, SomeComparisons)}
    \cup {[kind |-> "delete", limit |-> l, comps |-> cs] : l \in {0, 9}, cs \in UpTo(3, SomeComparisons)}
    \cup {[kind |-> "select", limit |-> l, comps |-> cs] :
             l \in {<<>>, <<8, 9>>}, cs \in UpTo(3, SomeComparisons)}
    \cup {[kind |-> "pages", total |-> t, size |-> z] :
             t \in {0, 1, 7, 99, 100, 101, 250}, z \in {1, 7, 99, 100, 150}}

(***************************************************************************)
(* The tools together.                                                     *)
(***************************************************************************)
VARIABLE tool   \* "sql", "hash", "cache", "tenants", "memories" or "none"

\* A component that is not looked at starts in one way.
ToolsInit ==
    /\ tool \in {"sql", "hash", "cache", "tenants", "memories", "none"}
    /\ tool # "sql" => wanted = [kind |-> "where", request |-> <<>>]
    /\ tool # "cache" => backend = "redis"
    /\ tool # "tenants" => tenantOf = [r \in Requests |-> NoTenant]
    /\ tool # "memories" =>
           /\ client = [c \in Clients |-> [names |-> Absent, ids |-> Absent]]
           /\ options = [o \in OptionSets |-> [user |-> Absent, names |-> Absent, ids |-> Absent]]
    /\ BuilderInit /\ MurmurInit /\ CacheInit /\ TenantInit /\ MemInit

ToolsNext ==
    /\ UNCHANGED tool
    /\ \/ /\ tool = "sql" /\ BuilderNext
          /\ UNCHANGED <<murmurVars, cacheVars, tenantVars, memVars>>
       \/ /\ tool = "hash" /\ MurmurNext
          /\ UNCHANGED <<builderVars, cacheVars, tenantVars, memVars>>
       \/ /\ tool = "cache" /\ CacheNext
          /\ UNCHANGED <<builderVars, murmurVars, tenantVars, memVars>>
       \/ /\ tool = "tenants" /\ TenantNext
          /\ UNCHANGED <<builderVars, murmurVars, cacheVars, memVars>>
       \/ /\ tool = "memories" /\ MemNext
          /\ UNCHANGED <<builderVars, murmurVars, cacheVars, tenantVars>>

toolsVars == <<tool, builderVars, murmurVars, cacheVars, tenantVars, memVars>>
=============================================================================
