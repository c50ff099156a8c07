----------------------------- MODULE MemClient -----------------------------
(***************************************************************************)
(* The clients of a mem0 service (aipkg/mem/mem0): several of them, each   *)
(* with the project it was made for, called with options that the callers  *)
(* keep and use again.  A project is given by names or by ids, and with    *)
(* its organization, so a pair is one value here.  The service is external *)
(* and modelled from the requests: it heeds the keys it knows and takes a  *)
(* request without a project for one of the account's Default.             *)
(***************************************************************************)
EXTENDS Integers, FiniteSets

CONSTANTS Clients, Projects, Users,
          OptionSets,       \* the options objects of the callers
          MaxMemories       \* bound: the memories ever added

ASSUME MemAssumption == MaxMemories \in Nat

Absent == "absent"
Default == "default"
IsGiven(pair) == pair # Absent

VARIABLES
    client,     \* client -> the pairs of names and of ids it was made with
    options,    \* object -> the fields of the MemoryOptions in it
    memories,   \* the service: the memories it has
    serial,     \* the service: how many it has ever had
    results     \* what the last Search, GetAll or Get returned, and to whom

memVars == <<client, options, memories, serial, results>>

\* validateOrgProject lets no half of a pair pass.
NewMemoryClient == [names : Projects \cup {Absent}, ids : Projects \cup {Absent}]
NewOptions == [user : Users \cup {Absent}, names : {Absent}, ids : {Absent}]

MemInit ==
    /\ client \in [Clients -> NewMemoryClient]
    /\ options \in [OptionSets -> NewOptions]
    /\ memories = {} /\ serial = 0 /\ results = [of |-> Absent]

\* As WithOwnProject, but what the options have stays.
WithOwnWhenFree(c, o) ==
    [o EXCEPT !.names = IF IsGiven(@) THEN @ ELSE client[c].names,
              !.ids = IF IsGiven(@) THEN @ ELSE client[c].ids]

\* The pairs of the client go over those of the options, where it has them.
WithOwnProject(c, o) ==
    [o EXCEPT !.names = IF IsGiven(client[c].names) THEN client[c].names ELSE @,
              !.ids = IF IsGiven(client[c].ids) THEN client[c].ids ELSE @]

\* The service: the ids are heeded first, the names are deprecated.
ProjectOf(o) == IF IsGiven(o.ids) THEN o.ids ELSE IF IsGiven(o.names) THEN o.names ELSE Default
In(project) == {m \in memories : m.project = project}

\* doRequest: the request is executed or lost, and an answer other than 200, one that
\* cannot be decoded or none within the timeout is an error, also of one that was executed.
Outcomes == {"lost", "executed", "answered"}
Executes(outcome, effect) ==
    memories' = IF outcome = "lost" THEN memories ELSE effect
Returns(c, op, outcome, found) ==
    results' = [of |-> op, by |-> c, err |-> outcome # "answered",
                memories |-> IF outcome = "answered" THEN found ELSE {}]

\* Add has a copy of the options.
Add(c, o, outcome) ==
    LET sent == WithOwnProject(c, options[o])
    IN /\ serial < MaxMemories /\ serial' = serial + 1
       /\ Executes(outcome, memories \cup
              {[id |-> serial', by |-> c, user |-> sent.user, project |-> ProjectOf(sent)]})
       /\ UNCHANGED <<client, options, results>>

\* Search writes into the caller's own options.
Search(c, o, outcome) ==
    LET sent == WithOwnProject(c, options[o])
        found == {m \in In(ProjectOf(sent)) : sent.user \in {Absent, m.user}}
    IN /\ options' = [options EXCEPT ![o] = sent]
       /\ Returns(c, "Search", outcome, found)
       /\ UNCHANGED <<client, memories, serial>>

\* The keys of structToQuery are whole tags, such as "user_id,omitempty", and the fields
\* embedded in SearchOptions have none: the service sees a request without any field.
GetAll(c, outcome) ==
    /\ Returns(c, "GetAll", outcome, In(Default))
    /\ UNCHANGED <<client, options, memories, serial>>

DeleteAll(outcome) ==
    /\ Executes(outcome, memories \ In(Default))
    /\ UNCHANGED <<client, options, serial, results>>

\* Requests by id name no project.
Get(c, id, outcome) ==
    /\ Returns(c, "Get", outcome, {m \in memories : m.id = id})
    /\ UNCHANGED <<client, options, memories, serial>>

\* Delete and BatchDelete.
DeleteMemories(ids, outcome) ==
    /\ Executes(outcome, {m \in memories : m.id \notin ids})
    /\ UNCHANGED <<client, options, serial, results>>

\* DeleteUser and DeleteUsers.
DeleteUsers(users, outcome) ==
    /\ Executes(outcome, {m \in memories : m.user \notin users})
    /\ UNCHANGED <<client, options, serial, results>>

\* A write does the same whether its answer arrives, a read whether it was executed.
MemNext ==
    \/ \E outcome \in Outcomes \ {"executed"}, c \in Clients :
          \/ \E o \in OptionSets : Search(c, o, outcome)
          \/ GetAll(c, outcome)
          \/ \E id \in 1..serial : Get(c, id, outcome)
    \/ \E outcome \in Outcomes \ {"answered"} :
          \/ \E c \in Clients, o \in OptionSets : Add(c, o, outcome)
          \/ DeleteAll(outcome)
          \/ \E ids \in SUBSET (1..serial) : DeleteMemories(ids, outcome)
          \/ \E users \in {{u} : u \in Users} \cup {Users} : DeleteUsers(users, outcome)

MemSpec == MemInit /\ [][MemNext]_memVars

(***************************************************************************)
(* Properties.                                                             *)
(***************************************************************************)
\* Whatever clients the options were used with before, and although Search writes its
\* project into them, a client that was made with ids adds to its own project and
\* finds nothing of another one.  A client without ids may do both.
ClientsKeepToTheirProject ==
    /\ \A m \in memories : IsGiven(client[m.by].ids) => m.project = client[m.by].ids
    /\ results.of = "Search" /\ IsGiven(client[results.by].ids) =>
           \A m \in results.memories : m.project = client[results.by].ids
=============================================================================
