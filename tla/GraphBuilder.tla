---------------------------- MODULE GraphBuilder ----------------------------
(***************************************************************************)
(* graphBuilder of aipkg/rag/graph: BuildGraph asks a model for the        *)
(* entities of every chunk and for the relations in every batch of chunks, *)
(* each in goroutines of an errgroup with a limit, and then works out      *)
(* weights, degrees and the graph of the chunks.  The same builder may be  *)
(* given more chunks, or the same again, by later calls.                   *)
(*                                                                         *)
(* What a model answers is arbitrary: a sequence of titles, and a sequence *)
(* of relations.  NoTitle stands for an entity without a title or a        *)
(* description.  A title is a sequence of parts, and "#" may be one of     *)
(* them: relationshipMap has one relation for each source#target, so two   *)
(* relations may have the same key.  It is here a function of the ends of  *)
(* the relations in it, which are those of the first with their key.       *)
(* Weights are in hundredths, and PMI, a logarithm, is replaced by its     *)
(* rank: nothing below depends on what a weight is, only on which relation *)
(* it is of and on how links are ordered by it.                            *)
(***************************************************************************)
EXTENDS Integers, Sequences, SequencesExt, FiniteSetsExt

CONSTANTS Chunks,           \* IDs of chunks
          Window,           \* [from, upto] of each chunk in its document
          Titles, NoTitle,
          Plans,            \* the calls of BuildGraph: sequences of sequences of chunks
          EntityAnswers, RelationAnswers,
          RelationBatchSize, MaxConcurrent

ASSUME GraphAssumption == RelationBatchSize \in Nat \ {0} /\ MaxConcurrent \in Nat \ {0}

IsTitle(title) == title \in Seq(ToSet(title))

\* What is given to BuildGraph, and what the model may answer, has the types of the code.
ASSUME GraphInputs ==
    /\ Window \in [Chunks -> [from : Int, upto : Int]]
    /\ Plans \subseteq Seq(Seq(Chunks))
    /\ \A answer \in EntityAnswers : answer \in Seq(ToSet(answer))
    /\ \A answer \in RelationAnswers :
          /\ answer \in Seq(ToSet(answer))
          /\ \A rel \in ToSet(answer) :
                rel.strength \in Int /\ IsTitle(rel.source) /\ IsTitle(rel.target)

VARIABLES
    plan,           \* the calls still to come
    chunks,         \* the argument of the call that runs, or has run
    phase,          \* where BuildGraph is
    task, found,    \* the goroutines of the chunks, chunkEntities
    batch,          \* the goroutines of the batches
    entityMap, relationshipMap, chunkGraph,
    outcome,        \* what the last call returned
    named, related  \* history: what the model has said in this call

callVars == <<plan, chunks, outcome>>
buildVars == <<phase, task, found, batch>>
graphVars == <<entityMap, relationshipMap, chunkGraph>>
graphBuilderVars == <<callVars, buildVars, graphVars, named, related>>

GraphInit ==
    /\ plan \in Plans
    /\ chunks = <<>> /\ phase = "idle" /\ outcome = "none"
    /\ task = <<>> /\ found = <<>> /\ batch = <<>>
    /\ entityMap = <<>> /\ relationshipMap = <<>> /\ chunkGraph = <<>>
    /\ named = {} /\ related = {}

Known(title) == title \in DOMAIN entityMap

BuildGraph ==
    /\ phase = "idle" /\ plan # <<>>
    /\ chunks' = Head(plan) /\ plan' = Tail(plan)
    /\ phase' = "extracting" /\ outcome' = "none"
    /\ task' = [i \in DOMAIN Head(plan) |-> "waiting"]
    /\ found' = [i \in DOMAIN Head(plan) |-> <<>>]
    /\ batch' = <<>>
    /\ named' = {} /\ related' = {}
    /\ UNCHANGED graphVars

\* errgroup starts its functions in turn, as long as there is room.
MayStart(group, i) ==
    /\ group[i] = "waiting"
    /\ \A j \in 1..(i - 1) : group[j] # "waiting"
    /\ Cardinality({j \in DOMAIN group : group[j] = "calling"}) < MaxConcurrent
Ended(group) == \A i \in DOMAIN group : group[i] \in {"done", "failed"}

(***************************************************************************)
(* extractEntities.                                                        *)
(***************************************************************************)
Empty(chunk) == Window[chunk].from >= Window[chunk].upto

StartExtract(i) ==
    /\ phase = "extracting" /\ MayStart(task, i)
    /\ task' = [task EXCEPT ![i] = IF Empty(chunks[i]) THEN "done" ELSE "calling"]
    /\ UNCHANGED <<callVars, phase, found, batch, graphVars, named, related>>

\* As AddEntities, but an entity that is found again takes the place of the first.
AddEntitiesAnew(map, answer, chunk) ==
    LET titles == ToSet(answer) \ {NoTitle}
    IN [title \in DOMAIN map \union titles |->
           IF title \in titles THEN [chunks |-> {chunk}, freq |-> 1, degree |-> 0] ELSE map[title]]

\* The map when the mutex is released again: an entity that is new, or was known, has
\* the chunk, and one more to its frequency for each place of the answer that has its title.
AddEntities(map, answer, chunk) ==
    LET titles == ToSet(answer) \ {NoTitle}
        Was(title) == IF title \in DOMAIN map THEN map[title] ELSE [chunks |-> {}, freq |-> 0, degree |-> 0]
        Times(title) == Cardinality({n \in DOMAIN answer : answer[n] = title})
    IN [title \in DOMAIN map \union titles |->
           IF title \in titles
           THEN [Was(title) EXCEPT !.chunks = @ \union {chunk}, !.freq = @ + Times(title)]
           ELSE map[title]]

ExtractEntities(i, answer) ==
    LET valid == {n \in DOMAIN answer : answer[n] # NoTitle}
    IN /\ phase = "extracting" /\ task[i] = "calling"
       /\ entityMap' = AddEntities(entityMap, answer, chunks[i])
       /\ found' = [found EXCEPT ![i] = Restrict(answer, valid)]
       /\ task' = [task EXCEPT ![i] = "done"]
       /\ named' = named \union {<<answer[n], chunks[i]>> : n \in valid}
       /\ UNCHANGED <<callVars, phase, batch, relationshipMap, chunkGraph, related>>

\* The model fails, its answer is not JSON, or another task has failed and
\* cancelled the context.
ExtractFails(i) ==
    /\ phase = "extracting" /\ task[i] = "calling"
    /\ task' = [task EXCEPT ![i] = "failed"]
    /\ UNCHANGED <<callVars, phase, found, batch, graphVars, named, related>>

Batches(s) ==
    [k \in 1..((Len(s) + RelationBatchSize - 1) \div RelationBatchSize) |->
        SubSeq(s, (k - 1) * RelationBatchSize + 1, Min({k * RelationBatchSize, Len(s)}))]

\* The entities of a batch, with their places, and their titles.
UseEntities(k) ==
    LET own == Batches(found)[k] IN UNION {{i} \X DOMAIN own[i] : i \in DOMAIN own}
TitlesOf(k) == UNION {Range(f) : f \in ToSet(Batches(found)[k])}

Extracted ==
    /\ phase = "extracting" /\ Ended(task)
    /\ IF \E i \in DOMAIN task : task[i] = "failed"
       THEN phase' = "idle" /\ outcome' = "error" /\ UNCHANGED batch
       ELSE /\ phase' = "relating"
            /\ batch' = [k \in DOMAIN Batches(chunks) |->
                            IF Cardinality(UseEntities(k)) < 2 THEN "done" ELSE "waiting"]
            /\ UNCHANGED outcome
    /\ UNCHANGED <<plan, chunks, task, found, graphVars, named, related>>

(***************************************************************************)
(* extractRelationships.                                                   *)
(***************************************************************************)
\* mergeChunkContents, of positions of the document: of each chunk but the first only
\* what is behind the end of the one before it.
Content(c, from) == [n \in 1..(Window[c].upto - from) |-> from + n]
FromOf(ids, i) ==
    IF i > 1 /\ Window[ids[i - 1]].upto > Window[ids[i]].from THEN Window[ids[i - 1]].upto
    ELSE Window[ids[i]].from
MergeChunkContents(ids) ==
    LET merged[i \in 0..Len(ids)] ==
            IF i = 0 THEN <<>> ELSE merged[i - 1] \o Content(ids[i], FromOf(ids, i))
    IN merged[Len(ids)]

StartRelate(k) ==
    /\ phase = "relating" /\ MayStart(batch, k)
    /\ batch' = [batch EXCEPT ![k] = IF MergeChunkContents(Batches(chunks)[k]) = <<>> THEN "done"
                                     ELSE "calling"]
    /\ UNCHANGED <<callVars, phase, task, found, graphVars, named, related>>

\* findRelationChunkIDs: the chunks of either end, among the batch's entities.
FindRelationChunkIDs(source, target, titles) ==
    UNION {entityMap[title].chunks : title \in {source, target} \intersect titles}

\* The key of a relation, source#target.
Key(ends) == ends[1] \o <<"#">> \o ends[2]

\* Where a relation is in the map: at the one with its key, which may have other ends.
StoredAs(map, ends) ==
    LET same == {q \in DOMAIN map : Key(q) = Key(ends)}
    IN IF same = {} THEN ends ELSE CHOOSE q \in same : TRUE

AddRelation(map, rel, ids) ==
    LET key == StoredAs(map, <<rel.source, rel.target>>)
        all == map[key].chunks \union ids
        n == Cardinality(all)
        Added == [chunks |-> ids, strength |-> rel.strength, weight |-> 0, degree |-> 0]
    IN IF ids = {} THEN map
       ELSE IF key \in DOMAIN map
       THEN [map EXCEPT ![key].chunks = all,
                        ![key].strength = (@ * n + rel.strength) \div (n + 1)]
       ELSE [k \in DOMAIN map \union {key} |-> IF k = key THEN Added ELSE map[k]]

\* The relations of an answer are added in its order.
AddRelations(map, answer, titles) ==
    LET after[n \in 0..Len(answer)] ==
            IF n = 0 THEN map
            ELSE AddRelation(after[n - 1], answer[n],
                             FindRelationChunkIDs(answer[n].source, answer[n].target, titles))
    IN after[Len(answer)]

ExtractRelationships(k, answer) ==
    LET Ids(rel) == FindRelationChunkIDs(rel.source, rel.target, TitlesOf(k))
    IN /\ phase = "relating" /\ batch[k] = "calling"
       /\ relationshipMap' = AddRelations(relationshipMap, answer, TitlesOf(k))
       /\ batch' = [batch EXCEPT ![k] = "done"]
       /\ related' = related \union {[rel |-> <<rel.source, rel.target>>, in |-> Ids(rel)] :
                                        rel \in {r \in ToSet(answer) : Ids(r) # {}}}
       /\ UNCHANGED <<callVars, phase, task, found, entityMap, chunkGraph, named>>

\* A batch that fails is logged, and forgotten.
RelateFails(k) ==
    /\ phase = "relating" /\ batch[k] = "calling"
    /\ batch' = [batch EXCEPT ![k] = "failed"]
    /\ UNCHANGED <<callVars, phase, task, found, graphVars, named, related>>

(***************************************************************************)
(* calculateWeights, calculateDegrees, buildChunkGraph.                    *)
(***************************************************************************)
\* The ratio of which PMI is the logarithm, as a numerator and a denominator.
ChunksNaming(map) == FoldFunction(LAMBDA e, n : Cardinality(e.chunks) + n, 0, map)
ChunkCount(title) == IF Known(title) THEN Cardinality(entityMap[title].chunks) ELSE 0
Ratio(key) ==
    <<Cardinality(relationshipMap[key].chunks) * ChunksNaming(entityMap) * ChunksNaming(entityMap),
      ChunkCount(key[1]) * ChunkCount(key[2]) * ChunksNaming(relationshipMap)>>

Rank(key) ==
    LET positive == {q \in DOMAIN relationshipMap : Ratio(q)[2] > 0 /\ Ratio(q)[1] > Ratio(q)[2]}
        below == {q \in positive : Ratio(q)[1] * Ratio(key)[2] <= Ratio(key)[1] * Ratio(q)[2]}
    IN IF key \in positive THEN (100 * Cardinality(below)) \div Cardinality(positive) ELSE 0

WeightOf(key) ==
    LET most == Max({1} \union {relationshipMap[q].strength : q \in DOMAIN relationshipMap})
        strength == (100 * relationshipMap[key].strength) \div most
    IN 100 + (9 * (6 * Rank(key) + 4 * strength)) \div 10

CalculateWeights ==
    /\ phase = "relating" /\ Ended(batch)
    /\ phase' = "weighted"
    /\ relationshipMap' = [key \in DOMAIN relationshipMap |->
                              [relationshipMap[key] EXCEPT !.weight = WeightOf(key)]]
    /\ UNCHANGED <<callVars, task, found, batch, entityMap, chunkGraph, named, related>>

DegreeOf(title) ==
    Cardinality({key \in DOMAIN relationshipMap : key[1] = title})
        + Cardinality({key \in DOMAIN relationshipMap : key[2] = title})

CalculateDegrees ==
    /\ phase = "weighted"
    /\ phase' = "measured"
    /\ entityMap' = [title \in DOMAIN entityMap |-> [entityMap[title] EXCEPT !.degree = DegreeOf(title)]]
    /\ relationshipMap' = [key \in DOMAIN relationshipMap |->
            IF Known(key[1]) /\ Known(key[2])
            THEN [relationshipMap[key] EXCEPT !.degree = DegreeOf(key[1]) + DegreeOf(key[2])]
            ELSE relationshipMap[key]]
    /\ UNCHANGED <<callVars, task, found, batch, chunkGraph, named, related>>

\* As Pairs, but a link goes one way.
PairsOneWay(key) ==
    IF Known(key[1]) /\ Known(key[2]) THEN entityMap[key[1]].chunks \X entityMap[key[2]].chunks ELSE {}

\* The pairs of chunks that a relation links, both ways.
Pairs(key) ==
    IF Known(key[1]) /\ Known(key[2])
    THEN LET there == entityMap[key[1]].chunks \X entityMap[key[2]].chunks
         IN there \union {<<p[2], p[1]>> : p \in there}
    ELSE {}
Link(key) == [weight |-> relationshipMap[key].weight, degree |-> relationshipMap[key].degree]

\* A map is ranged over in any order, and the last relation of a pair stays.
BuildChunkGraph(order) ==
    /\ phase = "measured"
    /\ chunkGraph' =
          LET Drawn(p) == {i \in DOMAIN order : p \in Pairs(order[i])}
          IN [p \in DOMAIN chunkGraph \union UNION {Pairs(order[i]) : i \in DOMAIN order} |->
                 IF Drawn(p) = {} THEN chunkGraph[p] ELSE Link(order[Max(Drawn(p))])]
    /\ phase' = "idle" /\ outcome' = "ok"
    /\ UNCHANGED <<plan, chunks, task, found, batch, entityMap, relationshipMap, named, related>>

(***************************************************************************)
(* GetRelationChunks, GetIndirectRelationChunks.                           *)
(***************************************************************************)
Direct(c) == {d \in Chunks : <<c, d>> \in DOMAIN chunkGraph}

Indirect(c) ==
    {e \in UNION {Direct(d) : d \in Direct(c)} : e \notin Direct(c) \union {c}}

\* A path of two links; of the paths to a chunk one of the heaviest is kept.
Path(c, d, e) ==
    [weight |-> (chunkGraph[<<c, d>>].weight * chunkGraph[<<d, e>>].weight) \div 200,
     degree |-> Max({chunkGraph[<<c, d>>].degree, chunkGraph[<<d, e>>].degree})]
IndirectLinks(c, e) ==
    LET paths == {Path(c, d, e) : d \in {x \in Direct(c) : e \in Direct(x)}}
    IN {p \in paths : \A q \in paths : q.weight <= p.weight}

\* What may be answered: the first of the links by weight and then by degree;
\* topK = 0 is no limit.
Before(p, q) == p.weight > q.weight \/ (p.weight = q.weight /\ p.degree > q.degree)
TopOf(link, topK) ==
    LET n == IF topK > 0 THEN Min({topK, Cardinality(DOMAIN link)}) ELSE Cardinality(DOMAIN link)
    IN {s \in [1..n -> DOMAIN link] :
           /\ IsInjective(s)
           /\ \A i, j \in 1..n : i < j => ~ Before(link[s[j]], link[s[i]])
           /\ \A c \in DOMAIN link \ Range(s), i \in 1..n : ~ Before(link[c], link[s[i]])}

GetRelationChunks(c, topK) == TopOf([d \in Direct(c) |-> chunkGraph[<<c, d>>]], topK)
GetIndirectRelationChunks(c, topK) ==
    LET all == UNION {IndirectLinks(c, e) : e \in Indirect(c)}
    IN UNION {TopOf(links, topK) :
                 links \in {f \in [Indirect(c) -> all] : \A e \in Indirect(c) : f[e] \in IndirectLinks(c, e)}}

(***************************************************************************)
GraphNext ==
    \/ BuildGraph \/ Extracted \/ CalculateWeights \/ CalculateDegrees
    \/ \E i \in DOMAIN task : \/ StartExtract(i) \/ ExtractFails(i)
                              \/ \E answer \in EntityAnswers : ExtractEntities(i, answer)
    \/ \E k \in DOMAIN batch : \/ StartRelate(k) \/ RelateFails(k)
                               \/ \E answer \in RelationAnswers : ExtractRelationships(k, answer)
    \/ \E order \in SetToSeqs(DOMAIN relationshipMap) : BuildChunkGraph(order)

GraphSpec == GraphInit /\ [][GraphNext]_graphBuilderVars

(***************************************************************************)
(* Properties.                                                             *)
(***************************************************************************)
\* Neither end has a "#" in its title.
Plain(ends) == "#" \notin ToSet(ends[1]) \union ToSet(ends[2])

\* Whatever the tasks that share the maps do in between, every entity that the model has
\* named in this call is in the map with its chunks, and an entity found by two tasks at
\* a time is one entity with both.  The chunks of every relation are in the map under
\* its key.  A relation whose titles have no "#" is there itself, whatever titles the
\* others have, and it has no chunk that neither of its ends has; one with a "#" may
\* have been merged into another with the same key, and is lost.
NothingSaidIsLost ==
    /\ \A n \in named : Known(n[1]) /\ n[2] \in entityMap[n[1]].chunks
    /\ \A r \in related :
          \E key \in DOMAIN relationshipMap :
              /\ Key(key) = Key(r.rel)
              /\ Plain(r.rel) => key = r.rel
              /\ r.in \subseteq relationshipMap[key].chunks
    /\ \A key \in DOMAIN relationshipMap :
          Plain(key) => relationshipMap[key].chunks \subseteq
              UNION {entityMap[t].chunks : t \in {key[1], key[2]} \intersect DOMAIN entityMap}
    /\ \A t \in DOMAIN entityMap : entityMap[t].freq >= Cardinality(entityMap[t].chunks)

\* BuildGraph reports nil only when every chunk was read.
NilMeansAllRead ==
    outcome = "ok" => \A i \in DOMAIN chunks : task[i] = "done"

\* The text of a batch has every position of its chunks, each once.
BatchTextReadsOnce ==
    phase = "relating" =>
        \A k \in DOMAIN Batches(chunks) :
            LET ids == Batches(chunks)[k]
                text == MergeChunkContents(ids)
            IN (\A i \in 1..(Len(ids) - 1) : /\ Window[ids[i]].from <= Window[ids[i + 1]].from
                                             /\ Window[ids[i]].upto <= Window[ids[i + 1]].upto) =>
               /\ \A i \in 1..(Len(text) - 1) : text[i] < text[i + 1]
               /\ ToSet(text) = UNION {(Window[c].from + 1)..Window[c].upto : c \in ToSet(ids)}

\* After a call that returned nil the chunks are linked as the relations say, no
\* matter in which order they were drawn: both ways, and with the weight and the
\* degree that one relation of the pair has now.  Links never name a pair
\* without a relation, also after a call that failed in between.
LinksAreDerived ==
    /\ DOMAIN chunkGraph \subseteq UNION {Pairs(key) : key \in DOMAIN relationshipMap}
    /\ outcome = "ok" =>
          \A key \in DOMAIN relationshipMap : \A p \in Pairs(key) :
              /\ {p, <<p[2], p[1]>>} \subseteq DOMAIN chunkGraph
              /\ chunkGraph[p] = chunkGraph[<<p[2], p[1]>>]
              /\ \E q \in DOMAIN relationshipMap : p \in Pairs(q) /\ chunkGraph[p] = Link(q)

\* Every relation counts once at each of its ends that is known.
DegreesAddUp ==
    outcome = "ok" =>
        /\ Cardinality(UNION {{t} \X (1..entityMap[t].degree) : t \in DOMAIN entityMap})
             = Cardinality({key \in DOMAIN relationshipMap : Known(key[1])})
                 + Cardinality({key \in DOMAIN relationshipMap : Known(key[2])})
        /\ \A key \in DOMAIN relationshipMap :
              Known(key[1]) /\ Known(key[2]) =>
                  relationshipMap[key].degree = entityMap[key[1]].degree + entityMap[key[2]].degree

\* An indirect chunk is two links away and not one, from either side and with
\* the same weight, and no query answers what the other one does.
QueriesAgree ==
    outcome = "ok" =>
        \A c, e \in Chunks :
            /\ e \in Direct(c) <=> c \in Direct(e)
            /\ e \in Indirect(c) => c \in Indirect(e) /\ IndirectLinks(c, e) = IndirectLinks(e, c)
            /\ \A s \in GetRelationChunks(c, 1), t \in GetIndirectRelationChunks(c, 2) :
                  ToSet(s) \intersect ToSet(t) = {}

\* The builder keeps what the model says, and says when it could not ask.
BuilderKeepsAnswers == NothingSaidIsLost /\ NilMeansAllRead /\ BatchTextReadsOnce

\* What is worked out from the entities and the relations agrees with them.
GraphAgreesWithRelations == LinksAreDerived /\ DegreesAddUp /\ QueriesAgree
=============================================================================
