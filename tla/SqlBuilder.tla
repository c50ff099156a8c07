----------------------------- MODULE SqlBuilder -----------------------------
(***************************************************************************)
(* pkg/xsql/builder: conditions on fields become the text of a statement,  *)
(* with a "?" for every value, and the list of the values.  The text is a  *)
(* tree here: a test of a field has the number of its "?" (marks) and the  *)
(* values written into it (raw); the values are bound to the marks from    *)
(* left to right, as a database does.                                      *)
(*                                                                         *)
(* A field is a number, in the order of the names; a value of n stands for *)
(* a text of n letters, and Like(n) for the pattern with % on both sides.  *)
(* A Go map is given in the order in which range visits it.                *)
(***************************************************************************)
EXTENDS Pagination, Integers, Sequences, SequencesExt, FiniteSetsExt, TLC

CONSTANTS Fields,      \* the columns of the table
          Statements   \* what the builder is asked for: [kind, ...]

ASSUME BuilderAssumption == Fields \subseteq Nat

VARIABLES wanted, built   \* a statement and what the builder returns

builderVars == <<wanted, built>>

Null == -1
Like(n) == 10 + n
One(n) == [is |-> "one", of |-> <<n>>]
Raw(n) == [is |-> "raw", of |-> <<n>>]
Several(s) == [is |-> "list", of |-> s]
IsNull == [is |-> "null", of |-> <<>>]
IsNotNull == [is |-> "not null", of |-> <<>>]

Test(field, op, marks, raw) == [is |-> "test", field |-> field, op |-> op, marks |-> marks, raw |-> raw]
Group(andOr, parts) == [is |-> andOr, parts |-> parts]
Nothing == [conds |-> <<>>, vals |-> <<>>]

(***************************************************************************)
(* The Build methods.  A comparable is [op, of], with a value of each of   *)
(* its fields, or a group of comparables; "nil" is nilComparable.          *)
(***************************************************************************)
Comparisons == {"=", "!=", ">", ">=", "<", "<="}
Lists == {"in", "not in", "between", "not between"}

BuildField(op, field, v) ==
    CASE op = "null" ->
            [conds |-> IF v.is \in {"null", "not null"} THEN <<Test(field, v.is, 0, <<>>)>> ELSE <<>>,
             vals |-> <<>>]
      [] op \in Comparisons /\ v.is = "raw" -> [conds |-> <<Test(field, op, 0, v.of)>>, vals |-> <<>>]
      [] op = "like2" -> [conds |-> <<Test(field, "like", 1, <<>>)>>, vals |-> <<Like(v.of[1])>>]
      [] op \in {"between", "not between"} /\ Len(v.of) # 2 ->
            [conds |-> <<Test(field, "bare", 0, <<>>)>>, vals |-> <<>>]
      [] OTHER -> [conds |-> <<Test(field, op, Len(v.of), <<>>)>>, vals |-> v.of]

Both(a, b) == [conds |-> a.conds \o b.conds, vals |-> a.vals \o b.vals]

BuildMap(c) ==
    LET fields == SetToSortSeq(DOMAIN c.of, <)
    IN FoldLeft(LAMBDA all, f : Both(all, BuildField(c.op, f, c.of[f])), Nothing, fields)

\* As Connect, but a group of alternatives is joined like any other.
ConnectAll(andOr, found) ==
    IF found.conds = <<>> THEN Nothing ELSE [conds |-> <<Group("AND", found.conds)>>, vals |-> found.vals]

Connect(andOr, found) ==
    IF found.conds = <<>> THEN Nothing
    ELSE [conds |-> <<Group(andOr, found.conds)>>, vals |-> found.vals]

\* A group within a group is a condition also when it has none of its own: ().
RECURSIVE WhereConnector(_, _)
WhereConnector(andOr, comps) ==
    LET Build(c) == CASE c.op = "nil" -> Nothing
                      [] c.op \in {"AND", "OR"} ->
                            LET nested == WhereConnector(c.op, c.parts)
                            IN IF nested = Nothing THEN [Nothing EXCEPT !.conds = <<Group("AND", <<>>)>>]
                               ELSE nested
                      [] OTHER -> BuildMap(c)
    IN Connect(andOr, FoldLeft(LAMBDA all, c : Both(all, Build(c)), Nothing, comps))

(***************************************************************************)
(* BuildWhere.  An entry of the request is a test, alternatives, or one of *)
(* the keys that are ignored.                                              *)
(***************************************************************************)
OpOrder == <<"=", "in", "!=", "<>", "not in", ">", ">=", "<", "<=", "like", "like2", "not like",
             "between", "not between", "null">>

Operator(e) ==
    IF e.val.is \in {"null", "not null"} THEN "null"
    ELSE IF e.op # "" THEN e.op
    ELSE IF e.val.is = "list" THEN "in" ELSE "="

Supported(e) == e.op = "" \/ e.op \in ToSet(OpOrder)
Convertible(op, map) == op \in Lists => \A f \in DOMAIN map : map[f].is = "list"

AddTest(set, op, field, val) ==
    IF op \in DOMAIN set THEN [set EXCEPT ![op] = (field :> val) @@ @]
    ELSE op :> (field :> val) @@ set

RECURSIVE GetWhereConditions(_)
GetWhereConditions(request) ==
    LET Alternatives(e) == [i \in DOMAIN e.alts |-> GetWhereConditions(e.alts[i])]
        Read(s, e) ==
            CASE s.err \/ e.is = "ignored" -> s
              [] e.is = "or" ->
                    LET subs == Alternatives(e)
                    IN [s EXCEPT !.err = \E i \in DOMAIN subs : subs[i].err,
                                 !.ors = Append(@, [op |-> "OR", parts |->
                                            [i \in DOMAIN subs |-> [op |-> "AND", parts |-> subs[i].comps]]])]
              [] OTHER -> [s EXCEPT !.err = ~ Supported(e), !.set = AddTest(@, Operator(e), e.field, e.val)]
        s == FoldLeft(Read, [err |-> FALSE, ors |-> <<>>, set |-> <<>>], request)
        ops == SelectSeq(OpOrder, LAMBDA op : op \in DOMAIN s.set)
        Name(op) == IF op = "<>" THEN "!=" ELSE op
    IN [err |-> s.err \/ \E op \in DOMAIN s.set : ~ Convertible(op, s.set[op]),
        comps |-> s.ors \o [i \in DOMAIN ops |-> [op |-> Name(ops[i]), of |-> s.set[ops[i]]]]]

Failed == [status |-> "error"]
WhereOf(request) ==
    LET got == GetWhereConditions(request)
    IN IF got.err THEN Failed
       ELSE [status |-> "where", sql |-> WhereConnector("AND", got.comps)]

\* GormBuildWhere: of two queries with a key and an operator the last counts.
QueryMap(queries) ==
    SelectSeq([i \in DOMAIN queries |->
                  IF \E j \in DOMAIN queries : /\ j > i /\ queries[j].field = queries[i].field
                                               /\ queries[j].op = queries[i].op
                  THEN [is |-> "ignored"] ELSE queries[i]],
              LAMBDA e : e.is = "test")

(***************************************************************************)
(* buildInsert, buildInsertOnDuplicate, buildUpdate, buildDelete,          *)
(* buildSelect: the clauses of a statement and its values.                 *)
(***************************************************************************)
ResolveUpdate(update) == BuildMap([op |-> "=", of |-> update])

Insert(rows, update) ==
    LET columns == SetToSortSeq(DOMAIN rows[1], <)
        sets == ResolveUpdate(update)
    IN IF rows = <<>> \/ \E i \in DOMAIN rows : ~ DOMAIN rows[1] \subseteq DOMAIN rows[i] THEN Failed
       ELSE [status |-> "insert", columns |-> columns, rows |-> Len(rows), sets |-> sets.conds,
             vals |-> FlattenSeq([i \in DOMAIN rows |-> [k \in DOMAIN columns |-> rows[i][columns[k]]]])
                         \o sets.vals]

Limited(limit) == IF limit > 0 THEN <<limit>> ELSE <<>>

Update(update, limit, comps) ==
    LET sets == ResolveUpdate(update)
        where == WhereConnector("AND", comps)
    IN [status |-> "update", sets |-> sets.conds, where |-> where.conds, having |-> <<>>,
        marks |-> Len(Limited(limit)), vals |-> sets.vals \o where.vals \o Limited(limit)]

Delete(limit, comps) ==
    LET where == WhereConnector("AND", comps)
        kept == IF where = Nothing THEN <<>> ELSE Limited(limit)
    IN [status |-> "delete", sets |-> <<>>, where |-> where.conds, having |-> <<>>,
        marks |-> Len(kept), vals |-> where.vals \o kept]

\* splitCondition: what follows the last nil is for HAVING.
NilAt(comps) == Max({0} \union {i \in DOMAIN comps : comps[i].op = "nil"})
WherePart(comps) == IF NilAt(comps) \in 1..(Len(comps) - 1) THEN SubSeq(comps, 1, NilAt(comps) - 1) ELSE comps
HavingPart(comps) == IF NilAt(comps) \in 1..(Len(comps) - 1) THEN SubSeq(comps, NilAt(comps) + 1, Len(comps)) ELSE <<>>

\* As Select, but the values of HAVING stand before those of WHERE.
SelectHavingFirst(limit, comps) ==
    LET where == WhereConnector("AND", WherePart(comps))
        having == WhereConnector("AND", HavingPart(comps))
    IN [status |-> "select", sets |-> <<>>, where |-> where.conds, having |-> having.conds,
        marks |-> Len(limit), vals |-> having.vals \o where.vals \o limit]

Select(limit, comps) ==
    LET where == WhereConnector("AND", WherePart(comps))
        having == WhereConnector("AND", HavingPart(comps))
    IN [status |-> "select", sets |-> <<>>, where |-> where.conds, having |-> having.conds,
        marks |-> Len(limit), vals |-> where.vals \o having.vals \o limit]

(***************************************************************************)
BuilderInit == wanted \in Statements /\ built = [status |-> "asked"]

Builds(kind, answer) ==
    /\ built.status = "asked" /\ wanted.kind = kind
    /\ built' = answer /\ UNCHANGED wanted

BuildWhere == Builds("where", WhereOf(wanted.request))
GormBuildWhere == Builds("queries", WhereOf(QueryMap(wanted.request)))
BuildInsert == Builds("insert", Insert(wanted.rows, wanted.update))
BuildUpdate == Builds("update", Update(wanted.update, wanted.limit, wanted.comps))
BuildDelete == Builds("delete", Delete(wanted.limit, wanted.comps))
BuildSelect == Builds("select", Select(wanted.limit, wanted.comps))
Paginate ==
    Builds("pages", [status |-> "pages",
                     rows |-> [p \in 1..CeilPageNum(wanted.total, wanted.size) |->
                                  PageRows(p, wanted.size, wanted.total)]])

BuilderNext ==
    \/ BuildWhere \/ GormBuildWhere \/ BuildInsert \/ BuildUpdate \/ BuildDelete \/ BuildSelect
    \/ Paginate

BuilderSpec == BuilderInit /\ [][BuilderNext]_builderVars

(***************************************************************************)
(* What a database makes of the text and the values.                       *)
(***************************************************************************)
Rows == [Fields -> {Null} \union 0..2]

RECURSIVE Marks(_)
Marks(node) ==
    IF node.is = "test" THEN node.marks
    ELSE FoldLeft(LAMBDA n, part : n + Marks(part), 0, node.parts)
AllMarks(nodes) == FoldLeft(LAMBDA n, node : n + Marks(node), 0, nodes)

Matches(x, pattern) == IF pattern >= 10 THEN x >= pattern - 10 ELSE x = pattern
Passes(x, op, args) ==
    CASE op = "null" -> x = Null
      [] op = "not null" -> x # Null
      [] x = Null -> FALSE
      [] op = "=" -> x = args[1]
      [] op = "!=" -> x # args[1]
      [] op = "<" -> x < args[1]
      [] op = "<=" -> x <= args[1]
      [] op = ">" -> x > args[1]
      [] op = ">=" -> x >= args[1]
      [] op = "in" -> x \in ToSet(args)
      [] op = "not in" -> x \notin ToSet(args)
      [] op = "like" -> Matches(x, args[1])
      [] op = "not like" -> ~ Matches(x, args[1])
      [] op = "between" -> args[1] <= x /\ x <= args[2]
      [] op = "not between" -> ~ (args[1] <= x /\ x <= args[2])

RECURSIVE Holds(_, _, _)
Holds(node, vals, row) ==
    LET After(i) == AllMarks(SubSeq(node.parts, 1, i - 1))
        Part(i) == Holds(node.parts[i], SubSeq(vals, After(i) + 1, After(i) + Marks(node.parts[i])), row)
    IN CASE node.is = "test" -> Passes(row[node.field], node.op, node.raw \o vals)
         [] node.is = "AND" -> \A i \in DOMAIN node.parts : Part(i)
         [] node.is = "OR" -> \E i \in DOMAIN node.parts : Part(i)

Chosen(nodes, vals) == {row \in Rows : nodes = <<>> \/ Holds(nodes[1], vals, row)}

\* A text that a database accepts, and that tests what it says.
RECURSIVE IsSQL(_)
IsSQL(node) ==
    IF node.is = "test"
    THEN node.op # "bare" /\ (node.op \in {"in", "not in"} => node.marks > 0)
    ELSE node.parts # <<>> /\ \A i \in DOMAIN node.parts : IsSQL(node.parts[i])
AreSQL(nodes) == \A i \in DOMAIN nodes : IsSQL(nodes[i])

(***************************************************************************)
(* Properties.                                                             *)
(***************************************************************************)
Effective(e) == LET op == Operator(e) IN IF op = "<>" THEN "!=" ELSE op
Means(field, op, v, row) ==
    Passes(row[field], IF op = "null" THEN v.is ELSE IF op = "like2" THEN "like" ELSE op,
           IF op = "like2" THEN <<Like(v.of[1])>> ELSE v.of)

RECURSIVE Fits(_, _)
Fits(request, row) ==
    \A i \in DOMAIN request :
        LET e == request[i]
        IN CASE e.is = "or" -> \E k \in DOMAIN e.alts : Fits(e.alts[k], row)
             [] e.is = "test" -> Means(e.field, Effective(e), e.val, row)
             [] OTHER -> TRUE

\* No two entries of a map, or of one inside, are for the same operator of a field,
\* and none asks of a value whether it is null.
RECURSIVE Distinct(_)
Distinct(request) ==
    \A i \in DOMAIN request :
        LET e == request[i]
        IN CASE e.is = "or" -> \A k \in DOMAIN e.alts : Distinct(e.alts[k])
             [] e.is = "test" ->
                   /\ Operator(e) = "null" => e.val.is \in {"null", "not null"}
                   /\ \A j \in DOMAIN request \ {i} :
                         request[j].is = "test" /\ request[j].field = e.field => Operator(request[j]) # Operator(e)
             [] OTHER -> TRUE

Asked == IF wanted.kind = "queries" THEN QueryMap(wanted.request) ELSE wanted.request

\* However the map is visited and however deep its alternatives go, there is one
\* value for every "?", and the rows that the text selects, once the values are
\* bound to it in turn, are those that the request describes; a request that is
\* not refused and turns into no condition at all describes every row.
WhereIsTheRequest ==
    built.status = "where" =>
        /\ AllMarks(built.sql.conds) = Len(built.sql.vals)
        /\ Distinct(Asked) /\ AreSQL(built.sql.conds) =>
              Chosen(built.sql.conds, built.sql.vals) = {row \in Rows : Fits(Asked, row)}

RECURSIVE Selects(_, _, _)
Selects(andOr, comps, row) ==
    LET Part(c) == CASE c.op = "nil" -> andOr = "AND"
                    [] c.op \in {"AND", "OR"} -> Selects(c.op, c.parts, row)
                    [] OTHER -> \A f \in DOMAIN c.of : Means(f, c.op, c.of[f], row)
    IN IF andOr = "AND" THEN \A i \in DOMAIN comps : Part(comps[i])
       ELSE \E i \in DOMAIN comps : Part(comps[i])

\* The value that a clause of SET gives a field.
SetValue(nodes, vals, k) ==
    (nodes[k].raw \o SubSeq(vals, AllMarks(SubSeq(nodes, 1, k - 1)) + 1,
                            AllMarks(SubSeq(nodes, 1, k))))[1]
SetsAll(update, nodes, vals) ==
    /\ {nodes[k].field : k \in DOMAIN nodes} = DOMAIN update
    /\ \A k \in DOMAIN nodes : SetValue(nodes, vals, k) = update[nodes[k].field].of[1]

\* The values of an INSERT are those of its rows, column by column, and then those
\* of the update; in the other statements SET, WHERE, HAVING and LIMIT each get
\* their own, so that the rows chosen, and the groups, are those of the conditions.
StatementKeepsData ==
    /\ built.status = "insert" =>
          LET n == Len(built.columns)
          IN /\ built.rows = Len(wanted.rows)
             /\ \A i \in 1..built.rows, k \in 1..n :
                   built.vals[(i - 1) * n + k] = wanted.rows[i][built.columns[k]]
             /\ SetsAll(wanted.update, built.sets, SubSeq(built.vals, built.rows * n + 1, Len(built.vals)))
             /\ Len(built.vals) = built.rows * n + AllMarks(built.sets)
    /\ built.status \in {"update", "delete", "select"} =>
          LET s == AllMarks(built.sets)
              w == s + AllMarks(built.where)
              h == w + AllMarks(built.having)
              comps == wanted.comps
          IN /\ Len(built.vals) = h + built.marks
             /\ built.status = "update" => SetsAll(wanted.update, built.sets, built.vals)
             /\ Chosen(built.where, SubSeq(built.vals, s + 1, w)) =
                   {row \in Rows : Selects("AND", IF built.status = "select" THEN WherePart(comps) ELSE comps, row)}
             /\ Chosen(built.having, SubSeq(built.vals, w + 1, h)) =
                   {row \in Rows : built.status = "select" => Selects("AND", HavingPart(comps), row)}
             /\ built.marks > 0 => SubSeq(built.vals, h + 1, Len(built.vals)) =
                                      IF built.status = "select" THEN wanted.limit ELSE <<wanted.limit>>

\* Of a page size up to the cap, the pages that are counted show every row once.
\* (Of a larger one they do not: rows are shown by the cap and pages counted by
\* the size asked for.)
PagesShowAll ==
    built.status = "pages" /\ wanted.size \in 1..PageCap => ShowAll(built.rows, wanted.total)

\* The statements say what was asked for.
StatementsAreTheRequests == WhereIsTheRequest /\ StatementKeepsData /\ PagesShowAll
=============================================================================
