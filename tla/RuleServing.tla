---------------------------- MODULE RuleServing ----------------------------
(***************************************************************************)
(* What a compiled rule set serves (sync_rules/eval.rs, control_plane/      *)
(* parameters.rs, the bucket resolution of http/sync_stream.rs, and the     *)
(* keys of the current-state index and accumulators): a source is compiled, *)
(* rows are written under the keys the plan gives them, and every request   *)
(* of Requests is answered from those keys.  The answer is compared with    *)
(* what the SQL of the source selects.                                      *)
(***************************************************************************)
EXTENDS RuleCompiler

CONSTANTS
  Sources,       \* rule documents that may be deployed
  Requests,      \* /sync/stream requests
  Tables,        \* the materialized source tables
  Ids,           \* row ids
  Rows,          \* column values a row may take (functions from columns to values)
  Members,       \* rows of the lookup table, by id: a function
  MaxBuckets     \* POWERSYNC_RUST_MAX_BUCKETS_PER_REQUEST

ASSUME ServingAssumption == MaxBuckets \in Nat \ {0}

VARIABLES
  source,   \* the document last submitted, or NoSource
  plan,     \* the execution plan, or NoPlan
  docs,     \* current documents: a function from <<table, id>> pairs to rows
  index,    \* current route index: from [table, routes, id] keys to copies of rows
  counts    \* current accumulators: a function from keys to counts

vars == <<source, plan, docs, index, counts>>

NoSource == [streams |-> <<>>]
NoPlan == [ok |-> FALSE]

NoRow == [c \in {} |-> NoValue]

------------------------------------------------------------------------------
\* eval.rs: rows against predicates.

\* Directional: a string on the left also equals a number or boolean of that text.
json_values_equal(left, right) ==
  left = right \/ (left.t = "s" /\ right.t \in {"s", "n", "b"} /\ left.v = right.v)

row_operand_value(o, row) ==
  IF o.kind = "lit" THEN o.val
  ELSE IF o.kind = "col" /\ o.name \in DOMAIN row THEN row[o.name] ELSE NoValue
row_operand_present(o, row) == o.kind = "lit" \/ (o.kind = "col" /\ o.name \in DOMAIN row)

row_leaf_eval(leaf, row) ==
  LET l == row_operand_value(leaf.l, row)
      r == row_operand_value(leaf.r, row)
      both == row_operand_present(leaf.l, row) /\ row_operand_present(leaf.r, row)
  IN  CASE leaf.op = "null" -> l.t = "z"
        [] leaf.op = "notnull" -> l.t # "z"
        [] leaf.op = "in" /\ r.t = "a" ->
             both /\ \E x \in Elements(r.els) : json_values_equal(l, Text(x))
        [] OTHER -> both /\ json_values_equal(l, r)

row_filter_matches(filter, row) ==
  \A c \in Elements(filter) : \E leaf \in Elements(c) : row_leaf_eval(leaf, row)

------------------------------------------------------------------------------
\* parameters.rs: the values of a request.  token is "" without a user.

\* flattened claims, with user_id filled in when no claim has that name.
AuthParameters(req) ==
  [n \in DOMAIN req.claims \cup (IF req.user = "" THEN {} ELSE {"user_id"}) |->
     IF n \in DOMAIN req.claims THEN req.claims[n] ELSE req.user]

Lookup(f, n) == IF n \in DOMAIN f THEN <<f[n]>> ELSE <<>>

\* <<>> for None.
binding_value(b, req, subs) ==
  CASE b.kind = "auth" -> Lookup(AuthParameters(req), b.name)
    [] b.kind = "user" -> IF req.user = "" THEN <<>> ELSE <<req.user>>
    [] b.kind = "jwt" -> Lookup(req.claims, b.name)
    [] b.kind \in {"req", "array"} ->
         Map(LAMBDA v : v.v, Lookup(req.parameters, b.name))
    [] b.kind \in {"sub", "pq", "bucket"} -> Lookup(subs, b.name)

\* An array parameter stands for each of its elements.
binding_values(b, req, subs) ==
  IF b.kind = "array" /\ b.name \in DOMAIN req.parameters /\ req.parameters[b.name].t = "a"
  THEN req.parameters[b.name].els ELSE binding_value(b, req, subs)

request_leaf_eval(leaf, req, subs) ==
  LET b == IF parse_binding(leaf.l) THEN leaf.l ELSE leaf.r
      literal == IF parse_binding(leaf.l) THEN leaf.r ELSE leaf.l
      value == binding_value(b, req, subs)
      null == value = <<>> \/ value = <<"">>
  IN  CASE leaf.op = "null" -> null
        [] leaf.op = "notnull" -> ~null
        [] leaf.op = "eq" -> value # <<>> /\ json_values_equal(Text(value[1]), literal.val)
        [] OTHER -> FALSE

request_filter_matches(filter, req, subs) ==
  \A c \in Elements(filter) : \E leaf \in Elements(c) : request_leaf_eval(leaf, req, subs)

------------------------------------------------------------------------------
\* eval.rs: bucket names and what they resolve to.

NoSubscription == [n \in {} |-> ""]
BucketName(stream, group, values) == [stream |-> stream, group |-> group, values |-> values]

\* Values go to parameters by name, and to columns through them: the last one wins.
route_constraints(group, query, values) ==
  [c \in RouteColumns(query) |->
     LET ps == query.bucket_parameters
         p == CHOOSE i \in 1..Len(ps) :
                /\ ps[i].source_column = c
                /\ \A j \in i + 1..Len(ps) : ps[j].source_column # c
         gs == group.bucket_parameters
         g == CHOOSE i \in 1..Len(gs) :
                /\ gs[i].name = ps[p].name
                /\ \A j \in i + 1..Len(gs) : gs[j].name # ps[p].name
     IN  values[g]]

\* checkpoint_accumulator_name
AccumulatorKey(query, routes) ==
  [table |-> query.table, routes |-> routes, row_filter |-> query.row_filter,
   request_filter |-> query.request_filter, projection |-> query.projection]

\* The plan knows the bucket.  The readers' resolve_bucket_request_for_plan asks the
\* configured rules for a name that the plan does not know (wire_mdbx.rs:411-417), which
\* is left out: BucketsResolve shows that no name of a stream request gets there.
Resolves(name) ==
  /\ name.stream \in plan.streams
  /\ name.group \in 1..Len(plan.groups[name.stream])
  /\ Len(name.values) = Len(plan.groups[name.stream][name.group].bucket_parameters)

\* The queries of the bucket, each with its constraints.
resolve_bucket_request(name) ==
  LET group == plan.groups[name.stream][name.group]
  IN  Map(LAMBDA q : AccumulatorKey(q, route_constraints(group, q, name.values)), group.queries)

\* Groups with no parameter of the auto-subscribed streams, when their filter holds.
default_bucket_requests_matching(req) ==
  FlattenSeq(Map(
    LAMBDA s : Map(LAMBDA g : BucketName(s, g, <<>>),
                   SelectSeq([g \in 1..Len(plan.groups[s]) |-> g],
                     LAMBDA g : /\ plan.groups[s][g].bucket_parameters = <<>>
                                /\ request_filter_matches(plan.groups[s][g].request_filter,
                                                          req, NoSubscription))),
    plan.default_stream_names))

------------------------------------------------------------------------------
\* sync_stream.rs: the buckets of a request.

\* The lookup entries under the key values (LookupState.tla shows that the index is
\* this query over the materialized rows).
LookupRows(l, key) ==
  LET ids == {i \in DOMAIN Members :
                /\ \A k \in DOMAIN l.key_bindings : Members[i][k].t # "z" /\ Members[i][k].v = key[k]
                /\ row_filter_matches(l.row_predicate, Members[i])
                /\ \A a \in DOMAIN l.selected : Members[i][l.selected[a]].t # "z"}
  IN  [n \in 1..Cardinality(ids) |->
         [a \in DOMAIN l.selected |-> Members[SetToSeq(ids)[n]][l.selected[a]].v]]

Refused == [ok |-> FALSE, direct |-> FALSE, values |-> <<>>]
Values(direct, values) == [ok |-> TRUE, direct |-> direct, values |-> values]

resolve_parameter_lookup_rows(l, req, subs) ==
  LET known == \A k \in DOMAIN l.key_bindings :
                 binding_value(l.key_bindings[k], req, subs) # <<>>
      rows == LookupRows(l, [k \in DOMAIN l.key_bindings |->
                               binding_value(l.key_bindings[k], req, subs)[1]])
  IN  IF ~known THEN Refused
      ELSE IF Len(rows) > MaxBuckets THEN Refused ELSE Values(FALSE, rows)

cartesian_product_values(options) ==
  FoldLeft(LAMBDA products, option :
             FlattenSeq(Map(LAMBDA p : Map(LAMBDA v : Append(p, v), option), products)),
           <<<<>>>>, options)

\* The first lookup of the group gives the values of all its parameters, by name.
GroupValues(group, req, subs) ==
  LET ps == group.bucket_parameters
      pq == SelectSeq(ps, LAMBDA p : p.binding.kind = "pq")
      looked_up(l, rows) ==
        IF ~rows.ok \/ (rows.values # <<>> /\
                          \E p \in Elements(ps) : p.name \notin DOMAIN l.selected)
        THEN Refused
        ELSE Values(FALSE, Map(LAMBDA r : Map(LAMBDA p : r[p.name], ps), rows.values))
      direct(options) ==
        IF \E o \in Elements(options) : o = <<>> THEN Refused
        ELSE Values(TRUE, cartesian_product_values(options))
  IN  IF pq # <<>>
      THEN LET l == CHOOSE x \in plan.lookups : x.id = pq[1].binding.lookup
           IN  looked_up(l, resolve_parameter_lookup_rows(l, req, subs))
      ELSE direct(Map(LAMBDA p : binding_values(p.binding, req, subs), ps))

\* One part per group of a subscribed stream whose request filter holds.
SubscriptionParts(req, s) ==
  Map(LAMBDA g : [v |-> GroupValues(plan.groups[s.stream][g], req, s.parameters),
                  stream |-> s.stream, group |-> g],
      SelectSeq([g \in 1..Len(plan.groups[s.stream]) |-> g],
        LAMBDA g : request_filter_matches(plan.groups[s.stream][g].request_filter,
                                          req, s.parameters)))

NoBuckets == [ok |-> FALSE, names |-> <<>>]
Buckets(names) == [ok |-> TRUE, names |-> names]

PartNames(part) == Map(LAMBDA vs : BucketName(part.stream, part.group, vs), part.v.values)

\* The parts of a request, and its default buckets.
RequestParts(req) == FlattenSeq(Map(LAMBDA s : SubscriptionParts(req, s), req.subscriptions))
RequestDefaults(req) ==
  IF req.include_defaults THEN default_bucket_requests_matching(req) ELSE <<>>

\* Every subscribed stream exists and every part has its values.
PartsKnown(req, parts) ==
  /\ \A s \in Elements(req.subscriptions) : s.stream \in plan.streams
  /\ \A i \in 1..Len(parts) : parts[i].v.ok

\* Mutant: the limit is not checked.
resolve_names_unbounded(req) ==
  LET answer(parts, defaults) ==
        IF PartsKnown(req, parts)
        THEN Buckets(defaults \o FlattenSeq(Map(PartNames, parts))) ELSE NoBuckets
  IN  answer(RequestParts(req), RequestDefaults(req))

\* The limit is checked before a product is materialized, and at the end.
resolve_stream_bucket_names(req) ==
  LET answer(parts, defaults) ==
        LET upto(n) == defaults \o FlattenSeq(Map(PartNames, SubSeq(parts, 1, n)))
            names == SelectSeq(upto(Len(parts)), LAMBDA n : req.only = {} \/ n \in req.only)
        IN  IF /\ PartsKnown(req, parts)
               /\ \A i \in 1..Len(parts) : parts[i].v.direct => Len(upto(i)) <= MaxBuckets
               /\ Len(names) <= MaxBuckets
            THEN Buckets(names) ELSE NoBuckets
  IN  answer(RequestParts(req), RequestDefaults(req))

\* Without subscriptions only the default buckets may be named.
validate_explicit_bucket_names(req, named) ==
  \A n \in named :
    IF req.user = "" THEN Resolves(n) ELSE n \in Elements(default_bucket_requests_matching(req))

bucket_cursors(req) ==
  LET named == IF req.only # {} THEN req.only ELSE req.buckets
  IN  CASE req.bad_cursor -> NoBuckets
        [] ~req.bad_cursor /\ req.streams -> resolve_stream_bucket_names(req)
        [] OTHER -> IF named = {} THEN Buckets(default_bucket_requests_matching(req))
                    ELSE IF validate_explicit_bucket_names(req, named)
                    THEN Buckets(SetToSeq(named)) ELSE NoBuckets

------------------------------------------------------------------------------
\* The writer: the keys of a row.

\* Null route columns are left out.
route_fields_for_row(table, row) ==
  [c \in {d \in plan.route_columns[table] : d \in DOMAIN row /\ row[d].t # "z"} |-> row[c]]

Constraints(columns, fields) == [c \in columns |-> fields[c].v]

required_route_indexes_for_row(table, fields) ==
  {Constraints(columns, fields) :
     columns \in {cs \in plan.route_indexes[table] : cs \subseteq DOMAIN fields}}

\* One key per query of the table whose columns the row has.
accumulator_buckets_for_row(table, fields) ==
  {AccumulatorKey(q, Constraints(RouteColumns(q), fields)) :
     q \in {x \in Elements(plan.accumulator_queries) :
              x.table = table /\ RouteColumns(x) \subseteq DOMAIN fields}}

\* A constraint holds for an equal field and for an array that contains the value.
route_constraints_match(routes, fields) ==
  \A c \in DOMAIN routes :
    c \in DOMAIN fields /\ (fields[c].v = routes[c] \/ routes[c] \in Elements(fields[c].els))

\* The first query of the bucket that takes the row decides, with its row filter.
query_for_object_and_routes(queries, table, fields) ==
  SelectSeq(queries, LAMBDA q : q.table = table /\ route_constraints_match(q.routes, fields))

matches_object_routes_and_data(queries, table, row) ==
  LET found == query_for_object_and_routes(queries, table, route_fields_for_row(table, row))
  IN  found # <<>> /\ row_filter_matches(found[1].row_filter, row)

\* Mutant: rows the row filter excludes are counted.
accumulator_targets_unfiltered(table, row) ==
  accumulator_buckets_for_row(table, route_fields_for_row(table, row))

current_accumulator_targets(table, row) ==
  {k \in accumulator_buckets_for_row(table, route_fields_for_row(table, row)) :
     matches_object_routes_and_data(<<k>>, table, row)}

Count(k) == IF k \in DOMAIN counts THEN counts[k] ELSE 0

IndexKeys(table, id, row) ==
  {[table |-> table, routes |-> r, id |-> id] :
     r \in required_route_indexes_for_row(table, route_fields_for_row(table, row))}

Previous(key) == IF key \in DOMAIN docs THEN {docs[key]} ELSE {}

\* delete_current_route_indexes
delete_current_route_indexes(key) ==
  LET stale == UNION {IndexKeys(key[1], key[2], row) : row \in Previous(key)}
  IN  [k \in DOMAIN index \ stale |-> index[k]]

\* An index entry holds a copy of the document.
put_route_indexes(entries, table, id, row) ==
  LET new == IndexKeys(table, id, row)
  IN  [k \in DOMAIN entries \cup new |-> IF k \in new THEN row ELSE entries[k]]

\* persist_current_accumulator_deltas, first the removals (an underflow leaves 0).
Counted(removed, added) ==
  LET left(k) == IF k \in removed /\ Count(k) > 0 THEN Count(k) - 1 ELSE Count(k)
  IN  [k \in DOMAIN counts \cup removed \cup added |->
         IF k \in added THEN left(k) + 1 ELSE left(k)]

------------------------------------------------------------------------------
Init ==
  /\ source = NoSource
  /\ plan = NoPlan
  /\ docs = [k \in {} |-> NoSource]
  /\ index = [k \in {} |-> NoSource]
  /\ counts = [k \in {} |-> 0]

\* A source is submitted until one compiles.
Compile(doc) ==
  /\ ~plan.ok
  /\ source' = doc
  /\ plan' = LET p == Plan(doc) IN IF p.ok THEN p ELSE NoPlan
  /\ UNCHANGED <<docs, index, counts>>

\* put_current_document.  A row that lacks a route column fails its whole batch
\* (derive_sync_tail_ops), so it never gets here.
PutRow(table, id, row) ==
  /\ plan.ok /\ table \in DOMAIN plan.route_columns
  /\ plan.route_columns[table] = DOMAIN route_fields_for_row(table, row)
  /\ LET key == <<table, id>>
     IN  /\ docs' = [k \in DOMAIN docs \cup {key} |-> IF k = key THEN row ELSE docs[k]]
         /\ index' = put_route_indexes(delete_current_route_indexes(key), table, id, row)
         /\ counts' = Counted(UNION {current_accumulator_targets(table, r) : r \in Previous(key)},
                              current_accumulator_targets(table, row))
  /\ UNCHANGED <<source, plan>>

\* delete_current_document
RemoveRow(table, id) ==
  /\ <<table, id>> \in DOMAIN docs
  /\ LET key == <<table, id>>
     IN  /\ docs' = [k \in DOMAIN docs \ {key} |-> docs[k]]
         /\ index' = delete_current_route_indexes(key)
         /\ counts' = Counted(current_accumulator_targets(table, docs[key]), {})
  /\ UNCHANGED <<source, plan>>

Next ==
  \/ \E doc \in Sources : Compile(doc)
  \/ \E t \in Tables, i \in Ids :
       (\E row \in Rows : PutRow(t, i, row)) \/ RemoveRow(t, i)

Spec == Init /\ [][Next]_vars

------------------------------------------------------------------------------
\* The reader of a bucket, and the SQL it is compared with.

\* The documents the read transaction collects: all those of the table for a query
\* without constraints, else the copies under the index key.
load_current_documents_for_bucket(queries) ==
  UNION {IF DOMAIN q.routes = {}
         THEN {[key |-> k, row |-> docs[k]] : k \in {d \in DOMAIN docs : d[1] = q.table}}
         ELSE {[key |-> <<k.table, k.id>>, row |-> index[k]] :
                 k \in {i \in DOMAIN index : i.table = q.table /\ i.routes = q.routes}} :
         q \in Elements(queries)}

\* Each matching document under the projection of the first query of its table.
current_entries_for_bucket(queries) ==
  {[key |-> d.key, row |-> d.row,
    projection |-> SelectSeq(queries, LAMBDA q : q.table = d.key[1])[1].projection] :
     d \in {x \in load_current_documents_for_bucket(queries) :
              matches_object_routes_and_data(queries, x.key[1], x.row)}}

\* The rows a request is sent, before their projection (RowProjection.tla).
Served(names) ==
  UNION {{[key |-> e.key, row |-> e.row] : e \in current_entries_for_bucket(resolve_bucket_request(n))} :
           n \in Elements(names)}

\* The count the accumulators give a bucket: the sum over its distinct keys.
AccumulatedCount(queries) ==
  FoldLeft(LAMBDA total, k : total + Count(k), 0, SetToSeq(Elements(queries)))

\* SQL: the value of an operand for a row of the table, a row of the with-query and
\* an element of each json_each item; NULL is no value.
SqlValue(o, row, m, each, req, subs) ==
  CASE o.kind = "col" -> IF o.name \in DOMAIN row THEN row[o.name] ELSE NoValue
    [] o.kind \in {"lit", "list", "float"} -> o.val
    [] o.kind = "bucket" -> IF o.name \in DOMAIN m THEN m[o.name] ELSE NoValue
    [] o.kind = "each" -> Text(each[o.name])
    [] OTHER -> LET v == binding_value(o, req, subs)
                IN  IF v = <<>> THEN NoValue ELSE Text(v[1])

SqlLeaf(leaf, row, m, each, req, subs) ==
  LET l == SqlValue(leaf.l, row, m, each, req, subs)
      r == SqlValue(leaf.r, row, m, each, req, subs)
  IN  CASE leaf.op = "null" -> l.t = "z"
        [] leaf.op = "notnull" -> l.t # "z"
        [] l.t = "z" \/ r.t = "z" -> FALSE
        [] leaf.op = "in" -> l.v \in (IF r.els = <<>> THEN {r.v} ELSE Elements(r.els))
        [] leaf.op = "eq" -> l.v = r.v
        [] OTHER -> l.v # r.v

SqlWhere(where, row, m, each, req, subs) ==
  \A c \in Elements(where) : \E leaf \in Elements(c) : SqlLeaf(leaf, row, m, each, req, subs)

\* The rows of a with-query: those of its table and its json_each items that satisfy
\* its WHERE clause, under their aliases.
EachValues(w, req) ==
  {f \in [{e.alias : e \in Elements(w.each)} ->
            UNION {Elements(binding_values(Bind("array", e.param), req, NoSubscription)) :
                     e \in Elements(w.each)}] :
     \A e \in Elements(w.each) :
       f[e.alias] \in Elements(binding_values(Bind("array", e.param), req, NoSubscription))}

WithRows(w, req, subs) ==
  LET members == IF w.table = "" THEN {NoRow} ELSE {Members[i] : i \in DOMAIN Members}
  IN  {[a \in {x.alias : x \in Elements(w.select)} |->
          SqlValue((CHOOSE x \in Elements(w.select) : x.alias = a).source,
                   p.member, p.member, p.each, req, subs)] :
         p \in {x \in [member : members, each : EachValues(w, req)] :
                  SqlWhere(w.where, x.member, x.member, x.each, req, subs)}}

Joined(s, q, req, subs) ==
  LET with == InScope(source.with, s.with)
  IN  IF q.with \in DOMAIN with THEN WithRows(with[q.with], req, subs) ELSE {NoRow}

Selects(s, q, k, req, subs) ==
  /\ q.table = k[1]
  /\ \E m \in Joined(s, q, req, subs) : SqlWhere(q.where, docs[k], m, NoRow, req, subs)

\* A subscription takes all queries of its stream, a default stream those without
\* parameters: no column is compared with a value of the request or of a with-query.
Parameterless(q) ==
  \A c \in Elements(q.where) : \A leaf \in Elements(c) :
    LET kinds == {leaf.l.kind, leaf.r.kind}
    IN  "col" \in kinds => kinds \subseteq {"col", "lit", "list", "float", "none"}

Selected(req) ==
  {k \in DOMAIN docs :
     \E s \in Elements(source.streams) : \E i \in 1..Len(s.queries) :
       \/ \E x \in Elements(req.subscriptions) :
            s.name = x.stream /\ Selects(s, s.queries[i], k, req, x.parameters)
       \/ /\ s.auto_subscribe /\ req.include_defaults /\ Parameterless(s.queries[i])
          /\ Selects(s, s.queries[i], k, req, NoSubscription)}

------------------------------------------------------------------------------
\* Properties.

TypeOK ==
  /\ source \in Sources \cup {NoSource}
  /\ DOMAIN docs \subseteq Tables \X Ids
  /\ \A k \in DOMAIN index : <<k.table, k.id>> \in DOMAIN docs
  /\ \A k \in DOMAIN counts : counts[k] \in 0..Cardinality(DOMAIN docs)

\* The buckets of a stream request that is answered in full.
Answers(req) ==
  {c.names : c \in {x \in {bucket_cursors(req)} : req.streams /\ req.only = {} /\ x.ok}}

\* A stream request that is answered gets exactly the rows the SQL of the source
\* selects for its subscriptions, whatever the compiler (lower_canonical_semantic_plan),
\* the key layout and the bucket resolution made of the WHERE clauses, each as it was put
\* last: the route index holds copies (put_current_document, delete_current_route_indexes).
ServedIsQuery ==
  plan.ok => \A req \in Requests : \A names \in Answers(req) :
    Served(names) = {[key |-> k, row |-> docs[k]] : k \in Selected(req)}

\* A checkpoint counts a bucket from its accumulators when the client has a cursor and
\* from its entries when it has none: both give the same number.
CountIsServed ==
  plan.ok => \A req \in Requests :
    \A queries \in {resolve_bucket_request(n) : n \in Elements(bucket_cursors(req).names)} :
      AccumulatedCount(queries) = Cardinality(current_entries_for_bucket(queries))

\* The buckets of an answered stream request resolve under the plan that named them, and
\* there are no more than the limit (resolve_stream_bucket_names): one that did not would
\* be looked up in the configured rules instead, or dropped (resolved_sync_buckets).
BucketsResolve ==
  plan.ok => \A req \in Requests : \A cursors \in {bucket_cursors(req)} :
    req.streams /\ cursors.ok =>
      Len(cursors.names) <= MaxBuckets /\ \A n \in Elements(cursors.names) : Resolves(n)

\* A source that compiles compares with the operators the evaluator has: a predicate with
\* another one is rejected (validate_row_filter_term), not left out of the query.
OperatorsSupported ==
  plan.ok =>
    \A s \in Elements(source.streams) : \A q \in Elements(s.queries) :
      \A c \in Elements(q.where) : \A leaf \in Elements(c) :
        leaf.op \in {"eq", "in", "null", "notnull"}

\* A request names a bucket once, so that its rows are put once in the initial stream:
\* resolve_stream_bucket_names lists one name per lookup row, group and default.
DistinctBuckets ==
  plan.ok => \A req \in Requests : \A names \in Answers(req) : IsInjective(names)
=============================================================================
