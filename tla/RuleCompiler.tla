---------------------------- MODULE RuleCompiler ----------------------------
(***************************************************************************)
(* The sync-rule compiler (sync_rules/yaml.rs, query.rs, lowering.rs): from *)
(* a rule source to the canonical plan and from it to the execution plan.   *)
(*                                                                         *)
(* A source is a syntax tree, not text: a WHERE clause is a sequence of    *)
(* conjuncts, a conjunct a non-empty sequence of alternatives (OR), and an *)
(* alternative compares two operands.  What the code decides by looking at *)
(* the text (does it contain '=', does it mention a request value, does it *)
(* begin with a quote) is decided here on the kinds of the operands.       *)
(***************************************************************************)
EXTENDS Naturals, Sequences, FiniteSets, SequencesExt

\* Values are JSON scalars and arrays of texts: t is "s", "n", "b", "z" (null) or
\* "a", v the text form, els the elements of an array.
Scalar(t, v) == [t |-> t, v |-> v, els |-> <<>>]
Text(v) == Scalar("s", v)
NoValue == Scalar("z", "")

\* Operands: "col" a column of the row, "lit" a literal, "list" a parenthesised
\* list of string literals, "float" a numeral that is no integer, and bindings.
\* "bucket" is a column of the with-query joined under the alias `bucket`, "each"
\* the value of a json_each item; "pq" is what the compiler turns "bucket" into.
Operand(kind, name, val) == [kind |-> kind, name |-> name, val |-> val, lookup |-> ""]
Col(name) == Operand("col", name, NoValue)
Lit(val) == Operand("lit", "", val)
Bind(kind, name) == Operand(kind, name, NoValue)
NoOperand == Operand("none", "", NoValue)

RequestKinds == {"auth", "user", "req", "sub", "jwt", "array"}
BindingKinds == RequestKinds \cup {"pq", "bucket"}

Leaf(op, l, r) == [op |-> op, l |-> l, r |-> r]
\* "ge" stands for the comparisons spelt with '=' (>=, <=, !=), "gt" for the others.
ContainsEquals(leaf) == leaf.op \in {"eq", "ge"}

Map(Op(_), s) == [i \in 1..Len(s) |-> Op(s[i])]
Elements(s) == {s[i] : i \in 1..Len(s)}

------------------------------------------------------------------------------
\* query.rs: the text scanners.

parse_binding(o) == o.kind \in BindingKinds

\* The text between the outer quotes of a list, inner quotes and commas included,
\* passes for one string literal: val holds that text.
sql_literal_to_json(o) == o.kind \in {"lit", "list"}
LiteralOf(o) == IF o.kind = "list" THEN Lit(Text(o.val.v)) ELSE o

contains_binding_reference(c) ==
  \E i \in 1..Len(c) : c[i].l.kind \in RequestKinds \/ c[i].r.kind \in RequestKinds

request_predicate_term_supported(leaf) ==
  \/ leaf.op \in {"null", "notnull"} /\ parse_binding(leaf.l)
  \/ /\ leaf.op = "eq"
     /\ \/ parse_binding(leaf.l) /\ sql_literal_to_json(leaf.r)
        \/ parse_binding(leaf.r) /\ sql_literal_to_json(leaf.l)

is_request_filter_predicate(c) ==
  /\ contains_binding_reference(c)
  /\ \A i \in 1..Len(c) : request_predicate_term_supported(c[i])

is_row_filter_predicate(c) ==
  /\ ~contains_binding_reference(c)
  /\ \A i \in 1..Len(c) : "bucket" \notin {c[i].l.kind, c[i].r.kind}

is_plain_column_reference(o) == o.kind = "col"

validate_row_filter_operand(o) == sql_literal_to_json(o) \/ is_plain_column_reference(o)

validate_row_filter_term(leaf) ==
  \/ leaf.op \in {"null", "notnull"}
  \/ /\ leaf.op \in {"eq", "in"}
     /\ validate_row_filter_operand(leaf.l)
     /\ validate_row_filter_operand(leaf.r)

validate_row_filter_predicate(c) == \A i \in 1..Len(c) : validate_row_filter_term(c[i])

\* Binding, then literal, then column.
classify_operand(o) ==
  IF parse_binding(o) THEN o ELSE IF sql_literal_to_json(o) THEN LiteralOf(o) ELSE o

parse_leaf(leaf) == Leaf(leaf.op, classify_operand(leaf.l), classify_operand(leaf.r))
parse_disjunct(c) == Map(parse_leaf, c)

binding_name(b) == IF b.kind = "user" THEN "user_id" ELSE b.name

\* The binding and the column of a bucket parameter: for = the right side is tried
\* first, for IN the left side.
RightIsBinding(leaf) ==
  IF leaf.op = "eq" THEN parse_binding(leaf.r) ELSE ~parse_binding(leaf.l)
BindingSide(leaf) == IF RightIsBinding(leaf) THEN leaf.r ELSE leaf.l
ColumnSide(leaf) == IF RightIsBinding(leaf) THEN leaf.l ELSE leaf.r

is_bucket_parameter(c) ==
  /\ Len(c) = 1
  /\ c[1].op \in {"eq", "in"}
  /\ parse_binding(c[1].l) \/ parse_binding(c[1].r)

parse_bucket_parameter(c) ==
  [name |-> binding_name(BindingSide(c[1])), source_column |-> ColumnSide(c[1]).name,
   binding |-> BindingSide(c[1])]

\* combine_conjuncts: a filter is the sequence of its conjuncts, <<>> when absent.
parse_where_clause(where) ==
  LET request == SelectSeq(where, is_request_filter_predicate)
      others == SelectSeq(where, LAMBDA c : ~is_request_filter_predicate(c))
      params == SelectSeq(others, is_bucket_parameter)
      rows == SelectSeq(others, LAMBDA c : ~is_bucket_parameter(c))
  IN  [ok |-> \A c \in Elements(rows) :
                 is_row_filter_predicate(c) /\ validate_row_filter_predicate(c),
       bucket_parameters |-> Map(parse_bucket_parameter, params),
       row_filter |-> Map(parse_disjunct, rows),
       request_filter |-> Map(parse_disjunct, request)]

\* Projection items: star, or an expression (terms over columns and literals) under
\* an alias; named says whether AS is written.
IsStar(item) == item.kind = "star"
parse_projection(items) ==
  IF \E i \in 1..Len(items) : IsStar(items[i])
  THEN LET computed == SelectSeq(items, LAMBDA item : ~IsStar(item))
       IN  [ok |-> \A item \in Elements(computed) : item.named,
            kind |-> IF computed = <<>> THEN "star" ELSE "computed", items |-> computed]
  ELSE [ok |-> items # <<>>, kind |-> "columns", items |-> items]

parse_source_table(q) == q.schema \in {"", "public"}

parse_stream_query(q) ==
  LET parsed(where, projection) ==
        [ok |-> parse_source_table(q) /\ where.ok /\ projection.ok,
         source_table |-> q.table,
         bucket_parameters |-> where.bucket_parameters,
         row_filter |-> where.row_filter,
         request_filter |-> where.request_filter,
         projection |-> [kind |-> projection.kind, items |-> projection.items]]
  IN  parsed(parse_where_clause(q.where), parse_projection(q.select))

------------------------------------------------------------------------------
\* lowering.rs: with-queries.

\* One table, or the item that json_each(request parameter) expands.
json_each_request_bindings(w) ==
  [a \in {w.each[i].alias : i \in 1..Len(w.each)} |->
     Bind("array", (CHOOSE e \in Elements(w.each) : e.alias = a).param)]

projection_json_each_binding(w, item) ==
  IF item.source.kind = "each" /\ item.source.name \in DOMAIN json_each_request_bindings(w)
  THEN json_each_request_bindings(w)[item.source.name] ELSE NoOperand

\* The equalities of the WHERE clause that name one of the selected aliases.
AliasBindings(w, alias) ==
  LET bound(c) ==
        /\ Len(c) = 1 /\ c[1].op = "eq"
        /\ \/ parse_binding(c[1].r) /\ c[1].l.name = alias
           \/ ~parse_binding(c[1].r) /\ parse_binding(c[1].l) /\ c[1].r.name = alias
      side(c) == IF parse_binding(c[1].r) THEN c[1].r ELSE c[1].l
  IN  Map(side, SelectSeq(w.where, bound))

\* A selected column is bound to its json_each item, or to the request value an
\* equality gives it (the last one); the others go through the lookup.
parse_parameter_query(w) ==
  [columns |->
     [a \in {w.select[i].alias : i \in 1..Len(w.select)} |->
        LET item == CHOOSE x \in Elements(w.select) : x.alias = a
            equal == AliasBindings(w, a)
        IN  IF equal # <<>> THEN equal[Len(equal)]
            ELSE projection_json_each_binding(w, item)],
   request_filter |-> SelectSeq(w.where, is_request_filter_predicate)]

is_lookup_key_binding(b) == b.kind \in {"auth", "sub", "user", "req"}
is_lookup_request_binding(b) == b.kind \in {"auth", "sub", "user", "jwt", "req"}

\* What one conjunct of a lookup is: "row", "request", "key", or "bad".
LookupTerm(c) ==
  LET leaf == c[1]
      bound == {s \in {leaf.l, leaf.r} : parse_binding(s)}
      other == IF parse_binding(leaf.l) THEN leaf.r ELSE leaf.l
  IN  CASE Len(c) # 1 \/ leaf.op \in {"in", "gt", "ge"} -> "bad"
        [] leaf.op \in {"null", "notnull"} ->
             IF is_plain_column_reference(leaf.l) THEN "row" ELSE "bad"
        [] parse_binding(leaf.l) /\ parse_binding(leaf.r) -> "bad"
        [] bound # {} /\ sql_literal_to_json(other) ->
             IF \A b \in bound : is_lookup_request_binding(b) THEN "request" ELSE "bad"
        [] bound # {} ->
             IF is_plain_column_reference(other) /\ (\A b \in bound : is_lookup_key_binding(b))
             THEN "key" ELSE "bad"
        [] OTHER ->
             IF {leaf.l.kind, leaf.r.kind} = {"col", "lit"}
                /\ (\A s \in {leaf.l, leaf.r} : s.kind = "lit" => s.val.t = "s")
             THEN "row" ELSE "bad"

KeyColumn(c) == IF parse_binding(c[1].l) THEN c[1].r.name ELSE c[1].l.name
KeyBinding(c) == IF parse_binding(c[1].l) THEN c[1].l ELSE c[1].r

parse_parameter_lookup_plan(w) ==
  LET keys == SelectSeq(w.where, LAMBDA c : LookupTerm(c) = "key")
      columns == {KeyColumn(c) : c \in Elements(keys)}
  IN  [ok |-> /\ w.tables = 1 /\ w.each = <<>> /\ w.schema \in {"", "public"}
              /\ w.select # <<>>
              /\ \A i \in 1..Len(w.select) : is_plain_column_reference(w.select[i].source)
              /\ \A c \in Elements(w.where) : LookupTerm(c) # "bad"
              /\ keys # <<>>
              /\ Cardinality(columns) = Len(keys),
       id |-> w.raw,
       source_table |-> w.table,
       selected |-> [a \in {w.select[i].alias : i \in 1..Len(w.select)} |->
                       (CHOOSE x \in Elements(w.select) : x.alias = a).source.name],
       key_bindings |-> [k \in columns |->
                           KeyBinding(CHOOSE c \in Elements(keys) : KeyColumn(c) = k)],
       row_predicate |-> Map(parse_disjunct, SelectSeq(w.where, LAMBDA c : LookupTerm(c) = "row")),
       request |-> Map(parse_disjunct, SelectSeq(w.where, LAMBDA c : LookupTerm(c) = "request"))]

parameter_query_binding(w, column) ==
  LET columns == parse_parameter_query(w).columns
  IN  IF column \in DOMAIN columns /\ columns[column] # NoOperand THEN columns[column]
      ELSE [Bind("pq", column) EXCEPT !.lookup = w.raw]

NeedsLookup(w, column) == parameter_query_binding(w, column).kind = "pq"

------------------------------------------------------------------------------
\* lowering.rs: the data queries are rewritten against the with-query they join.

Direct(leaf) == ContainsEquals(leaf) /\ parse_binding(leaf.r)

\* split_once('='): the text right of the first '=' is the binding.
parse_direct_parameter_predicate(c) ==
  /\ Direct(c[Len(c)])
  /\ \A i \in 1..Len(c) - 1 : ~ContainsEquals(c[i])

binding_or_has_direct_parameter(c) ==
  contains_binding_reference(c) /\ \E i \in 1..Len(c) : Direct(c[i])

\* The conjuncts that are kept; any other conjunct is left out of the query.
Kept(c) ==
  \/ parse_direct_parameter_predicate(c)
  \/ is_row_filter_predicate(c)
  \/ is_request_filter_predicate(c)
  \/ binding_or_has_direct_parameter(c)

IsJoin(c) ==
  /\ Len(c) = 1
  /\ c[1].op \in {"eq", "in", "ge"}
  /\ (c[1].l.kind = "bucket") # (c[1].r.kind = "bucket")

\* format_bucket_predicate: only `bucket.x IN column` stays an IN.
rewrite_bucket_join_predicate(c, w) ==
  LET left == c[1].l.kind = "bucket"
      column == IF left THEN c[1].r ELSE c[1].l
      binding == parameter_query_binding(w, (IF left THEN c[1].l ELSE c[1].r).name)
  IN  IF c[1].op = "in" /\ left THEN <<Leaf("in", binding, column)>>
      ELSE <<Leaf(IF c[1].op = "ge" THEN "ge" ELSE "eq", column, binding)>>

JoinedColumn(c) == (IF c[1].l.kind = "bucket" THEN c[1].l ELSE c[1].r).name

\* with: the with-queries in scope, by name.
normalize_data_query_with_parameters(q, with) ==
  LET joins == q.with \in DOMAIN with
      kept == SelectSeq(q.where, LAMBDA c : (joins /\ IsJoin(c)) \/ Kept(c))
      rewritten(c) ==
        IF joins /\ IsJoin(c) THEN rewrite_bucket_join_predicate(c, with[q.with]) ELSE c
  IN  IF q.where = <<>> THEN [ok |-> TRUE, query |-> q]
      ELSE [ok |-> joins =>
                     \A c \in Elements(q.where) :
                        IsJoin(c) /\ NeedsLookup(with[q.with], JoinedColumn(c))
                          => parse_parameter_lookup_plan(with[q.with]).ok,
            query |-> [q EXCEPT !.where =
                         (IF joins THEN parse_parameter_query(with[q.with]).request_filter
                          ELSE <<>>) \o Map(rewritten, kept)]]

------------------------------------------------------------------------------
\* yaml.rs and lowering.rs: from the document to the canonical plan.

SUPPORTED == [edition |-> 3, compatibility_version |-> 1, storage_version |-> 1]

\* config.<key>, else <key> at the root, else the default.
read_config_version(doc, key) ==
  IF key \in DOMAIN doc.config THEN doc.config[key]
  ELSE IF key \in DOMAIN doc.root THEN doc.root[key] ELSE SUPPORTED[key]

\* Per-stream with-queries override the global ones of the same name.
InScope(global, own) ==
  [n \in DOMAIN global \cup DOMAIN own |-> IF n \in DOMAIN own THEN own[n] ELSE global[n]]

\* merged: the first of each (name, binding), its column replaced by its name.
merged_bucket_parameters(params) ==
  LET first == SelectSeq([i \in 1..Len(params) |-> i],
                 LAMBDA i : \A j \in 1..i - 1 :
                    <<params[j].name, params[j].binding>> # <<params[i].name, params[i].binding>>)
  IN  [k \in 1..Len(first) |->
         [params[first[k]] EXCEPT !.source_column = params[first[k]].name]]

DataQuery(p) ==
  [table |-> p.source_table, bucket_parameters |-> p.bucket_parameters,
   row_filter |-> p.row_filter, request_filter |-> p.request_filter,
   projection |-> p.projection]

\* data_queries(): a lone query with no filter whose columns have the names of their
\* parameters is not kept apart, and is rebuilt from the stream.
Foldable(queries) ==
  /\ Len(queries) = 1
  /\ queries[1].row_filter = <<>> /\ queries[1].request_filter = <<>>
  /\ \A p \in Elements(queries[1].bucket_parameters) : p.source_column = p.name

compile_stream_definition(stream, parsed) ==
  LET queries == Map(DataQuery, parsed)
  IN  [name |-> stream.name, auto_subscribe |-> stream.auto_subscribe,
       data_queries |->
         IF Foldable(queries)
         THEN <<[queries[1] EXCEPT !.bucket_parameters = merged_bucket_parameters(@)]>>
         ELSE queries]

ParseNormalized(n) == [ok |-> n.ok, parsed |-> parse_stream_query(n.query)]

CompileStream(doc, stream) ==
  LET with == InScope(doc.with, stream.with)
      compiled(queries) ==
        [ok |-> stream.queries # <<>> /\ \A q \in Elements(queries) : q.ok /\ q.parsed.ok,
         stream |-> compile_stream_definition(stream, Map(LAMBDA q : q.parsed, queries))]
  IN  compiled(Map(LAMBDA q : ParseNormalized(normalize_data_query_with_parameters(q, with)),
                   stream.queries))

compile_sync_rules_source(doc) ==
  LET plan(compiled) ==
        [ok |-> doc.streams # <<>> /\ \A c \in Elements(compiled) : c.ok,
         versions |-> [k \in DOMAIN SUPPORTED |-> read_config_version(doc, k)],
         streams |-> Map(LAMBDA c : c.stream, compiled),
         with |-> UNION {{InScope(doc.with, s.with)[n] : n \in DOMAIN InScope(doc.with, s.with)} :
                           s \in Elements(doc.streams)}]
  IN  plan(Map(LAMBDA s : CompileStream(doc, s), doc.streams))

------------------------------------------------------------------------------
\* lowering.rs and eval.rs: the execution plan.

\* Mutant: the request filter does not separate groups.
groups_by_parameters(queries) ==
  LET key(q) == merged_bucket_parameters(q.bucket_parameters)
      first == SelectSeq([i \in 1..Len(queries) |-> i],
                 LAMBDA i : \A j \in 1..i - 1 : key(queries[j]) # key(queries[i]))
  IN  [k \in 1..Len(first) |->
         [bucket_parameters |-> key(queries[first[k]]),
          request_filter |-> queries[first[k]].request_filter,
          queries |-> SelectSeq(queries, LAMBDA q : key(q) = key(queries[first[k]]))]]

\* Queries with the same parameters and the same request filter share a bucket.
stream_bucket_groups(queries) ==
  LET key(q) == <<merged_bucket_parameters(q.bucket_parameters), q.request_filter>>
      first == SelectSeq([i \in 1..Len(queries) |-> i],
                 LAMBDA i : \A j \in 1..i - 1 : key(queries[j]) # key(queries[i]))
  IN  [k \in 1..Len(first) |->
         [bucket_parameters |-> merged_bucket_parameters(queries[first[k]].bucket_parameters),
          request_filter |-> queries[first[k]].request_filter,
          queries |-> SelectSeq(queries, LAMBDA q : key(q) = key(queries[first[k]]))]]

LookupsOf(canonical) == {parse_parameter_lookup_plan(w) : w \in canonical.with}

\* Every request predicate of a lookup is a conjunct of the group's filter.
validate_parameter_lookup_request_filters(canonical, stream) ==
  \A g \in Elements(stream_bucket_groups(stream.data_queries)) :
    \A p \in Elements(g.bucket_parameters) :
      p.binding.kind = "pq" =>
        \A l \in LookupsOf(canonical) :
          l.id = p.binding.lookup => Elements(l.request) \subseteq Elements(g.request_filter)

\* The alias `id` given to an expression, or to a column of another name.
object_id_expression_from_projection(projection) ==
  LET ids == {item \in Elements(projection.items) :
                item.alias = "id" /\ (projection.kind = "columns" => item.terms # <<Col("id")>>)}
  IN  IF projection.kind = "star" \/ ids = {} THEN <<>>
      ELSE (CHOOSE item \in ids : TRUE).terms

AllQueries(canonical) == FlattenSeq(Map(LAMBDA s : s.data_queries, canonical.streams))
RouteColumns(q) == {p.source_column : p \in Elements(q.bucket_parameters)}

lower_canonical_semantic_plan(canonical) ==
  LET queries == AllQueries(canonical)
      tables == {q.table : q \in Elements(queries)}
      of(t) == {q \in Elements(queries) : q.table = t}
      names == {s.name : s \in Elements(canonical.streams)}
      named(n) == CHOOSE s \in Elements(canonical.streams) : s.name = n
      used == {p.binding.lookup : p \in UNION {Elements(q.bucket_parameters) : q \in Elements(queries)}}
  IN  [ok |-> /\ canonical.ok
              /\ canonical.versions = SUPPORTED
              /\ Cardinality(names) = Len(canonical.streams)
              /\ \A s \in Elements(canonical.streams) :
                    validate_parameter_lookup_request_filters(canonical, s)
              /\ \A t \in tables : \A q, r \in of(t) :
                    object_id_expression_from_projection(q.projection)
                      = object_id_expression_from_projection(r.projection),
       streams |-> names,
       groups |-> [n \in names |-> stream_bucket_groups(named(n).data_queries)],
       default_stream_names |->
         Map(LAMBDA s : s.name, SelectSeq(canonical.streams, LAMBDA s : s.auto_subscribe)),
       auto_subscribe |-> {n \in names : named(n).auto_subscribe},
       route_columns |-> [t \in tables |-> UNION {RouteColumns(q) : q \in of(t)}],
       route_indexes |-> [t \in tables |-> {RouteColumns(q) : q \in of(t)} \ {{}}],
       accumulator_queries |-> queries,
       lookups |-> {l \in LookupsOf(canonical) : l.id \in used}]

Plan(doc) == lower_canonical_semantic_plan(compile_sync_rules_source(doc))
=============================================================================
