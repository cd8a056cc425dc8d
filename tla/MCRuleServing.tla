--------------------------- MODULE MCRuleServing ---------------------------
(***************************************************************************)
(* Rule documents, rows and requests for RuleServing.  All documents call   *)
(* their streams "s" and "d" (the default one), so that every request meets *)
(* every document.                                                          *)
(***************************************************************************)
EXTENDS RuleServing

None == [n \in {} |-> ""]

Eq(l, r) == <<Leaf("eq", l, r)>>
Star == <<[kind |-> "star", terms |-> <<>>, alias |-> "", named |-> FALSE]>>
As(column, alias) == [kind |-> "expr", terms |-> <<Col(column)>>, alias |-> alias, named |-> TRUE]

Query(table, with, where) ==
  [select |-> Star, schema |-> "public", table |-> table, with |-> with, where |-> where]
Stream(name, auto, queries) ==
  [name |-> name, auto_subscribe |-> auto, with |-> None, queries |-> queries]
Doc(with, streams) == [config |-> [edition |-> 3], root |-> None, with |-> with, streams |-> streams]
With(table, each, select, where) ==
  [raw |-> "q", schema |-> "", table |-> table, tables |-> IF table = "" THEN 0 ELSE 1,
   each |-> each, select |-> select, where |-> where]
Item(from, alias) == [source |-> from, alias |-> alias]

Open == Eq(Col("status"), Lit(Text("open")))
OpenOrUnset == Open \o <<Leaf("null", Col("status"), NoOperand)>>
Mine == Eq(Col("owner"), Bind("user", ""))
IsAdmin == Eq(Bind("jwt", "role"), Lit(Text("admin")))
OfSub(column) == Eq(Col(column), Bind("sub", "team"))
Membership(select, where) == With("Membership", <<>>, select, where)
TeamsOfUser ==
  Membership(<<Item(Col("team"), "team")>>,
             <<Eq(Col("user"), Bind("user", "")), Eq(Col("role"), Lit(Text("admin")))>>)
TeamsAsked ==
  With("", <<[alias |-> "t", param |-> "teams"]>>, <<Item(Bind("each", "t"), "team")>>, <<>>)
InBucket(column) == Eq(Col(column), Bind("bucket", column))

\* Own rows, and open rows by default.
OwnAndOpen ==
  Doc(None, <<Stream("s", FALSE, <<Query("Task", "", <<Mine>>)>>),
              Stream("d", TRUE, <<Query("Task", "", <<OpenOrUnset>>)>>)>>)
\* Teams through the membership table, with a row filter.
ByMembership ==
  Doc([bucket |-> TeamsOfUser],
      <<Stream("s", FALSE, <<Query("Task", "bucket", <<InBucket("team"), Open>>)>>)>>)
\* Teams named in a request array.
ByArray ==
  Doc([bucket |-> TeamsAsked], <<Stream("s", FALSE, <<Query("Task", "bucket", <<InBucket("team")>>)>>)>>)
\* Two tables in one group, the parameter constraining different columns.
TwoTables ==
  Doc(None, <<Stream("s", FALSE, <<Query("Task", "", <<OfSub("team")>>),
                                   Query("Note", "", <<OfSub("owner"), Open>>)>>)>>)
\* A composite key.
Composite == Doc(None, <<Stream("s", FALSE, <<Query("Task", "", <<OfSub("team"), Mine>>)>>)>>)
\* Groups that differ in their request filter only.
ByRole ==
  Doc(None, <<Stream("d", TRUE, <<Query("Task", "", <<IsAdmin>>),
                                  Query("Note", "", <<Open>>)>>),
              Stream("s", FALSE, <<Query("Note", "", <<OfSub("team"), IsAdmin>>)>>)>>)
\* Refused: an operator the evaluator does not have, another schema, a duplicate name,
\* two ids for a table, a lookup without a key, another edition.
RefusedDocs ==
  {Doc(None, <<Stream("s", FALSE, <<Query("Task", "", <<<<Leaf("gt", Col("status"), Lit(Text("a")))>>>>)>>)>>),
   Doc(None, <<Stream("s", FALSE, <<[Query("Task", "", <<>>) EXCEPT !.schema = "audit"]>>)>>),
   Doc(None, <<OwnAndOpen.streams[1], OwnAndOpen.streams[1]>>),
   Doc(None, <<Stream("s", FALSE, <<Query("Task", "", <<>>),
                [Query("Task", "", <<>>) EXCEPT !.select = <<As("owner", "id")>>]>>)>>),
   Doc([bucket |-> Membership(<<Item(Col("team"), "team")>>, <<>>)],
       <<Stream("s", FALSE, <<Query("Task", "bucket", <<InBucket("team")>>)>>)>>),
   [OwnAndOpen EXCEPT !.config = [edition |-> 2]]}

\* Documents whose compiled form differs from their SQL.
ComparisonWithValue ==
  Doc(None, <<Stream("s", FALSE, <<Query("Task", "",
    <<Mine, <<Leaf("gt", Col("team"), Bind("sub", "team"))>>>>)>>)>>)
InList ==
  Doc(None, <<Stream("s", FALSE, <<Query("Task", "",
    <<Mine, <<Leaf("in", Col("team"), Operand("list", "", [t |-> "a", v |-> "a','b", els |-> <<"a", "b">>]))>>>>)>>)>>)
ArrayColumn ==
  Doc([bucket |-> TeamsOfUser],
      <<Stream("s", FALSE, <<Query("Task", "bucket", <<<<Leaf("in", Bind("bucket", "team"), Col("team"))>>>>)>>)>>)
SelectedAndBound ==
  Doc([bucket |-> Membership(<<Item(Col("team"), "team")>>,
                    <<Eq(Col("user"), Bind("user", "")), Eq(Col("team"), Bind("sub", "team"))>>)],
      <<Stream("s", FALSE, <<Query("Task", "bucket", <<InBucket("team")>>)>>)>>)
TwoQueriesOfTable ==
  Doc(None, <<Stream("s", FALSE, <<Query("Task", "", <<OfSub("team")>>),
                                   Query("Task", "", <<OfSub("team"), Open>>)>>)>>)
AllMemberships ==
  Doc([bucket |-> Membership(<<Item(Col("team"), "team")>>, <<Eq(Col("user"), Bind("user", ""))>>)],
      <<Stream("s", FALSE, <<Query("Task", "bucket", <<InBucket("team")>>)>>)>>)

PlainSources == {OwnAndOpen, ByMembership, ByArray, TwoTables, Composite, ByRole} \cup RefusedDocs
ComparisonSources == {ComparisonWithValue}
InListSources == {InList}
ArraySources == {ArrayColumn}
BoundSources == {SelectedAndBound}
SameTableSources == {TwoQueriesOfTable}
MembershipSources == {AllMemberships}

MCTables == {"Task", "Note"}
TaskTable == {"Task"}
MCRows == {r \in [team : {Text("a"), Text("b")}, owner : {Text("u1"), Text("a")},
                  status : {Text("open"), NoValue}] : r.team = Text("b") => r.status # NoValue}
ArrayRows == {[team |-> [t |-> "a", v |-> "[a,c]", els |-> <<"a", "c">>], owner |-> Text("u1"),
               status |-> NoValue]}
Member(team, user, role) == [team |-> Text(team), user |-> Text(user), role |-> Text(role)]
MCMembers == 1 :> Member("a", "u1", "admin") @@ 2 :> Member("b", "u1", "admin")
             @@ 3 :> Member("a", "u2", "member") @@ 4 :> Member("a", "u1", "member")

Sub(stream, parameters) == [stream |-> stream, parameters |-> parameters]
Request(user, claims, parameters, subscriptions) ==
  [user |-> user, claims |-> claims, parameters |-> parameters, subscriptions |-> subscriptions,
   streams |-> TRUE, include_defaults |-> TRUE, only |-> {}, buckets |-> {}, bad_cursor |-> FALSE]
Admin == [role |-> "admin"]
Asked == [teams |-> [t |-> "a", v |-> "[a,b]", els |-> <<"a", "b">>]]
TeamA == [team |-> "a"]

StreamRequests ==
  {Request("u1", None, None, <<Sub("s", TeamA)>>),
   Request("u2", Admin, None, <<Sub("s", TeamA)>>),
   [Request("u1", None, Asked, <<Sub("s", None)>>) EXCEPT !.include_defaults = FALSE],
   Request("a", Admin, Asked, <<Sub("s", TeamA), Sub("s", [team |-> "b"])>>),
   Request("u1", Admin, None, <<>>),
   Request("", None, None, <<Sub("d", None)>>)}
MCRequests ==
  StreamRequests \cup
  {[Request("u1", None, None, <<>>) EXCEPT !.streams = FALSE],
   [Request("", None, None, <<>>) EXCEPT !.streams = FALSE, !.only = {BucketName("s", 1, <<"a">>)}],
   [Request("u1", None, None, <<>>) EXCEPT !.streams = FALSE, !.buckets = {BucketName("s", 1, <<"a">>)}],
   [Request("u1", None, Asked, <<Sub("s", TeamA)>>) EXCEPT !.only = {BucketName("s", 1, <<"a">>)}],
   [Request("u1", None, None, <<Sub("s", TeamA)>>) EXCEPT !.bad_cursor = TRUE]}
=============================================================================
