---------------------------- MODULE MCLookupState ----------------------------
(* Instances of LookupState for TLC.                                        *)
EXTENDS LookupState, TLC

\* SELECT id FROM members WHERE owner = <binding> AND team IS NULL
ByOwner ==
  [keys |-> <<"owner">>, selected |-> {"id"},
   terms |-> {[op |-> "is_null", column |-> "team", negated |-> FALSE]}]

\* SELECT team FROM members WHERE owner = <binding> AND team = <binding>
\*   AND owner = 'u'
ByOwnerAndTeam ==
  [keys |-> <<"owner", "team">>, selected |-> {"team"},
   terms |-> {[op |-> "eq", column |-> "owner", value |-> "u"]}]

\* SELECT owner FROM members WHERE id = <binding> AND team IS NOT NULL
ById ==
  [keys |-> <<"id">>, selected |-> {"owner"},
   terms |-> {[op |-> "is_null", column |-> "team", negated |-> TRUE]}]

MCLookups == {ByOwner, ByOwnerAndTeam, ById}

Cols(owner, team) == "owner" :> owner @@ "team" :> team

\* An empty table, one out-of-line value, and two rows under one lookup key.
MCTables ==
  {[i \in {} |-> Null],
   "i1" :> Cols("big", Null),
   "i1" :> Cols("u", Null) @@ "i2" :> Cols("u", "big")}
==============================================================================
