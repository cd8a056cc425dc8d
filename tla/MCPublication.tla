--------------------------- MODULE MCPublication ---------------------------
(***************************************************************************)
(* Model values for Publication: one plain table, one partitioned table    *)
(* with one partition, and publications that deviate from a complete one   *)
(* in one respect each.                                                    *)
(***************************************************************************)
EXTENDS Publication, TLC

Partition == "leaf" :> "parent"
Plain == {{"tasks"}}
EveryRequired == {{"tasks"}, {"leaf"}, {"parent"}, {"tasks", "leaf"}}

Full == [AllTables EXCEPT !.all = FALSE, !.members = {"tasks", "leaf"}]

Without(op) == [Full EXCEPT !.ops = OPS \ {op}]

EveryPublication ==
  {AllTables, Full, [Full EXCEPT !.exists = FALSE],
   [Full EXCEPT !.members = {"tasks"}], [Full EXCEPT !.members = {"leaf"}],
   [Full EXCEPT !.members = {"tasks", "parent"}],
   [Full EXCEPT !.members = {"tasks", "parent"}, !.viaroot = TRUE],
   [AllTables EXCEPT !.viaroot = TRUE],
   [Full EXCEPT !.omitting = {"tasks"}],
   [AllTables EXCEPT !.omitting = {"leaf"}],
   [Full EXCEPT !.filtered = {"tasks"}]}
  \cup {Without(op) : op \in OPS}

FewPublications == {Full, [Full EXCEPT !.members = {"leaf"}]}
=============================================================================
