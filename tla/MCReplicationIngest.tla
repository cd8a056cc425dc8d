------------------------- MODULE MCReplicationIngest -------------------------
(***************************************************************************)
(* Small instances of ReplicationIngest for TLC.                           *)
(***************************************************************************)
EXTENDS ReplicationIngest

CONSTANTS pg1, pg2, rulesA, rulesB

\* Every combination of source, contract and snapshot switch.
AnyConfig == [source : Sources, contract : Contracts, snapshot : BOOLEAN]

\* A fixed source whose rules change between boots.
RulesChange == [source : {pg1}, contract : {rulesA, rulesB}, snapshot : {TRUE}]

\* One configuration.
OneConfig == [source : {pg1}, contract : {rulesA}, snapshot : {TRUE}]
==============================================================================
