---------------------------- MODULE MCSyncRules ----------------------------
\* Instances of SyncRules for TLC: "a1" and "a2" compile to the same
\* storage contract, "b" to another one, "x" does not compile.
EXTENDS SyncRules

MCContract(content) == IF content \in {"a1", "a2"} THEN "A" ELSE "B"
=============================================================================
