----------------------------- MODULE MCTailWatch -----------------------------
(***************************************************************************)
(* Small instances of TailWatch for TLC.                                   *)
(***************************************************************************)
EXTENDS TailWatch

CONSTANTS c1, c2
==============================================================================
