-------------------------- MODULE MCBatchDecoder ---------------------------
(***************************************************************************)
(* Two relation ids, two type layouts, two transactions of up to two        *)
(* changes, one disconnection.                                              *)
(***************************************************************************)
EXTENDS BatchDecoder, TLC

CONSTANTS t1, t2

MCTypes == {t1, t2}
=============================================================================
