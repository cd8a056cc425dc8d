-------------------------- MODULE MCStreamAdmission --------------------------
(* The instance of StreamAdmission for TLC: two connections compete for one *)
(* permit, so that one of them can queue behind the other, which comes back. *)
(* Clients are told apart by the temporal properties, so no symmetry is used. *)
EXTENDS StreamAdmission
==============================================================================
