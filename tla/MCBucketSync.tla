----------------------------- MODULE MCBucketSync -----------------------------
(***************************************************************************)
(* Small instances of BucketSync for TLC.  The two routes are              *)
(* interchangeable: no definition singles one out.                         *)
(***************************************************************************)
EXTENDS BucketSync, TLC

CONSTANTS p1, p2

RouteSymmetry == Permutations(Routes)
==============================================================================
