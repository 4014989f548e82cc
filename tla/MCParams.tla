------------------------------- MODULE MCParams -------------------------------
(* The parameters with two values to set. *)
EXTENDS Params
=============================================================================
