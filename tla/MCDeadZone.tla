----------------------------- MODULE MCDeadZone -----------------------------
(***************************************************************************)
(* A ring of three blocks, two to a sector, and four records: the ring     *)
(* fills, wraps and pushes records out, and blocks are rewritten with      *)
(* records of the same dead zone beside them.                              *)
(***************************************************************************)
EXTENDS DeadZone

CONSTANT Bound

MCRecords == 1 .. Bound
=============================================================================
