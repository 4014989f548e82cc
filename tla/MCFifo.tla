------------------------------- MODULE MCFifo -------------------------------
(***************************************************************************)
(* A ring of three places and four records: every pair of index positions, *)
(* every filling, and records pushed out through several wraps.            *)
(***************************************************************************)
EXTENDS Fifo

CONSTANTS r1, r2, r3, r4

MCRecords == {r1, r2, r3, r4}
=============================================================================
