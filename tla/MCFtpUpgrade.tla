----------------------------- MODULE MCFtpUpgrade -----------------------------
(* The upgrade with two files, one of a full page and one a chunk longer. *)
EXTENDS FtpUpgrade, TLC

CONSTANTS f1, f2

MCSize == (f1 :> 2) @@ (f2 :> 3)
=============================================================================
