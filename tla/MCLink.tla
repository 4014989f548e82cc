------------------------------- MODULE MCLink -------------------------------
(***************************************************************************)
(* Timeouts of a few seconds in place of 100 and 60, a sleep after two     *)
(* runs of the monitor in place of 20, and two NO CARRIERs: a stop during  *)
(* a login, a stop on top of a stop, a heartbeat timeout after each of     *)
(* them, a sleep and a wake-up in the middle of each; sleeps and resets    *)
(* without number.                                                         *)
(***************************************************************************)
EXTENDS LowPower
=============================================================================
