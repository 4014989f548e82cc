------------------------------- MODULE MCEeprom -------------------------------
(* The parameter storage with two objects in two pages, written by the       *)
(* worker and by the shell, whose task has the higher priority.              *)
EXTENDS Eeprom, TLC

CONSTANTS shell, worker

MCAbove == [w \in Writers |-> IF w = worker THEN Writers \ {worker} ELSE {}]

(* What is written is only compared. *)
MCSymmetry == Permutations(Values)
=============================================================================
