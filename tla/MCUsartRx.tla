------------------------------ MODULE MCUsartRx ------------------------------
(* The receive path of a USART with two-byte halves. *)
EXTENDS UsartRx
=============================================================================
