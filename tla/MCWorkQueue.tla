---------------------------- MODULE MCWorkQueue -----------------------------
(***************************************************************************)
(* The work queue with the program's own works and priorities.             *)
(***************************************************************************)
EXTENDS WorkQueue

MCStarters == {"USART_RX", "TMR_100MS"}
MCWorks    == {"usart", "mdm", "net"}
MCStarts   == [t \in MCStarters |-> IF t = "USART_RX" THEN {"usart"} ELSE {"mdm", "net"}]
MCPriority == [t \in MCStarters |-> IF t = "USART_RX" THEN 6 ELSE 10]
=============================================================================
