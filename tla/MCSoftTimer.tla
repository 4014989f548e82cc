---------------------------- MODULE MCSoftTimer -----------------------------
(***************************************************************************)
(* The timer table with the program's own timers: tzWorker_DoTasks of      *)
(* 10 ms; below it those of 100 ms, the monitor and the one-shot sleepTmr; *)
(* and two of 100 ms that the 10 ms task subscribes or cancels, the        *)
(* one-shot RealData_Handler and lwip_tmr (wip_NetMonitor, closed by       *)
(* Modem_Stop).  The 10 ms task preempts the other anywhere.  They are     *)
(* more than the table has room for.                                       *)
(***************************************************************************)
EXTENDS SoftTimer

MCBoot     == <<"monitor", "gprsProc">>
MCUsers    == {"gprsProc", "netMonitor", "restart", "monitor", "sleep"}
MCTypeOf   == [h \in MCUsers |-> IF h = "gprsProc" THEN "10MS" ELSE "100MS"]
MCOwner    == [h \in MCUsers |-> IF h \in {"restart", "netMonitor"} THEN "10MS" ELSE MCTypeOf[h]]
MCCyclic   == [h \in MCUsers |-> h \notin {"restart", "sleep"}]
MCValue    == [h \in MCUsers |-> IF h = "netMonitor" THEN 3 ELSE 1]
MCPriority == [t \in {"10MS", "100MS"} |-> IF t = "10MS" THEN 5 ELSE 10]
=============================================================================
