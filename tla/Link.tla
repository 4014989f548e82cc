-------------------------------- MODULE Link --------------------------------
(***************************************************************************)
(* The supervision of the connection: xmit_manager.c opens and closes the  *)
(* client, tzWorker_DoTasks counts the seconds without a PPP link and      *)
(* without a heartbeat answer (gb_gprs_protocol.c), NO CARRIER from the    *)
(* module is seen by GL868_ReadData (GSM_xx.c), and each of them ends in   *)
(* Modem_Stop and a one-shot timer for Modem_Restart (low_power_proc.c),   *)
(* or in a reset.                                                          *)
(*                                                                         *)
(* Three tasks: tzWorker_DoTasks in the 10 ms timer task, the one-shot     *)
(* timers in the 100 ms task, and below them the WORKER task, which feeds  *)
(* what the module sends to PPP, TCP, the protocol decoder and the PPP     *)
(* callback.  The two timer tasks may come between any two steps of the    *)
(* worker (wpc), and the 10 ms task into Modem_Restart (restarting).  PPP, *)
(* TCP and the server are external: what they may do is left open.  The    *)
(* commands of the shell on the debug port are left out.  LowPower puts    *)
(* the sleep around this module, and states the fairness of the two.       *)
(***************************************************************************)
EXTENDS Naturals

CONSTANTS SYS_LOGIN_MAX_TIMEOUT,      \* seconds without PPP: 100
          SYS_HEARTDATA_MAX_TIMEOUT,  \* seconds without an answer: 60
          MaxDrops                    \* bound: NO CARRIER seen

ASSUME LinkAssumption ==
  /\ SYS_LOGIN_MAX_TIMEOUT \in Nat \ {0}
  /\ SYS_HEARTDATA_MAX_TIMEOUT \in Nat \ {0}
  /\ MaxDrops \in Nat

VARIABLES
  sys_status,        \* "ONLINE": from LOGIN_ACK up to LOGOUT
  IsDeadZone,        \* IsDeadZone_Network = PROC_SYSTEM_REISSUEDATA_STORAGE
  serversocket,      \* the client is open
  modemOn,           \* GSM_POWER_ON
  sio_ok,            \* SIO_IsOK(): the last word of PPP was PPPERR_NONE
  sysLoginCount,
  sysHeartbeat,
  RealData_Handler,  \* it is not NULL
  restarts,          \* one-shot timers for Modem_Restart
  restarting,        \* the 100 ms task is inside Modem_Restart
  loginSent,         \* login() went out and is not answered
  wpc,               \* where the worker stands
  drops,             \* for the bound
  crossed            \* not in the code: a heartbeat timeout has stopped the
                     \* modem, still off, in front of a worker about to log in

vars == <<sys_status, IsDeadZone, serversocket, modemOn, sio_ok, sysLoginCount, sysHeartbeat,
          RealData_Handler, restarts, restarting, loginSent, wpc, drops, crossed>>

BelowSleep == sys_status \in {"INIT", "LOGIN", "ONLINE"}

(* Power-up: the module is started (AppTaskCreate). *)
Init ==
  /\ sys_status = "INIT" /\ IsDeadZone = FALSE /\ serversocket = FALSE
  /\ modemOn = TRUE /\ sio_ok = FALSE
  /\ sysLoginCount = 0 /\ sysHeartbeat = 0 /\ RealData_Handler = FALSE
  /\ restarts = 0 /\ restarting = FALSE /\ loginSent = FALSE /\ wpc = "idle"
  /\ drops = 0 /\ crossed = FALSE

System_Reset ==
  /\ sys_status' = "INIT" /\ IsDeadZone' = FALSE /\ serversocket' = FALSE
  /\ modemOn' = TRUE /\ sio_ok' = FALSE
  /\ sysLoginCount' = 0 /\ sysHeartbeat' = 0 /\ RealData_Handler' = FALSE
  /\ restarts' = 0 /\ restarting' = FALSE /\ loginSent' = FALSE /\ wpc' = "idle"
  /\ crossed' = FALSE
  /\ UNCHANGED drops

(* Modem_Stop without XMIT_Stop: a bug. *)
Modem_StopLeavesSocket ==
  /\ sys_status' = "STORAGE" /\ IsDeadZone' = TRUE
  /\ modemOn' = FALSE /\ sio_ok' = FALSE
  /\ UNCHANGED <<serversocket, loginSent>>

(***************************************************************************)
(* Modem_Stop(PROC_SYSTEM_REISSUEDATA_STORAGE) in the 10 ms task, which no *)
(* other task cuts: XMIT_Stop closes the client, pppClose ends PPP with    *)
(* PPPERR_USER.                                                            *)
(***************************************************************************)
Modem_Stop ==
  /\ sys_status' = "STORAGE" /\ IsDeadZone' = TRUE
  /\ modemOn' = FALSE /\ sio_ok' = FALSE
  /\ serversocket' = FALSE /\ loginSent' = FALSE
-----------------------------------------------------------------------------
(* tzWorker_DoTasks, every second in the 10 ms task.                       *)

(* sysLoginCount after this run; at the maximum the terminal is reset. *)
LoginSecondsOnline ==
  IF sys_status # "ONLINE" THEN sysLoginCount
  ELSE IF sio_ok THEN 0 ELSE sysLoginCount + 1

LoginSeconds ==
  IF ~BelowSleep THEN sysLoginCount
  ELSE IF sio_ok THEN 0 ELSE sysLoginCount + 1

HeartSeconds == IF sys_status = "ONLINE" THEN sysHeartbeat + 1 ELSE sysHeartbeat

DoTasksResets ==
  /\ LoginSeconds >= SYS_LOGIN_MAX_TIMEOUT
  /\ System_Reset

HeartCount == IF HeartSeconds > SYS_HEARTDATA_MAX_TIMEOUT
              THEN SYS_HEARTDATA_MAX_TIMEOUT ELSE HeartSeconds

(* A bug: the reset comes one second behind the maximum. *)
CountsTooFar ==
  /\ LoginSeconds <= SYS_LOGIN_MAX_TIMEOUT
  /\ sysLoginCount' = LoginSeconds
  /\ sysHeartbeat' = HeartCount

(* The count goes on behind the timeout; from there on it is all the same. *)
Counts ==
  /\ LoginSeconds < SYS_LOGIN_MAX_TIMEOUT
  /\ sysLoginCount' = LoginSeconds
  /\ sysHeartbeat' = HeartCount

HeartbeatTimeout ==
  sys_status = "ONLINE" /\ HeartSeconds >= SYS_HEARTDATA_MAX_TIMEOUT

(* The seconds pass, and nothing is due. *)
DoTasksCounts ==
  /\ Counts
  /\ ~HeartbeatTimeout \/ RealData_Handler
  /\ UNCHANGED <<sys_status, IsDeadZone, serversocket, modemOn, sio_ok,
                 RealData_Handler, restarts, restarting, loginSent, wpc, drops, crossed>>

(* The worker is between the client's test and the status of the login. *)
AboutToLogin == wpc \in {"connect", "config"}

(* A bug: only the subscription is behind the test of RealData_Handler. *)
DoTasksStopsAlways ==
  /\ Counts
  /\ HeartbeatTimeout
  /\ Modem_Stop
  /\ restarts' = IF RealData_Handler THEN restarts ELSE restarts + 1
  /\ RealData_Handler' = TRUE /\ crossed' = AboutToLogin
  /\ UNCHANGED <<restarting, wpc, drops>>

(* No heartbeat answer: stop the modem, and restart it in 2 s. *)
DoTasksStops ==
  /\ Counts
  /\ HeartbeatTimeout /\ ~RealData_Handler
  /\ Modem_Stop
  /\ restarts' = restarts + 1 /\ RealData_Handler' = TRUE
  /\ crossed' = AboutToLogin
  /\ UNCHANGED <<restarting, wpc, drops>>

DoTasks == DoTasksResets \/ DoTasksCounts \/ DoTasksStops
-----------------------------------------------------------------------------
(* The one-shot timer of the 100 ms task: Modem_Restart.  Nothing sets     *)
(* RealData_Handler back.                                                  *)

inRestart == <<IsDeadZone, serversocket, sio_ok, sysLoginCount, sysHeartbeat,
               RealData_Handler, loginSent, wpc, drops>>

(***************************************************************************)
(* The timer hands its number over as the status.  The two cyclic timers   *)
(* of the program and this one make it 3 or more, and with fewer than ten  *)
(* timers in use that reads as a terminal that is logged in.               *)
(***************************************************************************)
RestartPowersOn ==
  /\ restarts > 0 /\ ~restarting
  /\ restarts' = restarts - 1 /\ restarting' = TRUE
  /\ modemOn' = TRUE /\ crossed' = FALSE
  /\ sys_status' = "ONLINE"
  /\ UNCHANGED inRestart

(* sysParamsInit corrects the status. *)
RestartInits ==
  /\ restarting /\ restarting' = FALSE
  /\ sys_status' = "INIT"
  /\ UNCHANGED <<inRestart, modemOn, restarts, crossed>>

Modem_Restart == RestartPowersOn \/ RestartInits
-----------------------------------------------------------------------------
(* The WORKER task, which does not run while Modem_Restart does.           *)

counts == <<sysLoginCount, sysHeartbeat, RealData_Handler, drops, crossed>>

WorkerAt(place) == wpc = place /\ ~restarting /\ UNCHANGED restarting

(* PPP comes up, and the callback goes to XMIT_Connect. *)
PppUp ==
  /\ WorkerAt("idle") /\ wpc' = "connect"
  /\ modemOn /\ ~sio_ok /\ sio_ok' = TRUE
  /\ UNCHANGED <<counts, sys_status, IsDeadZone, serversocket, modemOn, restarts, loginSent>>

(* XMIT_Connect: with a client open there is nothing to do. *)
XMIT_Connect ==
  /\ WorkerAt("connect") /\ wpc' = IF serversocket THEN "idle" ELSE "config"
  /\ UNCHANGED <<counts, sys_status, IsDeadZone, serversocket, modemOn, sio_ok, restarts,
                 loginSent>>

XMIT_CfgSetting ==
  /\ WorkerAt("config") /\ wpc' = "create"
  /\ sys_status' = "LOGIN"
  /\ UNCHANGED <<counts, IsDeadZone, serversocket, modemOn, sio_ok, restarts, loginSent>>

(* The client is created, or that fails; nobody tries again. *)
CreateClient ==
  /\ WorkerAt("create")
  /\ \/ serversocket' = TRUE /\ wpc' = "login"
     \/ serversocket' = FALSE /\ wpc' = "idle"
  /\ UNCHANGED <<counts, sys_status, IsDeadZone, modemOn, sio_ok, restarts, loginSent>>

(* login(), and the dead zone is over. *)
Login ==
  /\ WorkerAt("login") /\ wpc' = "idle"
  /\ loginSent' = serversocket /\ IsDeadZone' = FALSE
  /\ UNCHANGED <<counts, sys_status, serversocket, modemOn, sio_ok, restarts>>

(* The decoder has the server's answer to the login. *)
LoginAck ==
  /\ WorkerAt("idle") /\ loginSent /\ sio_ok
  /\ sys_status' = "ONLINE" /\ loginSent' = FALSE
  /\ UNCHANGED <<counts, IsDeadZone, serversocket, modemOn, sio_ok, restarts, wpc>>

(***************************************************************************)
(* The decoder has the answer to a heartbeat, or one to real data, which   *)
(* leaves the count alone: the status is tested, then set.                 *)
(***************************************************************************)
HeartAck ==
  /\ WorkerAt("idle") /\ serversocket /\ sio_ok
  /\ sysHeartbeat' \in {0, sysHeartbeat}
  /\ wpc' = IF sys_status = "ONLINE" THEN "heart" ELSE "idle"
  /\ UNCHANGED <<sys_status, IsDeadZone, serversocket, modemOn, sio_ok, restarts,
                 sysLoginCount, RealData_Handler, loginSent, drops, crossed>>

HeartSet ==
  /\ WorkerAt("heart") /\ wpc' = "idle"
  /\ sys_status' = "ONLINE"
  /\ UNCHANGED <<counts, IsDeadZone, serversocket, modemOn, sio_ok, restarts, loginSent>>

(* Terminal control 0x05: XMIT_Stop, and nothing else. *)
ServerStops ==
  /\ WorkerAt("idle") /\ serversocket /\ sio_ok
  /\ serversocket' = FALSE /\ loginSent' = FALSE
  /\ UNCHANGED <<counts, sys_status, IsDeadZone, modemOn, sio_ok, restarts, wpc>>

(* PPP ends for a reason of its own, and the client stays as it is. *)
PppDown ==
  /\ WorkerAt("idle") /\ sio_ok
  /\ sio_ok' = FALSE
  /\ UNCHANGED <<counts, sys_status, IsDeadZone, serversocket, modemOn, restarts,
                 loginSent, wpc>>

(* GL868_ReadData sees NO CARRIER: the test, Modem_Stop, the timer. *)
NoCarrierSeen ==
  /\ WorkerAt("idle") /\ modemOn /\ BelowSleep
  /\ drops < MaxDrops /\ drops' = drops + 1
  /\ wpc' = "stop"
  /\ UNCHANGED <<sys_status, IsDeadZone, serversocket, modemOn, sio_ok, sysLoginCount,
                 sysHeartbeat, RealData_Handler, restarts, loginSent, crossed>>

(* Modem_Stop again, in a task that the timers may cut between its writes. *)
StopStores ==
  /\ WorkerAt("stop") /\ wpc' = "zone"
  /\ sys_status' = "STORAGE"
  /\ UNCHANGED <<counts, IsDeadZone, serversocket, modemOn, sio_ok, restarts, loginSent>>

StopEntersZone ==
  /\ WorkerAt("zone") /\ wpc' = "off"
  /\ IsDeadZone' = TRUE
  /\ UNCHANGED <<counts, sys_status, serversocket, modemOn, sio_ok, restarts, loginSent>>

StopPowersOff ==
  /\ WorkerAt("off") /\ wpc' = "close"
  /\ modemOn' = FALSE
  /\ UNCHANGED <<counts, sys_status, IsDeadZone, serversocket, sio_ok, restarts, loginSent>>

StopCloses ==
  /\ WorkerAt("close") /\ wpc' = "exit"
  /\ serversocket' = FALSE /\ loginSent' = FALSE
  /\ UNCHANGED <<counts, sys_status, IsDeadZone, modemOn, sio_ok, restarts>>

StopExitsNet ==
  /\ WorkerAt("exit") /\ wpc' = "subscribe"
  /\ sio_ok' = FALSE
  /\ UNCHANGED <<counts, sys_status, IsDeadZone, serversocket, modemOn, restarts, loginSent>>

NoCarrierStop == StopStores \/ StopEntersZone \/ StopPowersOff \/ StopCloses \/ StopExitsNet

(* A bug: one timer for both stops, and it has been used. *)
NoCarrierSubscribesOnce ==
  /\ WorkerAt("subscribe") /\ wpc' = "idle"
  /\ restarts' = IF RealData_Handler THEN restarts ELSE restarts + 1
  /\ UNCHANGED <<counts, sys_status, IsDeadZone, serversocket, modemOn, sio_ok, loginSent>>

NoCarrierSubscribe ==
  /\ WorkerAt("subscribe") /\ wpc' = "idle"
  /\ restarts' = restarts + 1
  /\ UNCHANGED <<counts, sys_status, IsDeadZone, serversocket, modemOn, sio_ok, loginSent>>

Worker == \/ XMIT_Connect \/ XMIT_CfgSetting \/ CreateClient \/ Login
          \/ HeartSet \/ NoCarrierStop \/ NoCarrierSubscribe

Next == \/ DoTasks \/ Modem_Restart \/ Worker
        \/ PppUp \/ LoginAck \/ HeartAck \/ ServerStops \/ PppDown
        \/ NoCarrierSeen

Spec == Init /\ [][Next]_vars
-----------------------------------------------------------------------------
FlagsOK ==
  /\ IsDeadZone \in BOOLEAN /\ serversocket \in BOOLEAN /\ modemOn \in BOOLEAN
  /\ sio_ok \in BOOLEAN /\ RealData_Handler \in BOOLEAN /\ loginSent \in BOOLEAN
  /\ restarting \in BOOLEAN /\ crossed \in BOOLEAN

CountsOK ==
  /\ sysLoginCount \in 0 .. SYS_LOGIN_MAX_TIMEOUT - 1
  /\ sysHeartbeat \in 0 .. SYS_HEARTDATA_MAX_TIMEOUT
  /\ restarts \in 0 .. MaxDrops + 1
  /\ drops \in 0 .. MaxDrops

(***************************************************************************)
(* The types: the count of seconds without a link stays below its maximum, *)
(* and there are no more restarts than stops ask for.                      *)
(***************************************************************************)
TypeOK ==
  /\ sys_status \in {"INIT", "LOGIN", "ONLINE", "STORAGE", "LOGOUT_ACK"}
  /\ wpc \in {"idle", "connect", "config", "create", "login", "heart",
             "stop", "zone", "off", "close", "exit", "subscribe"}
  /\ FlagsOK /\ CountsOK

(***************************************************************************)
(* A modem that is off has a restart coming, or the worker on its way to   *)
(* ask for one: heartbeat timeout and NO CARRIER may meet, one stop may    *)
(* come on top of the other, and none leaves the modem off.                *)
(***************************************************************************)
NeverLeftOff == modemOn \/ restarts > 0 \/ wpc \in {"close", "exit", "subscribe"}

(***************************************************************************)
(* Records are stored for as long as the modem is off, and no client is    *)
(* open while they are, but for the steps of the worker from the new       *)
(* client to the end of the dead zone and, in Modem_Stop, from the begin   *)
(* of the dead zone to the end of the client.  What the code does not give *)
(* is named by "crossed": a heartbeat timeout between the test of the      *)
(* client (XMIT_Connect) and the status of the login stops the modem, and  *)
(* the worker ends the dead zone all the same; until the restart.          *)
(***************************************************************************)
StoredWhileOff ==
  /\ ~modemOn => IsDeadZone \/ crossed
  /\ IsDeadZone /\ serversocket => wpc \in {"login", "off", "close"}

(***************************************************************************)
(* "1. stop the modem, 2. restart the modem" when the heartbeat is not     *)
(* answered for SYS_HEARTDATA_MAX_TIMEOUT seconds: a terminal that is      *)
(* logged in and gets no answer does not stay so.                          *)
(***************************************************************************)
SilenceEnds ==
  (sys_status = "ONLINE" /\ sysHeartbeat = SYS_HEARTDATA_MAX_TIMEOUT)
    ~> (sys_status # "ONLINE" \/ sysHeartbeat < SYS_HEARTDATA_MAX_TIMEOUT)
=============================================================================
