------------------------------ MODULE LowPower ------------------------------
(***************************************************************************)
(* The sleep of the terminal (low_power_proc.c, low_power.c) put together  *)
(* with the supervision of its connection.  Every two seconds the 100 ms   *)
(* task counts how long the ignition (ACC) has been off; at the limit it   *)
(* logs out and starts a timer, the timer closes the connection and        *)
(* suspends every task, and from there on the idle hook alone runs: it     *)
(* waits for the ignition and resumes the tasks where they stood.          *)
(*                                                                         *)
(* Modem_Restart, the monitor and the sleep timer share the 100 ms task,   *)
(* so none of them runs inside another; the 10 ms task may come before the *)
(* tasks are suspended; the worker is suspended wherever it stands.  The   *)
(* ignition, the CAN bus, the RING line, the supply and the GPS are        *)
(* external.                                                               *)
(***************************************************************************)
EXTENDS Link

CONSTANT LPWR_ACC_CLOSE_TIME          \* runs of the monitor: 20

ASSUME LowPowerAssumption == LPWR_ACC_CLOSE_TIME \in Nat \ {0}

VARIABLES
  accOn,        \* the ignition is on
  close_time,   \* accInfo.close_time
  sleepTmr,     \* it is not NULL
  logoutSent,   \* vehicles_logout() went out and is not answered
  sleeping,     \* where the sleep stands
  rtc           \* "never" set, "set" since the reset, "running": RtcTimeStart

power == <<accOn, close_time, sleepTmr, logoutSent, sleeping, rtc>>

allVars == <<vars, power>>

PowerInit ==
  /\ Init
  /\ accOn \in BOOLEAN /\ close_time = 0
  /\ sleepTmr = FALSE /\ logoutSent = FALSE
  /\ sleeping = "awake" /\ rtc \in {"never", "running"}

(* What a reset does to the sleep: the RTC is on the backup battery. *)
PowerReset ==
  /\ close_time' = 0 /\ sleepTmr' = FALSE /\ logoutSent' = FALSE
  /\ sleeping' = "awake"
  /\ rtc' = IF rtc = "never" THEN "never" ELSE "running"
  /\ UNCHANGED accOn

Awake == sleeping = "awake"
-----------------------------------------------------------------------------
(* The supervision, while its tasks are not suspended.  A logout that is   *)
(* under way ends with the client.                                         *)

Goes(step) ==
  /\ step
  /\ logoutSent' = (logoutSent /\ serversocket')
  /\ UNCHANGED <<accOn, close_time, sleepTmr, sleeping, rtc>>

SecondResets == sleeping # "stop" /\ DoTasksResets /\ PowerReset

Seconds == \/ SecondResets
           \/ sleeping # "stop" /\ Goes(DoTasksCounts \/ DoTasksStops)

Restarts == Awake /\ Goes(Modem_Restart)

WorkerGoesOn == Awake /\ Goes(Worker)

Received == Awake /\ Goes(\/ PppUp \/ LoginAck \/ HeartAck
                          \/ ServerStops \/ PppDown \/ NoCarrierSeen)

(* The decoder has the server's answer to the logout. *)
LogoutAck ==
  /\ Awake /\ WorkerAt("idle") /\ logoutSent /\ sio_ok
  /\ sys_status' = "LOGOUT_ACK" /\ logoutSent' = FALSE
  /\ UNCHANGED <<counts, IsDeadZone, serversocket, modemOn, sio_ok, restarts, wpc,
                 loginSent, accOn, close_time, sleepTmr, sleeping, rtc>>
-----------------------------------------------------------------------------
(* TmrMonitorHdlr and SLEEP_Delay, in the 100 ms task.                     *)

In100ms == Awake /\ ~restarting

(* A bug: the silence of the bus alone is counted. *)
CloseTimeOfBus(quiet) ==
  IF ~quiet THEN 0
  ELSE IF close_time < LPWR_ACC_CLOSE_TIME THEN close_time + 1
  ELSE LPWR_ACC_CLOSE_TIME

(* The count of a monitor that hears nothing on the CAN bus, or does; past *)
(* the limit it is all the same.                                           *)
CloseTime(quiet) ==
  IF accOn \/ ~quiet THEN 0
  ELSE IF close_time < LPWR_ACC_CLOSE_TIME THEN close_time + 1
  ELSE LPWR_ACC_CLOSE_TIME

(* SLEEP_TYPEI_IsReady: at the limit, log out and start the timer. *)
Monitor ==
  /\ In100ms
  /\ \E quiet \in BOOLEAN : close_time' = CloseTime(quiet)
  /\ IF close_time' >= LPWR_ACC_CLOSE_TIME /\ ~sleepTmr
     THEN logoutSent' = serversocket /\ sleepTmr' = TRUE
     ELSE UNCHANGED <<logoutSent, sleepTmr>>
  /\ UNCHANGED <<vars, accOn, sleeping, rtc>>

(* The supply fails, or RING is active at the logout. *)
MonitorResets == In100ms /\ System_Reset /\ PowerReset

(* The timer: the ignition, or the CAN bus, has come back in time. *)
SleepCalledOff ==
  /\ In100ms /\ sleepTmr /\ close_time < LPWR_ACC_CLOSE_TIME
  /\ sleepTmr' = FALSE
  /\ UNCHANGED <<vars, accOn, close_time, logoutSent, sleeping, rtc>>

(* The timer: XMIT_Stop, wip_NetExit, MODEM_Reset; the power stays on. *)
SleepCloses ==
  /\ In100ms /\ sleepTmr /\ close_time >= LPWR_ACC_CLOSE_TIME
  /\ sleepTmr' = FALSE /\ sleeping' = "closing"
  /\ serversocket' = FALSE /\ sio_ok' = FALSE
  /\ loginSent' = FALSE /\ logoutSent' = FALSE
  /\ UNCHANGED <<counts, sys_status, IsDeadZone, modemOn, restarts, restarting, wpc,
                 accOn, close_time, rtc>>

(* LPWR_OSTaskSuspend: from here on there is the idle hook. *)
TasksSuspended ==
  /\ sleeping = "closing" /\ sleeping' = "stop"
  /\ UNCHANGED <<vars, accOn, close_time, sleepTmr, logoutSent, rtc>>

SleepDelay == SleepCalledOff \/ SleepCloses \/ TasksSuspended
-----------------------------------------------------------------------------
(* The idle hook: with the RTC running it stops the processor, is woken    *)
(* every second, and looks at the ignition and at RING.  Without the RTC   *)
(* it returns before it kicks the watchdog.                                *)

(* LPWR_EnterRUNMode; the power of the modem is not touched. *)
EnterRUNMode ==
  /\ sleeping = "stop" /\ rtc = "running" /\ accOn
  /\ sys_status' = "INIT" /\ close_time' = 0 /\ sleeping' = "awake"
  /\ UNCHANGED <<counts, IsDeadZone, serversocket, modemOn, sio_ok, restarts, restarting,
                 loginSent, wpc, accOn, sleepTmr, logoutSent, rtc>>

RingResets ==
  sleeping = "stop" /\ rtc = "running" /\ System_Reset /\ PowerReset

WatchdogResets ==
  sleeping = "stop" /\ rtc # "running" /\ System_Reset /\ PowerReset
-----------------------------------------------------------------------------
AccToggles ==
  /\ accOn' = ~accOn
  /\ UNCHANGED <<vars, close_time, sleepTmr, logoutSent, sleeping, rtc>>

(* The GPS has the time for an RTC that was never set. *)
GpsSetsTime ==
  /\ Awake /\ rtc = "never" /\ rtc' = "set"
  /\ UNCHANGED <<vars, accOn, close_time, sleepTmr, logoutSent, sleeping>>

PowerNext ==
  \/ Seconds \/ Restarts \/ WorkerGoesOn \/ Received \/ LogoutAck
  \/ Monitor \/ MonitorResets \/ SleepDelay
  \/ EnterRUNMode \/ RingResets \/ WatchdogResets
  \/ AccToggles \/ GpsSetsTime

PowerSpec == PowerInit /\ [][PowerNext]_allVars

(* The timers keep running, the worker ends what it began, and the idle    *)
(* hook or the watchdog runs while everything else is suspended.           *)
PowerFairSpec ==
  /\ PowerSpec
  /\ WF_allVars(Seconds) /\ WF_allVars(Restarts) /\ WF_allVars(WorkerGoesOn)
  /\ WF_allVars(Monitor) /\ WF_allVars(SleepDelay)
  /\ WF_allVars(EnterRUNMode \/ WatchdogResets)
-----------------------------------------------------------------------------
SleepFlagsOK ==
  accOn \in BOOLEAN /\ sleepTmr \in BOOLEAN /\ logoutSent \in BOOLEAN

SleepOK ==
  /\ SleepFlagsOK
  /\ close_time \in 0 .. LPWR_ACC_CLOSE_TIME
  /\ sleeping \in {"awake", "closing", "stop"}
  /\ rtc \in {"never", "set", "running"}

(***************************************************************************)
(* The types, those of the supervision included: no sleep or wake-up lets  *)
(* a count pass its timeout, or adds a restart.                            *)
(***************************************************************************)
PowerTypeOK == TypeOK /\ SleepOK

Resets == SecondResets \/ MonitorResets \/ RingResets \/ WatchdogResets

(***************************************************************************)
(* The login timeout: a terminal that stays awake does not go on for ever  *)
(* without a PPP link and without being reset, whatever stops, restarts    *)
(* and sleeps came before.  One state stands outside: the logout was       *)
(* answered and its sleep was called off, and nobody counts any more.      *)
(***************************************************************************)
LinkOrReset ==
  <>[]Awake => \/ []<>sio_ok \/ []<><<Resets>>_allVars
               \/ <>[](sys_status = "LOGOUT_ACK")

(* A modem that is off is switched on again, unless the ignition goes off. *)
ModemComesBack == ~modemOn ~> (modemOn \/ ~accOn)

(***************************************************************************)
(* With the ignition on for good a terminal ends up awake and stays so:    *)
(* a sleep that was under way is called off or left, by the idle hook or,  *)
(* without a running RTC, by the watchdog, and none follows it.            *)
(***************************************************************************)
StaysAwake == <>[]accOn => <>[]Awake
=============================================================================
