-------------------------- MODULE LowPower_proofs --------------------------
(***************************************************************************)
(* The safety of Link, for every timeout and any number of NO CARRIERs.    *)
(* TypeOK, NeverLeftOff and StoredWhileOff are not inductive: that the     *)
(* restarts are bounded needs Owed, that the worker's login() does not end *)
(* a dead zone with the modem off needs OneRestart and LoginUndisturbed.   *)
(* Then the same with the sleep put in, for every limit of the ignition    *)
(* count.                                                                  *)
(***************************************************************************)
EXTENDS LowPower, TLAPS

(* Each NO CARRIER and the one heartbeat timeout owe at most one restart;  *)
(* before that timeout, the NO CARRIERs alone.                             *)
Stopping == {"stop", "zone", "off", "close", "exit", "subscribe"}
StopsOwed == restarts + (IF wpc \in Stopping THEN 1 ELSE 0)
Owed == StopsOwed <= drops + 1 /\ (~RealData_Handler => StopsOwed <= drops)

(***************************************************************************)
(* Before the heartbeat timeout there is one restart at a time, and the    *)
(* modem is off until it comes: a NO CARRIER is seen from a modem that is  *)
(* on.                                                                     *)
(***************************************************************************)
OneRestart ==
  ~RealData_Handler =>
    /\ restarts <= 1
    /\ restarts = 1 => ~modemOn /\ wpc \notin Stopping
    /\ wpc \in {"close", "exit", "subscribe"} => ~modemOn

(***************************************************************************)
(* While the worker opens the client no stop comes that "crossed" does not *)
(* name: once the login is begun the terminal is not logged in, and before *)
(* the heartbeat timeout no restart makes it look so.                      *)
(***************************************************************************)
Opening == {"connect", "config", "create", "login"}

LoginUndisturbed ==
  /\ crossed => RealData_Handler
  /\ wpc \in Opening => modemOn \/ crossed
  /\ wpc \in {"create", "login"} => RealData_Handler \/ sys_status \in {"INIT", "LOGIN"}

(* The worker's stop is in the dead zone before it switches off. *)
ZoneEntered == wpc \in {"off", "close", "exit", "subscribe"} => IsDeadZone

Inductive == /\ TypeOK /\ NeverLeftOff /\ StoredWhileOff
             /\ Owed /\ OneRestart /\ LoginUndisturbed /\ ZoneEntered

(* Power-up satisfies the invariant. *)
LEMMA InitInductive == Init => Inductive
<1> SUFFICES ASSUME Init PROVE Inductive
  OBVIOUS
<1>1. TypeOK
  <2>1. FlagsOK
    BY Zenon DEF Init, FlagsOK
  <2>2. CountsOK
    BY LinkAssumption DEF Init, CountsOK
  <2> QED
    BY <2>1, <2>2 DEF Init, TypeOK
<1>2. NeverLeftOff
  BY DEF Init, NeverLeftOff
<1>3. StoredWhileOff
  BY DEF Init, StoredWhileOff
<1>4. Owed
  BY DEF Init, Owed, StopsOwed, Stopping
<1>5. OneRestart
  BY DEF Init, OneRestart
<1>6. LoginUndisturbed /\ ZoneEntered
  BY DEF Init, LoginUndisturbed, Opening, ZoneEntered
<1> QED
  BY <1>1, <1>2, <1>3, <1>4, <1>5, <1>6 DEF Inductive

(* What one run of DoTasks counts stays inside the two timeouts. *)
LEMMA CountsInRange ==
  ASSUME TypeOK, Counts
  PROVE  /\ sysLoginCount' \in 0 .. SYS_LOGIN_MAX_TIMEOUT - 1
         /\ sysHeartbeat' \in 0 .. SYS_HEARTDATA_MAX_TIMEOUT
<1>1. sysHeartbeat \in Nat /\ sysLoginCount \in Nat
  BY LinkAssumption DEF TypeOK, CountsOK
<1>2. HeartSeconds \in Nat /\ LoginSeconds \in Nat
  BY <1>1 DEF HeartSeconds, LoginSeconds
<1> QED
  BY <1>2, LinkAssumption DEF Counts, HeartCount

(* Every step keeps the invariant. *)
LEMMA NextInductive == Inductive /\ [Next]_vars => Inductive'
<1> SUFFICES ASSUME Inductive, [Next]_vars PROVE Inductive'
  OBVIOUS
<1> USE LinkAssumption DEF Inductive, TypeOK, CountsOK, NeverLeftOff,
                           StoredWhileOff, Owed, StopsOwed, OneRestart,
                           LoginUndisturbed, ZoneEntered, Stopping, Opening
<1>1. CASE DoTasksResets
  <2>1. FlagsOK'
    BY ONLY <1>1, Zenon DEF DoTasksResets, System_Reset, FlagsOK
  <2> QED
    BY <1>1, <2>1 DEF DoTasksResets, System_Reset
<1>2. CASE DoTasksCounts
  BY <1>2, CountsInRange DEF FlagsOK, DoTasksCounts
<1>3. CASE DoTasksStops
  <2>1. FlagsOK'
    <3>1. restarting \in BOOLEAN
      BY Zenon DEF FlagsOK
    <3>2. AboutToLogin \in BOOLEAN
      BY DEF AboutToLogin
    <3> QED
      BY ONLY <1>3, <3>1, <3>2, Zenon DEF DoTasksStops, Modem_Stop, FlagsOK
  <2>2. /\ ~RealData_Handler /\ wpc \notin {"create", "login"}
        /\ restarts' = restarts + 1 /\ UNCHANGED <<wpc, drops>>
        /\ sys_status' = "STORAGE"
        /\ wpc \in {"connect", "config"} => crossed'
    BY <1>3 DEF DoTasksStops, HeartbeatTimeout, Modem_Stop, AboutToLogin
  <2>3. RealData_Handler'
    BY ONLY <1>3, Zenon DEF DoTasksStops
  <2>4. CountsOK'
    BY <1>3, <2>2, CountsInRange DEF DoTasksStops
  <2> QED
    <3>1. IsDeadZone' /\ ~serversocket'
      BY ONLY <1>3, Zenon DEF DoTasksStops, Modem_Stop
    <3> QED
      BY <2>1, <2>2, <2>3, <2>4, <3>1
<1>4. CASE RestartPowersOn
  <2>1. FlagsOK'
    BY ONLY <1>4, FlagsOK, Zenon DEF RestartPowersOn, inRestart, FlagsOK
  <2>2. modemOn' /\ ~crossed' /\ restarts > 0 /\ restarts' = restarts - 1
    BY <1>4 DEF RestartPowersOn
  <2>3. UNCHANGED <<IsDeadZone, serversocket, sysLoginCount, sysHeartbeat, RealData_Handler,
                    wpc, drops>> /\ sys_status' = "ONLINE"
    BY <1>4 DEF RestartPowersOn, inRestart
  <2>4. RealData_Handler \/ (~crossed /\ ~modemOn /\ wpc \notin Stopping)
    <3>1. RealData_Handler \/ ~crossed
      BY ONLY LoginUndisturbed, Zenon DEF LoginUndisturbed
    <3>2. RealData_Handler \/ restarts = 1
      BY <2>2
    <3> QED
      BY ONLY <3>1, <3>2, OneRestart, Zenon DEF OneRestart
  <2>5. LoginUndisturbed'
    BY <2>2, <2>3, <2>4
  <2>6. OneRestart'
    BY <2>2, <2>3, <2>4
  <2> QED
    BY <2>1, <2>2, <2>3, <2>5, <2>6
<1>5. CASE RestartInits
  BY <1>5 DEF FlagsOK, RestartInits, inRestart
<1>6. CASE PppUp \/ XMIT_Connect \/ XMIT_CfgSetting \/ CreateClient
  <2>1. FlagsOK'
    BY ONLY <1>6, FlagsOK, Zenon DEF FlagsOK, PppUp, XMIT_Connect, XMIT_CfgSetting,
       CreateClient, WorkerAt, counts
  <2>2. CASE PppUp
    BY <2>1, <2>2 DEF PppUp, WorkerAt, counts
  <2>3. CASE XMIT_Connect
    BY <2>1, <2>3 DEF XMIT_Connect, WorkerAt, counts
  <2>4. CASE XMIT_CfgSetting
    BY <2>1, <2>4 DEF XMIT_CfgSetting, WorkerAt, counts
  <2>5. CASE CreateClient
    BY <2>1, <2>5 DEF CreateClient, WorkerAt, counts
  <2> QED
    BY <1>6, <2>2, <2>3, <2>4, <2>5
<1>7. CASE Login
  BY <1>7 DEF FlagsOK, Login, WorkerAt, counts
<1>8. CASE LoginAck
  BY <1>8 DEF FlagsOK, LoginAck, WorkerAt, counts
<1>9. CASE HeartAck
  BY <1>9 DEF FlagsOK, HeartAck, WorkerAt
<1>10. CASE HeartSet
  BY <1>10 DEF FlagsOK, HeartSet, WorkerAt, counts
<1>11. CASE ServerStops
  BY <1>11 DEF FlagsOK, ServerStops, WorkerAt, counts
<1>12. CASE PppDown
  BY <1>12 DEF FlagsOK, PppDown, WorkerAt, counts
<1>13. CASE NoCarrierSeen
  BY <1>13 DEF FlagsOK, NoCarrierSeen, WorkerAt
<1>14. CASE NoCarrierStop
  <2>1. FlagsOK'
    BY ONLY <1>14, FlagsOK, Zenon DEF FlagsOK, NoCarrierStop, StopStores, StopEntersZone,
       StopPowersOff, StopCloses, StopExitsNet, WorkerAt, counts
  <2>2. CASE StopStores
    BY <2>1, <2>2 DEF StopStores, WorkerAt, counts
  <2>3. CASE StopEntersZone
    BY <2>1, <2>3 DEF StopEntersZone, WorkerAt, counts
  <2>4. CASE StopPowersOff
    BY <2>1, <2>4 DEF StopPowersOff, WorkerAt, counts
  <2>5. CASE StopCloses
    BY <2>1, <2>5 DEF StopCloses, WorkerAt, counts
  <2>6. CASE StopExitsNet
    BY <2>1, <2>6 DEF StopExitsNet, WorkerAt, counts
  <2> QED
    BY <1>14, <2>2, <2>3, <2>4, <2>5, <2>6 DEF NoCarrierStop
<1>15. CASE NoCarrierSubscribe
  BY <1>15 DEF FlagsOK, NoCarrierSubscribe, WorkerAt, counts
<1>16. CASE UNCHANGED vars
  BY <1>16 DEF FlagsOK, vars
<1> QED
  BY <1>1, <1>2, <1>3, <1>4, <1>5, <1>6, <1>7, <1>8, <1>9,
     <1>10, <1>11, <1>12, <1>13, <1>14, <1>15, <1>16
  DEF Next, DoTasks, Modem_Restart, Worker

(* The three invariants, and what they rest on, hold in every state. *)
THEOREM InvariantHolds == Spec => []Inductive
BY InitInductive, NextInductive, PTL DEF Spec

(***************************************************************************)
(* The types: no count passes its timeout, no restart is asked for that no *)
(* stop owes.                                                              *)
(***************************************************************************)
THEOREM TypeCorrect == Spec => []TypeOK
<1>1. Inductive => TypeOK
  BY DEF Inductive
<1> QED
  BY <1>1, InvariantHolds, PTL

(***************************************************************************)
(* A modem that was stopped has its restart coming, however stops,         *)
(* restarts and the worker meet.                                           *)
(***************************************************************************)
THEOREM ModemNeverLeftOff == Spec => []NeverLeftOff
<1>1. Inductive => NeverLeftOff
  BY DEF Inductive
<1> QED
  BY <1>1, InvariantHolds, PTL

(***************************************************************************)
(* Records are stored while the modem is off, and no client is open while  *)
(* they are.                                                               *)
(***************************************************************************)
THEOREM OffMeansStored == Spec => []StoredWhileOff
<1>1. Inductive => StoredWhileOff
  BY DEF Inductive
<1> QED
  BY <1>1, InvariantHolds, PTL
-----------------------------------------------------------------------------
(***************************************************************************)
(* The supervision with the sleep put in.  The steps of the supervision    *)
(* keep its invariant as they did; what is left are the steps that write   *)
(* its variables from the outside: the answer to a logout, the close       *)
(* before a sleep, the wake-up, and the resets.                            *)
(***************************************************************************)
PowerInductive == Inductive /\ SleepOK

(* A reset from anywhere is a power-up, but for the count of drops. *)
LEMMA ResetInductive ==
  ASSUME Inductive, System_Reset
  PROVE  Inductive'
<1> USE LinkAssumption DEF Inductive, TypeOK, CountsOK, NeverLeftOff,
                           StoredWhileOff, Owed, StopsOwed, OneRestart,
                           LoginUndisturbed, ZoneEntered, Stopping, Opening
<1>1. FlagsOK'
  BY ONLY System_Reset, Zenon DEF System_Reset, FlagsOK
<1> QED
  BY <1>1 DEF System_Reset

LEMMA ResetSleepOK ==
  ASSUME SleepOK, PowerReset
  PROVE  SleepOK'
<1>1. SleepFlagsOK'
  BY Zenon DEF SleepOK, SleepFlagsOK, PowerReset
<1> QED
  BY <1>1, LowPowerAssumption DEF SleepOK, PowerReset

(* The supervision goes on, and a logout may end: nothing else changes.    *)
LEMMA GoesOn ==
  ASSUME PowerInductive, [Next]_vars,
         logoutSent' = (logoutSent /\ serversocket'),
         UNCHANGED <<accOn, close_time, sleepTmr, sleeping, rtc>>
  PROVE  PowerInductive'
<1>1. Inductive'
  BY NextInductive DEF PowerInductive
<1>2. SleepFlagsOK'
  BY Zenon DEF PowerInductive, SleepOK, SleepFlagsOK
<1> QED
  BY <1>1, <1>2 DEF PowerInductive, SleepOK

(* Every step of the terminal keeps the invariant. *)
LEMMA PowerNextInductive == PowerInductive /\ [PowerNext]_allVars => PowerInductive'
<1> SUFFICES ASSUME PowerInductive, [PowerNext]_allVars PROVE PowerInductive'
  OBVIOUS
<1> USE DEF PowerInductive
<1>1. CASE SecondResets \/ MonitorResets \/ RingResets \/ WatchdogResets
  <2>1. (System_Reset \/ DoTasksResets) /\ PowerReset
    BY <1>1 DEF SecondResets, MonitorResets, RingResets, WatchdogResets
  <2>2. System_Reset
    BY <2>1 DEF DoTasksResets
  <2> QED
    BY <2>1, <2>2, ResetInductive, ResetSleepOK
<1>2. CASE Goes(DoTasksCounts \/ DoTasksStops)
  BY <1>2, GoesOn DEF Goes, Next, DoTasks
<1>3. CASE Restarts
  BY <1>3, GoesOn DEF Restarts, Goes, Next
<1>4. CASE WorkerGoesOn
  BY <1>4, GoesOn DEF WorkerGoesOn, Goes, Next
<1>5. CASE Received
  BY <1>5, GoesOn DEF Received, Goes, Next
<1>6. CASE LogoutAck
  <2>1. Inductive'
    BY <1>6 DEF LogoutAck, WorkerAt, counts, Inductive, TypeOK, FlagsOK, CountsOK,
       NeverLeftOff, StoredWhileOff, Owed, StopsOwed, OneRestart, LoginUndisturbed,
       ZoneEntered, Stopping, Opening
  <2>2. SleepFlagsOK'
    BY <1>6, Zenon DEF LogoutAck, SleepOK, SleepFlagsOK
  <2> QED
    BY <1>6, <2>1, <2>2 DEF LogoutAck, SleepOK
<1>7. CASE Monitor
  <2>1. Inductive'
    BY <1>7, NextInductive DEF Monitor
  <2>2. PICK quiet \in BOOLEAN : close_time' = CloseTime(quiet)
    BY <1>7 DEF Monitor
  <2>3. close_time' \in 0 .. LPWR_ACC_CLOSE_TIME
    BY <2>2, LowPowerAssumption DEF CloseTime, SleepOK
  <2>4. SleepFlagsOK'
    <3>1. serversocket \in BOOLEAN
      BY Zenon DEF Inductive, TypeOK, FlagsOK
    <3> QED
      BY <1>7, <3>1, Zenon DEF Monitor, SleepOK, SleepFlagsOK
  <2> QED
    BY <1>7, <2>1, <2>3, <2>4 DEF Monitor, SleepOK
<1>8. CASE SleepCalledOff
  <2>1. Inductive'
    BY <1>8, NextInductive DEF SleepCalledOff
  <2>2. SleepFlagsOK'
    BY <1>8, Zenon DEF SleepCalledOff, SleepOK, SleepFlagsOK
  <2> QED
    BY <1>8, <2>1, <2>2 DEF SleepCalledOff, SleepOK
<1>9. CASE SleepCloses
  <2>1. FlagsOK'
    BY <1>9, Zenon DEF SleepCloses, Inductive, TypeOK, FlagsOK, counts
  <2>2. Inductive'
    BY <1>9, <2>1 DEF SleepCloses, counts, Inductive, TypeOK, CountsOK,
       NeverLeftOff, StoredWhileOff, Owed, StopsOwed, OneRestart, LoginUndisturbed,
       ZoneEntered, Stopping, Opening
  <2>3. SleepFlagsOK'
    BY <1>9, Zenon DEF SleepCloses, SleepOK, SleepFlagsOK
  <2> QED
    BY <1>9, <2>2, <2>3 DEF SleepCloses, SleepOK
<1>10. CASE TasksSuspended
  BY <1>10, NextInductive DEF TasksSuspended, SleepOK, SleepFlagsOK
<1>11. CASE EnterRUNMode
  <2>1. Inductive'
    BY <1>11 DEF EnterRUNMode, counts, Inductive, TypeOK, FlagsOK, CountsOK,
       NeverLeftOff, StoredWhileOff, Owed, StopsOwed, OneRestart, LoginUndisturbed,
       ZoneEntered, Stopping, Opening
  <2>2. SleepFlagsOK'
    BY <1>11, Zenon DEF EnterRUNMode, SleepOK, SleepFlagsOK
  <2> QED
    BY <1>11, <2>1, <2>2, LowPowerAssumption DEF EnterRUNMode, SleepOK
<1>12. CASE AccToggles
  <2>1. Inductive'
    BY <1>12, NextInductive DEF AccToggles
  <2>2. SleepFlagsOK'
    BY <1>12, Zenon DEF AccToggles, SleepOK, SleepFlagsOK
  <2> QED
    BY <1>12, <2>1, <2>2 DEF AccToggles, SleepOK
<1>13. CASE GpsSetsTime
  BY <1>13, NextInductive DEF GpsSetsTime, SleepOK, SleepFlagsOK
<1>14. CASE UNCHANGED allVars
  BY <1>14, NextInductive DEF allVars, power, SleepOK, SleepFlagsOK
<1> QED
  BY <1>1, <1>2, <1>3, <1>4, <1>5, <1>6, <1>7, <1>8, <1>9,
     <1>10, <1>11, <1>12, <1>13, <1>14
  DEF PowerNext, Seconds, SleepDelay

(* The invariant of the supervision outlives every sleep and wake-up. *)
THEOREM PowerInvariantHolds == PowerSpec => []PowerInductive
<1>1. PowerInit => PowerInductive
  <2>1. PowerInit => SleepFlagsOK
    BY Zenon DEF PowerInit, SleepFlagsOK
  <2> QED
    BY <2>1, InitInductive, LowPowerAssumption DEF PowerInit, PowerInductive, SleepOK
<1> QED
  BY <1>1, PowerNextInductive, PTL DEF PowerSpec

(***************************************************************************)
(* The types: no count passes its timeout, no restart is asked for that no *)
(* stop owes, and the ignition count stays at its limit.                   *)
(***************************************************************************)
THEOREM PowerTypeCorrect == PowerSpec => []PowerTypeOK
<1>1. PowerInductive => PowerTypeOK
  BY DEF PowerInductive, Inductive, PowerTypeOK
<1> QED
  BY <1>1, PowerInvariantHolds, PTL

(***************************************************************************)
(* A modem that was stopped has its restart coming, and keeps it through   *)
(* a sleep.                                                                *)
(***************************************************************************)
THEOREM NeverLeftOffBySleep == PowerSpec => []NeverLeftOff
<1>1. PowerInductive => NeverLeftOff
  BY DEF PowerInductive, Inductive
<1> QED
  BY <1>1, PowerInvariantHolds, PTL

(***************************************************************************)
(* Records are stored while the modem is off, and no client is open while  *)
(* they are, also when the worker is suspended between its new client and  *)
(* the end of the dead zone.                                               *)
(***************************************************************************)
THEOREM OffMeansStoredInSleep == PowerSpec => []StoredWhileOff
<1>1. PowerInductive => StoredWhileOff
  BY DEF PowerInductive, Inductive
<1> QED
  BY <1>1, PowerInvariantHolds, PTL
=============================================================================
