-------------------------------- MODULE Params --------------------------------
(***************************************************************************)
(* The parameters of the terminal (tiza_params.c): two objects in the      *)
(* internal flash, each with a backup copy in the external one, read at    *)
(* start-up and saved there, at a login and on command.  The internal      *)
(* storage is what ObjectStore promises, without its failures; the supply  *)
(* may fail at any time.  The object written is "cur", and the code goes   *)
(* on at "after" then.                                                     *)
(*                                                                         *)
(* A value has an identity, the VIN or the device ID, by whose first       *)
(* letter it is accepted: those that were set have, what the factory       *)
(* settings leave of them has ("factory"), zeroes and factory settings     *)
(* over zeroes have not.                                                   *)
(***************************************************************************)
CONSTANTS Settings, \* the values that are set
          NoValue   \* an object without a value

VEHICLE  == "vehicle"
GPRS     == "gprs"
ParamIds == {VEHICLE, GPRS}
Savers   == {"task"}

\* A backup that was being written when the supply failed: erased, with its
\* mark alone, or with the beginning of its data.
Unwritten   == {"erased", "marked", "partial"}
ParamValues == Settings \cup {"factory", "nameless", "partial"}

ASSUME ParamsAssumption ==
  /\ Settings \cap ({"factory", "nameless", "zero", "spoilt", NoValue} \cup Unwritten) = {}
  /\ NoValue \notin {"factory", "nameless", "zero", "spoilt"} \cup Unwritten

VARIABLES
  stored,  \* the internal storage
  writing, \* its write in progress
  saved,   \* what the last one returned
  backup,  \* the copy of each object in the external flash
  ram,     \* vehicleParams and gprsParams
  stage, cur, after, \* the step, the object and the step after it
  booting, \* sysParamsInit runs in AppTaskCreate, not in Modem_Restart
  provisioned \* the device was given its parameters before it was built in

\* What the internal storage promises while none of its operations fails, so that
\* nothing is spoilt; Eeprom keeps it.
Internal == INSTANCE ObjectStore
              WITH Objects <- ParamIds, Values <- ParamValues, Writers <- Savers,
                   Absent <- NoValue, Spoilt <- "spoilt", result <- saved, faults <- 0

where     == <<stage, cur, after>>
paramVars == <<stored, writing, saved, backup, ram, where, booting, provisioned>>

\* A provisioned device has its objects stored, the copies need not be; a new
\* one has nothing.
ParamsInit ==
  /\ provisioned \in BOOLEAN
  /\ IF provisioned THEN stored \in [ParamIds -> Settings] ELSE stored = [o \in ParamIds |-> NoValue]
  /\ writing = [w \in Savers |-> NoValue] /\ saved = [w \in Savers |-> FALSE]
  /\ backup = [o \in ParamIds |-> "erased"]
  /\ ram = [o \in ParamIds |-> "zero"]
  /\ stage = "read" /\ cur = VEHICLE /\ after = "idle"
  /\ booting = TRUE

Named(v) == v \in Settings \cup {"factory", "partial"}
\* Mutant: the defaults are not set.
DefaultsNone(v) == v
\* sysResetGprs keeps the device ID, sysResetVehicle sets a VIN.
Defaults(v) == IF Named(v) THEN "factory" ELSE "nameless"
\* What STORAGE_FlashParams_ReadData leaves in a buffer that held v.
ReadOver(o, v) ==
  CASE backup[o] = "erased" -> v
    [] backup[o] = "marked" -> "nameless"
    [] OTHER                -> backup[o]
---------------------------------------------------------------------------
GoOn(step) == stage' = step /\ UNCHANGED <<cur, after>>

\* STORAGE_WriteData(o, value), and on at the step next.
WriteInternal(o, value, next) ==
  /\ writing' = [writing EXCEPT !["task"] = [id |-> o, value |-> value]]
  /\ stage' = "internal" /\ cur' = o /\ after' = next
  /\ saved' = [saved EXCEPT !["task"] = FALSE]
  /\ UNCHANGED <<stored, backup>>

\* STORAGE_FlashParams_WriteData of the RAM's value, and on at the step next.
WriteBackup(o, next) ==
  /\ stage' = "erase" /\ cur' = o /\ after' = next
  /\ UNCHANGED <<stored, writing, saved, backup>>

InternalErased ==
  /\ stage = "internal"
  /\ Internal!Lose
  /\ UNCHANGED <<backup, ram, where, booting, provisioned>>

InternalWritten ==
  /\ stage = "internal"
  /\ Internal!Commit("task")
  /\ GoOn(after)
  /\ UNCHANGED <<backup, ram, booting, provisioned>>

\* The sector is erased, the mark written, then the data, page by page.
BackupStep ==
  /\ stage \in {"erase", "mark", "data", "rest"}
  /\ \/ stage = "erase" /\ backup' = [backup EXCEPT ![cur] = "erased"]  /\ GoOn("mark")
     \/ stage = "mark"  /\ backup' = [backup EXCEPT ![cur] = "marked"]  /\ GoOn("data")
     \/ stage = "data"  /\ backup' = [backup EXCEPT ![cur] = "partial"] /\ GoOn("rest")
     \/ stage = "rest"  /\ backup' = [backup EXCEPT ![cur] = ram[cur]]  /\ GoOn(after)
  /\ UNCHANGED <<stored, writing, saved, ram, booting, provisioned>>
---------------------------------------------------------------------------
(* sysParamsInit.                                                          *)

\* STORAGE_ReadData into the RAM.
FromStore(o) == IF stored[o] # NoValue THEN stored[o] ELSE ram[o]

Read ==
  /\ stage = "read"
  /\ ram' = [o \in ParamIds |-> FromStore(o)]
  /\ GoOn("vehicle")
  /\ UNCHANGED <<stored, writing, saved, backup, booting, provisioned>>

\* Mutant: the temporary is looked at before the backup is read.
InitVehicleZero ==
  /\ stage = "vehicle"
  /\ IF stored[VEHICLE] # NoValue /\ Named(ram[VEHICLE])
     THEN WriteBackup(VEHICLE, "gprs") /\ UNCHANGED ram
     ELSE /\ ram' = [ram EXCEPT ![VEHICLE] = "factory"]
          /\ WriteInternal(VEHICLE, "factory", "resetGprs")
  /\ UNCHANGED <<booting, provisioned>>

\* An object that is stored is copied to the backup; otherwise the backup is
\* read into a temporary, and taken from there if it has a VIN.
InitVehicle ==
  LET temp == ReadOver(VEHICLE, "zero") IN
  /\ stage = "vehicle"
  /\ \/ /\ stored[VEHICLE] # NoValue /\ Named(ram[VEHICLE])
        /\ WriteBackup(VEHICLE, "gprs")
        /\ UNCHANGED ram
     \/ /\ ~(stored[VEHICLE] # NoValue /\ Named(ram[VEHICLE])) /\ Named(temp)
        /\ ram' = [ram EXCEPT ![VEHICLE] = temp]
        /\ WriteInternal(VEHICLE, temp, "gprs")
     \/ /\ ~(stored[VEHICLE] # NoValue /\ Named(ram[VEHICLE])) /\ ~Named(temp)
        /\ ram' = [ram EXCEPT ![VEHICLE] = "factory"]
        /\ WriteInternal(VEHICLE, "factory", "resetGprs")
  /\ UNCHANGED <<booting, provisioned>>

\* sysResetGprs, the second half of sysParamsReset.
ResetGprs ==
  /\ stage = "resetGprs"
  /\ ram' = [ram EXCEPT ![GPRS] = Defaults(ram[GPRS])]
  /\ WriteInternal(GPRS, Defaults(ram[GPRS]), "gprs")
  /\ UNCHANGED <<booting, provisioned>>

AfterInit == IF booting THEN "saveVehicle" ELSE "idle"

\* Here the backup is read into gprsParams itself, and it is the temporary,
\* still zero, whose device ID is looked at: the defaults are always taken.
InitGprs ==
  LET reset == Defaults(ReadOver(GPRS, ram[GPRS])) IN
  /\ stage = "gprs"
  /\ \/ /\ stored[GPRS] # NoValue /\ Named(ram[GPRS])
        /\ WriteBackup(GPRS, AfterInit)
        /\ UNCHANGED ram
     \/ /\ ~(stored[GPRS] # NoValue /\ Named(ram[GPRS]))
        /\ ram' = [ram EXCEPT ![GPRS] = reset]
        /\ WriteInternal(GPRS, reset, AfterInit)
  /\ UNCHANGED <<booting, provisioned>>
---------------------------------------------------------------------------
(* sysParamsSave: both objects, then both backups.                         *)

\* Mutant: the backup of the vehicle's object is begun while the object itself
\* is not yet written.
SaveInternalTogether ==
  /\ \/ /\ stage = "saveVehicle"
        /\ backup' = [backup EXCEPT ![VEHICLE] = "erased"]
        /\ writing' = [writing EXCEPT !["task"] = [id |-> VEHICLE, value |-> ram[VEHICLE]]]
        /\ stage' = "internal" /\ cur' = VEHICLE /\ after' = "saveGprs"
        /\ UNCHANGED <<stored, saved>>
     \/ stage = "saveGprs" /\ WriteInternal(GPRS, ram[GPRS], "backupGprs")
  /\ UNCHANGED <<ram, booting, provisioned>>

SaveInternal ==
  /\ \/ stage = "saveVehicle" /\ WriteInternal(VEHICLE, ram[VEHICLE], "saveGprs")
     \/ stage = "saveGprs"    /\ WriteInternal(GPRS, ram[GPRS], "backupGprs")
  /\ UNCHANGED <<ram, booting, provisioned>>

SaveBackup ==
  /\ \/ stage = "backupGprs"    /\ WriteBackup(GPRS, "backupVehicle")
     \/ stage = "backupVehicle" /\ WriteBackup(VEHICLE, "idle")
     \/ stage = "backupChanged" /\ WriteBackup(cur, "idle")
  /\ UNCHANGED <<ram, booting, provisioned>>

sysParamsSave ==
  /\ stage = "idle"
  /\ GoOn("saveVehicle")
  /\ UNCHANGED <<stored, writing, saved, backup, ram, booting, provisioned>>

\* Modem_Restart reads the parameters again.
Restart ==
  /\ stage = "idle"
  /\ GoOn("read")
  /\ booting' = FALSE
  /\ UNCHANGED <<stored, writing, saved, backup, ram, provisioned>>

\* A login reads both objects and saves the vehicle's, with its serial number.
Login ==
  /\ stage = "idle"
  /\ \E v \in Settings :
       /\ ram' = [ram EXCEPT ![VEHICLE] = v, ![GPRS] = FromStore(GPRS)]
       /\ WriteInternal(VEHICLE, v, "idle")
  /\ UNCHANGED <<booting, provisioned>>

\* A command of the shell sets an object and saves it; some save its backup.
Command ==
  /\ stage = "idle"
  /\ \E o \in ParamIds, v \in Settings, next \in {"idle", "backupChanged"} :
       /\ ram' = [ram EXCEPT ![o] = v]
       /\ WriteInternal(o, v, next)
  /\ UNCHANGED <<booting, provisioned>>
---------------------------------------------------------------------------
\* The supply fails, and the terminal starts again.
PowerFails ==
  /\ Internal!Reset
  /\ ram' = [o \in ParamIds |-> "zero"]
  /\ stage' = "read" /\ cur' = VEHICLE /\ after' = "idle"
  /\ booting' = TRUE
  /\ UNCHANGED <<backup, provisioned>>

Step ==
  \/ InternalErased \/ InternalWritten \/ BackupStep
  \/ Read \/ InitVehicle \/ ResetGprs \/ InitGprs
  \/ SaveInternal \/ SaveBackup

ParamsNext == Step \/ sysParamsSave \/ Restart \/ Login \/ Command \/ PowerFails

ParamsSpec == ParamsInit /\ [][ParamsNext]_paramVars
---------------------------------------------------------------------------
\* The types.
TypeOK ==
  /\ stored \in [ParamIds -> ParamValues \cup {NoValue}]
  /\ writing \in [Savers -> [id : ParamIds, value : ParamValues] \cup {NoValue}]
  /\ saved \in [Savers -> BOOLEAN]
  /\ backup \in [ParamIds -> ParamValues \cup Unwritten]
  /\ ram \in [ParamIds -> ParamValues \cup {"zero"}]
  /\ stage \in {"read", "vehicle", "resetGprs", "gprs", "internal", "erase", "mark", "data", "rest",
             "saveVehicle", "saveGprs", "backupGprs", "backupVehicle", "backupChanged", "idle"}
  /\ cur \in ParamIds
  /\ after \in {"gprs", "resetGprs", "saveVehicle", "saveGprs", "backupGprs", "backupVehicle",
              "backupChanged", "idle"}
  /\ booting \in BOOLEAN /\ provisioned \in BOOLEAN

\* From start-up on a provisioned terminal works with vehicle parameters that
\* were set, however often the supply failed, at whatever step of saving them.
VehicleKept ==
  provisioned /\ stage \notin {"read", "vehicle"} => ram[VEHICLE] \in Settings

\* One whole copy of the vehicle's parameters is there at any time.
OneGoodCopy ==
  provisioned => stored[VEHICLE] \in Settings \/ backup[VEHICLE] \in Settings
=============================================================================
