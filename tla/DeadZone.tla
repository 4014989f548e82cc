------------------------------ MODULE DeadZone ------------------------------
(***************************************************************************)
(* The store of the records taken while the terminal has no connection (a  *)
(* dead zone), and their upload after it: DeadData_Strorage,               *)
(* DeadDataUpload_FromFlash and the part of tzWorker_DoTasks between them  *)
(* (gb_gprs_protocol.c), over the ring and the saved configuration in the  *)
(* external flash (w25qxx_port.c).                                         *)
(*                                                                         *)
(* Flash, kept over a reset: Buff, the blocks of the ring, and config, the *)
(* sector with the saved copy of the ring's fields.  Everything else is    *)
(* RAM.  A record is the number of its store, so a later one is greater.   *)
(*                                                                         *)
(* tzWorker_DoTasks, the upload and the real-time data run one after       *)
(* another in the 10 ms timer task, whose priority is above that of the    *)
(* tasks that stop and restart the modem: their handlers are one step      *)
(* each, except that DoTasks is cut where it leaves the flash half written *)
(* (pc), because a reset may come there.                                   *)
(*                                                                         *)
(* The level-3 alarm (Alarm_AtDeadtime), which only a shell command can    *)
(* start, is left out.  A sleep with its wake-up is one step; LowPower has *)
(* what goes on in it.                                                     *)
(***************************************************************************)
EXTENDS Fifo

CONSTANTS MaxRecords,          \* bound: records stored
          REISSUEDATA_COUNT,   \* DoTasks runs per stored record: 10
          SectorRecords,       \* blocks of the ring in a flash sector: 6
          MaxResets,           \* bound: resets and sleeps
          Erased, MarkOnly     \* the configuration sector: blank, or with its
                               \* mark written and its fields reading as 0xFF

(* FIFO_FLASH_TYPE, in RAM and in the saved configuration. *)
Fields == [head : Places, tail : Places, counter : 0 .. Depth,
           reissue : BOOLEAN, finish : BOOLEAN]

ASSUME DeadZoneAssumption ==
  /\ MaxRecords \in Nat /\ MaxResets \in Nat
  /\ Records = 1 .. MaxRecords
  /\ REISSUEDATA_COUNT \in Nat \ {0}
  /\ SectorRecords \in Nat \ {0}
  /\ Erased # MarkOnly /\ Erased \notin Fields /\ MarkOnly \notin Fields

VARIABLES
  config,           \* the saved configuration
  offsetdata,       \* 0x8080: the ring holds records to reissue
  IsFinishSend,
  unread,           \* DeadData_FlashConfig = -1
  DeadData_Sem,
  IsDeadZone,       \* IsDeadZone_Network = PROC_SYSTEM_REISSUEDATA_STORAGE
  tmrDeadData,      \* the upload is subscribed
  tmrRealData,      \* the real-time data are subscribed
  Reissue_Counter,
  flashbuf_2index,
  sys_status,       \* LOGIN stands for LOGOUT_ACK, too
  pc,               \* where DoTasks stands
  WriteBuffer,      \* SPI_FLASH_WriteBuffer: the sector being rewritten
  stored,           \* records stored so far, the newest one's number
  sent,             \* how often each record went to an open socket
  torn,             \* a reset came between a block and its configuration
  slept,            \* woken from a sleep, and not connected since
  resets            \* and sleeps, for the bound

ram == <<head, tail, counter, offsetdata, IsFinishSend, unread, DeadData_Sem,
         IsDeadZone, tmrDeadData, tmrRealData, Reissue_Counter,
         flashbuf_2index, sys_status, pc, WriteBuffer>>
vars == <<ram, Buff, config, stored, sent, torn, slept, resets>>

Connected == sys_status \in {"LOGIN", "LOGIN_ACK"}

(* The fields of the ring in RAM, and what FIFO_flash_init makes of them. *)
RingFields == [head |-> head, tail |-> tail, counter |-> counter,
               reissue |-> offsetdata, finish |-> IsFinishSend]
EmptyRing == [head |-> 0, tail |-> 0, counter |-> 0,
              reissue |-> FALSE, finish |-> FALSE]

Blank == [i \in Places |-> NoRecord]

Becomes(ring) == /\ head' = ring.head /\ tail' = ring.tail
                 /\ counter' = ring.counter
                 /\ offsetdata' = ring.reissue /\ IsFinishSend' = ring.finish

(***************************************************************************)
(* Power-up: App_tmrStart empties the ring in RAM (FIFO_flash_init) and    *)
(* sysParamsInit marks the saved configuration as not read yet.  No dead   *)
(* zone is known until the modem is stopped.                               *)
(***************************************************************************)
Init ==
  /\ FIFO_Init /\ offsetdata = FALSE /\ IsFinishSend = FALSE
  /\ unread = TRUE /\ DeadData_Sem = FALSE
  /\ IsDeadZone = FALSE /\ tmrDeadData = FALSE /\ tmrRealData = FALSE
  /\ Reissue_Counter = 0 /\ flashbuf_2index = 1
  /\ sys_status = "INIT" /\ pc = "idle"
  /\ WriteBuffer = Blank
  /\ Buff = Blank
  /\ config = Erased
  /\ stored = 0 /\ sent = [r \in Records |-> 0] /\ torn = FALSE /\ resets = 0
  /\ slept = FALSE
-----------------------------------------------------------------------------
(* tzWorker_DoTasks, every second: storing while in a dead zone.           *)

Sector(i) == {j \in Places : j \div SectorRecords = i \div SectorRecords}

(***************************************************************************)
(* The end of FIFO_flash_AddOne over the given blocks, behind the          *)
(* FIFO_flash_GetOne that makes room in a full ring.                       *)
(***************************************************************************)
PlacedNoRoom(blocks) ==
  /\ Buff' = [blocks EXCEPT ![tail] = stored + 1]
  /\ tail' = Following(tail)
  /\ counter' = IF FIFO_IsFull THEN counter ELSE counter + 1
  /\ offsetdata' = TRUE
  /\ stored' = stored + 1
  /\ UNCHANGED head

Placed(blocks) ==
  /\ Buff' = [blocks EXCEPT ![tail] = stored + 1]
  /\ tail' = Following(tail)
  /\ head' = IF FIFO_IsFull THEN Following(head) ELSE head
  /\ counter' = IF FIFO_IsFull THEN counter ELSE counter + 1
  /\ offsetdata' = TRUE
  /\ stored' = stored + 1

(* Every REISSUEDATA_COUNT-th run stores a record; the others only count.  *)
DoTasksCounts ==
  /\ pc = "idle"
  /\ IsDeadZone => Reissue_Counter + 1 < REISSUEDATA_COUNT
  /\ Reissue_Counter' = IF IsDeadZone THEN Reissue_Counter + 1 ELSE Reissue_Counter
  /\ pc' = "rest"
  /\ UNCHANGED <<fifo, offsetdata, IsFinishSend, unread, DeadData_Sem, IsDeadZone,
                 tmrDeadData, tmrRealData, flashbuf_2index, sys_status, WriteBuffer,
                 config, stored, sent, torn, slept, resets>>

StoreBegins ==
  /\ pc = "idle" /\ IsDeadZone
  /\ Reissue_Counter + 1 >= REISSUEDATA_COUNT
  /\ Reissue_Counter' = 0
  /\ UNCHANGED <<unread, DeadData_Sem, IsDeadZone, tmrDeadData, tmrRealData,
                 flashbuf_2index, sys_status, config, sent, torn, slept, resets>>

(* No buffer for the record (data_pack_head): nothing is stored, the       *)
(* configuration is saved all the same.                                    *)
StoreFails ==
  /\ StoreBegins
  /\ IsFinishSend' = FALSE /\ pc' = "erase"
  /\ UNCHANGED <<fifo, offsetdata, WriteBuffer, stored>>

(* A block that was never written is programmed as it is. *)
StoreInBlank ==
  /\ StoreBegins /\ stored < MaxRecords
  /\ Buff[tail] = NoRecord
  /\ Placed(Buff)
  /\ IsFinishSend' = FALSE /\ pc' = "erase"
  /\ UNCHANGED WriteBuffer

(***************************************************************************)
(* A block that holds an old record is rewritten with its whole sector     *)
(* (SPI_FLASH_AutoWritePage): read, erase, and program the sector.         *)
(***************************************************************************)
EraseSector ==
  /\ StoreBegins /\ stored < MaxRecords
  /\ Buff[tail] # NoRecord
  /\ WriteBuffer' = Buff
  /\ Buff' = [i \in Places |-> IF i \in Sector(tail) THEN NoRecord ELSE Buff[i]]
  /\ pc' = "program"
  /\ UNCHANGED <<head, tail, counter, offsetdata, IsFinishSend, stored>>

(* A bug: the block is written, its neighbours in the sector are not. *)
ProgramAlone ==
  /\ pc = "program"
  /\ Placed(Buff)
  /\ WriteBuffer' = Blank
  /\ IsFinishSend' = FALSE /\ pc' = "erase"
  /\ UNCHANGED <<unread, DeadData_Sem, IsDeadZone, tmrDeadData, tmrRealData,
                 Reissue_Counter, flashbuf_2index, sys_status,
                 config, sent, torn, slept, resets>>

(* The sector buffer is filled anew before it is used again. *)
ProgramSector ==
  /\ pc = "program"
  /\ Placed(WriteBuffer)
  /\ WriteBuffer' = Blank
  /\ IsFinishSend' = FALSE /\ pc' = "erase"
  /\ UNCHANGED <<unread, DeadData_Sem, IsDeadZone, tmrDeadData, tmrRealData,
                 Reissue_Counter, flashbuf_2index, sys_status,
                 config, sent, torn, slept, resets>>

(***************************************************************************)
(* FIFO_FLASH_OffsetDataConfig_Write: erase the sector, write the mark,    *)
(* write the fields.                                                       *)
(***************************************************************************)
SaveConfig ==
  /\ pc \in {"erase", "mark", "fields"}
  /\ config' = CASE pc = "erase" -> Erased
                 [] pc = "mark"  -> MarkOnly
                 [] OTHER        -> RingFields
  /\ pc' = CASE pc = "erase" -> "mark"
             [] pc = "mark"  -> "fields"
             [] OTHER        -> "rest"
  /\ UNCHANGED <<fifo, offsetdata, IsFinishSend, unread, DeadData_Sem, IsDeadZone,
                 tmrDeadData, tmrRealData, Reissue_Counter, flashbuf_2index,
                 sys_status, WriteBuffer, stored, sent, torn, slept, resets>>
-----------------------------------------------------------------------------
(* tzWorker_DoTasks: read the configuration, start and end the upload.     *)

Reads == unread /\ DeadData_Sem

(* FIFO_FLASH_OffsetDataConfig_Read leaves RAM alone without the mark; the *)
(* 0xFF behind a lone mark are not 0x8080, and the ring is emptied.        *)
ReadBackEmpties ==
  IF ~Reads THEN RingFields
  ELSE IF config \in {Erased, MarkOnly} THEN EmptyRing ELSE config

ReadBack ==
  CASE ~Reads \/ config = Erased -> RingFields
    [] Reads /\ config = MarkOnly -> EmptyRing
    [] OTHER -> config

Loaded == IF Reads /\ ~ReadBack.reissue THEN EmptyRing ELSE ReadBack

Reissues == Reads /\ ReadBack.reissue

Uploading == tmrDeadData \/ Reissues

Finished == Uploading /\ Loaded.reissue /\ Loaded.finish

(* A bug: the configuration is not cleared when the upload starts. *)
DoTasksRestKeepsConfig ==
  /\ pc = "rest" /\ pc' = "idle"
  /\ unread' = (unread /\ ~DeadData_Sem)
  /\ DeadData_Sem' = (DeadData_Sem /\ ~unread)
  /\ Becomes(IF Finished THEN EmptyRing ELSE Loaded)
  /\ tmrDeadData' = (Uploading /\ ~Finished /\ ~IsDeadZone)
  /\ tmrRealData' = (sys_status = "LOGIN_ACK")
  /\ UNCHANGED <<Buff, config, IsDeadZone, Reissue_Counter, flashbuf_2index, sys_status,
                 WriteBuffer, stored, sent, torn, slept, resets>>

DoTasksRest ==
  /\ pc = "rest" /\ pc' = "idle"
  /\ unread' = (unread /\ ~DeadData_Sem)
  /\ DeadData_Sem' = (DeadData_Sem /\ ~unread)
  /\ Becomes(IF Finished THEN EmptyRing ELSE Loaded)
  /\ config' = IF Reissues THEN Erased ELSE config
  /\ tmrDeadData' = (Uploading /\ ~Finished /\ ~IsDeadZone)
  /\ tmrRealData' = (sys_status = "LOGIN_ACK")
  /\ UNCHANGED <<Buff, IsDeadZone, Reissue_Counter, flashbuf_2index, sys_status,
                 WriteBuffer, stored, sent, torn, slept, resets>>
-----------------------------------------------------------------------------
(* DeadDataUpload_FromFlash, every 3 s.  The socket's refusal of a record  *)
(* is not looked at.                                                       *)

UploadOne ==
  /\ pc = "idle" /\ tmrDeadData
  /\ FIFO_GetOne
  /\ sent' = IF Connected /\ Buff[head] \in Records
             THEN [sent EXCEPT ![Buff[head]] = @ + 1] ELSE sent
  /\ UNCHANGED <<offsetdata, IsFinishSend, unread, DeadData_Sem, IsDeadZone,
                 tmrDeadData, tmrRealData, Reissue_Counter, flashbuf_2index,
                 sys_status, pc, WriteBuffer, config, stored, torn, slept, resets>>

(* One more copy of the last record, with a later time stamp (it is not a  *)
(* record of the ring), and then the end of the upload.                    *)
UploadEnds ==
  /\ pc = "idle" /\ tmrDeadData
  /\ FIFO_IsEmpty
  /\ IF flashbuf_2index > 0
     THEN flashbuf_2index' = flashbuf_2index - 1 /\ UNCHANGED IsFinishSend
     ELSE flashbuf_2index' = 1 /\ IsFinishSend' = TRUE
  /\ UNCHANGED <<fifo, offsetdata, unread, DeadData_Sem, IsDeadZone, tmrDeadData,
                 tmrRealData, Reissue_Counter, sys_status, pc, WriteBuffer,
                 config, stored, sent, torn, slept, resets>>

(* TmrRealDataHdlr: once real-time data went out, dead-zone data may. *)
RealDataTick ==
  /\ pc = "idle" /\ tmrRealData /\ ~DeadData_Sem
  /\ DeadData_Sem' = TRUE
  /\ UNCHANGED <<fifo, offsetdata, IsFinishSend, unread, IsDeadZone, tmrDeadData,
                 tmrRealData, Reissue_Counter, flashbuf_2index, sys_status, pc,
                 WriteBuffer, config, stored, sent, torn, slept, resets>>
-----------------------------------------------------------------------------
(* The connection, from the tasks below the 10 ms task.                    *)

ring == <<fifo, offsetdata, IsFinishSend, tmrDeadData, Reissue_Counter,
          flashbuf_2index, pc, WriteBuffer, config, stored, sent, torn>>

(* Modem_Stop(PROC_SYSTEM_REISSUEDATA_STORAGE): NO CARRIER, heartbeat. *)
ModemStop ==
  /\ pc = "idle" /\ sys_status # "STORAGE"
  /\ sys_status' = "STORAGE" /\ IsDeadZone' = TRUE
  /\ UNCHANGED <<ring, tmrRealData, slept, resets, unread, DeadData_Sem>>

(* A bug: the modem restarts without DeadData_FlashConfigInit. *)
ModemRestartOnly ==
  /\ pc = "idle" /\ sys_status = "STORAGE" /\ ~tmrRealData
  /\ sys_status' = "INIT"
  /\ UNCHANGED <<ring, tmrRealData, slept, resets, IsDeadZone, unread, DeadData_Sem>>

(***************************************************************************)
(* Modem_Restart, 2 s after the stop: DoTasks, which runs every second,    *)
(* has unsubscribed the real-time data by then.  One step: that the status *)
(* is the timer's number until sysParamsInit corrects it is shown by Link. *)
(***************************************************************************)
ModemRestart ==
  /\ pc = "idle" /\ sys_status = "STORAGE" /\ ~tmrRealData
  /\ sys_status' = "INIT"
  /\ unread' = TRUE /\ DeadData_Sem' = FALSE
  /\ UNCHANGED <<ring, tmrRealData, slept, resets, IsDeadZone>>

(* XMIT_Connect: the client is created, login() is sent, storing ends. *)
Connect ==
  /\ pc = "idle" /\ sys_status = "INIT"
  /\ sys_status' = "LOGIN" /\ IsDeadZone' = FALSE /\ slept' = FALSE
  /\ UNCHANGED <<ring, tmrRealData, resets, unread, DeadData_Sem>>

(* Gprs_ProtocolDataDecode: the login is acknowledged. *)
LoginAck ==
  /\ pc = "idle" /\ sys_status = "LOGIN"
  /\ sys_status' = "LOGIN_ACK"
  /\ UNCHANGED <<ring, tmrRealData, slept, resets, IsDeadZone, unread, DeadData_Sem>>

(***************************************************************************)
(* A logout whose sleep is called off.  SLEEP_Delay ends the real-time     *)
(* data before it looks at the ignition; an answer to the logout leaves    *)
(* the client open and the terminal not logged in, as in LOGIN, which      *)
(* stands for PROC_SYSTEM_LOGOUT_ACK, too.                                 *)
(***************************************************************************)
SleepCalledOff ==
  /\ pc = "idle" /\ sys_status \in {"LOGIN", "LOGIN_ACK"}
  /\ resets < MaxResets /\ resets' = resets + 1
  /\ tmrRealData' = FALSE
  /\ sys_status' \in {sys_status, "LOGIN"}
  /\ UNCHANGED <<ring, slept, IsDeadZone, unread, DeadData_Sem>>

(***************************************************************************)
(* A sleep and the wake-up from it, in one step: every task is suspended   *)
(* in between.  SLEEP_Delay ends the real-time data and closes the client; *)
(* the upload stays subscribed.                                            *)
(***************************************************************************)
SleepWake ==
  /\ pc = "idle"
  /\ resets < MaxResets /\ resets' = resets + 1
  /\ tmrRealData' = FALSE
  /\ sys_status' = "INIT"
  /\ unread' = TRUE /\ DeadData_Sem' = FALSE
  /\ slept' = TRUE
  /\ UNCHANGED <<ring, IsDeadZone>>

(* System_Reset, the watchdog or the supply, at any point. *)
Reset ==
  /\ resets < MaxResets
  /\ Becomes(EmptyRing)
  /\ unread' = TRUE /\ DeadData_Sem' = FALSE
  /\ IsDeadZone' = FALSE /\ tmrDeadData' = FALSE /\ tmrRealData' = FALSE
  /\ Reissue_Counter' = 0 /\ flashbuf_2index' = 1
  /\ sys_status' = "INIT" /\ pc' = "idle"
  /\ WriteBuffer' = Blank
  /\ torn' = (torn \/ pc \in {"program", "erase"}) /\ slept' = FALSE
  /\ resets' = resets + 1
  /\ UNCHANGED <<Buff, config, stored, sent>>

DoTasks == \/ DoTasksCounts \/ StoreFails \/ StoreInBlank \/ EraseSector
           \/ ProgramSector \/ SaveConfig \/ DoTasksRest

Next == \/ DoTasks \/ UploadOne \/ UploadEnds \/ RealDataTick
        \/ ModemStop \/ ModemRestart \/ Connect \/ LoginAck
        \/ SleepCalledOff \/ SleepWake \/ Reset

Spec == Init /\ [][Next]_vars

(***************************************************************************)
(* The three handlers are periodic timers of one task: each comes again    *)
(* and again between the others, hence the strong fairness of the two that *)
(* wait for DoTasks to be over.                                            *)
(***************************************************************************)
FairSpec == /\ Spec
            /\ WF_vars(DoTasks) /\ SF_vars(RealDataTick)
            /\ SF_vars(UploadOne \/ UploadEnds)
-----------------------------------------------------------------------------
FieldsAgree(f) == f.tail = At(f.head, f.counter + 1)

FlagsOK ==
  /\ unread \in BOOLEAN /\ DeadData_Sem \in BOOLEAN /\ IsDeadZone \in BOOLEAN
  /\ tmrDeadData \in BOOLEAN /\ tmrRealData \in BOOLEAN
  /\ torn \in BOOLEAN /\ slept \in BOOLEAN

(***************************************************************************)
(* The types, and the agreement of the three index fields, in RAM and in a *)
(* saved copy, through full rings, uploads, resets and half-written        *)
(* configurations.                                                         *)
(***************************************************************************)
TypeOK ==
  /\ Buff \in [Places -> Records \cup {NoRecord}]
  /\ RingFields \in Fields /\ FieldsAgree(RingFields)
  /\ config \in Fields \cup {Erased, MarkOnly}
  /\ config \in Fields => FieldsAgree(config) /\ ~config.finish
  /\ FlagsOK
  /\ Reissue_Counter \in 0 .. REISSUEDATA_COUNT - 1
  /\ flashbuf_2index \in 0 .. 1
  /\ sys_status \in {"INIT", "LOGIN", "LOGIN_ACK", "STORAGE"}
  /\ pc \in {"idle", "program", "erase", "mark", "fields", "rest"}
  /\ WriteBuffer \in [Places -> Records \cup {NoRecord}]
  /\ stored \in 0 .. MaxRecords /\ resets \in 0 .. MaxResets
  /\ sent \in [Records -> Nat]

(***************************************************************************)
(* No record is uploaded twice, whatever resets come: the saved            *)
(* configuration is cleared before the first record of it goes out.        *)
(***************************************************************************)
SentAtMostOnce == \A r \in Records : sent[r] <= 1

InRing(f) == {Buff[At(f.head, k)] : k \in 1 .. f.counter}
InConfig == IF config \in Fields /\ config.reissue THEN InRing(config) ELSE {}

(***************************************************************************)
(* What the upload takes from the flash is a record, and records go out in *)
(* the order they were stored; only a reset that came while a block was    *)
(* written ahead of its configuration can spoil that.                      *)
(***************************************************************************)
SentInOrder ==
  [][UploadOne /\ ~torn =>
       /\ Buff[head] \in Records
       /\ \A r \in Records : r >= Buff[head] => sent[r] = 0]_vars

(* The records that the terminal can still come back to. *)
Waiting == (InRing(RingFields) \cup InConfig) \cap Records

(***************************************************************************)
(* Reconnecting, reading the configuration back, ending an upload and      *)
(* saving the configuration lose no stored record: a record stops waiting  *)
(* only when it is uploaded, when a newer one is stored over it, or in a   *)
(* reset that cuts DoTasks or finds no saved configuration.  (There is     *)
(* none from the start of an upload on, where the code clears it; a        *)
(* comment would have it cleared after the end.)  The upload does not see  *)
(* whether its record was sent: without a client it may take one only in   *)
(* the first second of a dead zone or after a wake-up (slept).             *)
(***************************************************************************)
KeepsWaiting ==
  [][(UploadOne /\ (Connected \/ IsDeadZone \/ slept))
       \/ StoreInBlank \/ EraseSector \/ ProgramSector
       \/ (SaveConfig /\ unread) \/ (Reset /\ (config = Erased \/ pc # "idle"))
     \/ Waiting \subseteq Waiting']_vars

(* Once the terminal stays logged in, every record it holds goes out. *)
Drains == <>[](sys_status = "LOGIN_ACK") => <>[](Waiting = {})
=============================================================================
