# Verification of the vehicle telematics terminal

TLA+ models, TLC runs and TLAPS proofs for the firmware of this repository: a
terminal on an STM32F4 that collects vehicle data over CAN and reports them
over GSM and TCP to a monitoring centre, in the GB/T 32960 protocol. It runs
on uC/OS-II; paths below are relative to `src/`.

## 1. Inventory

### Tasks

| Task | Priority (`User/app_cfg.h:46`) | What it runs |
|---|---|---|
| start | 2 | watchdog counters (`app.c`) |
| TMR_1MS, TMR_10MS, TMR_100MS | 4, 5, 10 | the handlers of the software timers of their tick |
| USART_RX | 6 | receive buffers of the ports, starts works |
| CANREC | 8 | CAN frames |
| WORKER | 12 | the work queue: modem, lwIP, PPP, the protocol decoder |

The kernel is preemptive: a task runs only while every task of a smaller
number waits, and may be cut off after any instruction by one of those. There
is no message passing between the tasks: they share variables, and protect some
of the accesses with `OS_ENTER_CRITICAL`.

### Components

| Component | State it keeps | Operations | Correct when |
|---|---|---|---|
| Shared buffers, `User/protocol/buffer_helper.c` | `shareBitMap`, `shareLeftNbr`, `shareLenRecorder` | `SHABUF_GetBuffer`, `SHABUF_FreeBuffer` | no byte has two users, none is lost |
| Software timers, `TZ_LIB/tz_std_drv_port/tiza_timer_port.c` | `Timer` (12 slots), a counter per tick | `TMR_Subscribe`, `TMR_UnSubscribe`, three updates | a timer fires on its tick, none is skipped, no handle cancels a stranger |
| Work queue, `TZ_LIB/tz_std_drv_port/worker.c` | slots, `wqUsedNumber`, `wqAllocaIdx`, a semaphore | `WORKER_StartupWork`, `WORKER_DoWorks` | what was started runs, once; nobody waits for ever |
| Record rings, `FIFO_*`, `FIFO_flash_*` | `Head`, `Tail`, `Counter` | AddOne, GetOne, Clear | a queue that drops its oldest record |
| Dead-zone store, `Module/GB32960/gb_gprs_protocol.c` | the ring in flash, its saved configuration, upload state | store, save, read back, upload | stored records go out in the end, in order, once, over resets |
| Connection supervision, `gb_gprs_protocol.c`, `xmit_manager.c`, `low_power_proc.c`, `GSM_xx.c` | `sys_status`, `serversocket`, the two timeout counts, `RealData_Handler` | `tzWorker_DoTasks`, `Modem_Stop`, `Modem_Restart`, `XMIT_Connect`, `XMIT_Stop` | the modem is never left off; a terminal without a link does not stay so |
| Protocol | message buffers, parameters | packing, decoding, settings | answers fit the questions |
| Low power, `TZ_LIB/low_power` | the ignition count, the sleep timer, `RtcTimeStart` | monitor, logout, suspension, STOP mode, wake-up | wakes up again, leaves no modem off |
| Firmware upgrade, `User/protocol/tiza_gprs_protocol.c`, `ftpclient.c`, `tiza_upgrade.c` | session, data count, pages written, upgrade configuration | command, answers, data, no-response timer, installation | the image to boot is the file |
| Modem and AT layer, `Module/gsm` | command list, step, retries | send, answer, timeout | no command is lost or answered twice |
| lwIP glue, `wip_tcp.c`, `wip_init.c`, `lwip_sys_arch.c` | channel table, PPP state | create, destroy, callbacks | a channel belongs to one client |
| USART receive, `tiza_usart_port.c` | two half buffers and their counts, a time-out count | interrupt, `USART_LowLevelDataProcess`, `USART_DataDigestHandler` | bytes reach the modem layer, in order, once |
| Parameter storage, `tiza_flash_eeprom_port.c` over `tiza_flash_eeprom.c` | pages of the internal flash, a table of objects | start-up scan, `FLASH_WriteData`, `FLASH_EraseObject`, format | an object survives a reset; a write touches no other |
| Parameters, `TZ_LIB/tiza_params.c` | `vehicleParams`, `gprsParams`, a stored and a backup copy of each | `sysParamsInit`, `sysParamsSave`, `sysParamsReset` | what was set is never lost |
| Start-up and watchdog, `app.c` | counters | idle hook, start task | a stuck terminal is reset |

How they interact: the timer tasks call the handlers of the other components
(`tzWorker_DoTasks` once a second, real-time data, the upload, `Modem_Restart`);
handlers and the USART task start works; the worker feeds the modem's bytes to
PPP and TCP, whose callbacks reach the decoder and `XMIT_Connect`. All messages,
and lwIP's heap (`mem_malloc`), come out of the shared buffers. The flash ring,
its configuration, the stored parameters with their backups, and the upgrade
configuration with the image are all of this that outlives a reset.

What is hard: tables changed by three tasks with the search outside the critical
section; handlers that subscribe and cancel timers while the walk that called
them is on the way; a status variable written by four tasks; flash written in
several steps with a reset possible between any two; retries guarded by handles
that go stale. The list with lines is in `PROJECT.json` under `hazards`.

Third-party code (`uCOS-II`, `Libraries`, the lwIP core, FatFs, nmeap) is not
modelled; uC/OS-II enters as the priorities and semaphores that the models
assume. `rexmit_strategy.c` has no caller any more.

## 2. Modules

| Module | Models | Proofs |
|---|---|---|
| `BufferPool` | what an allocator promises: segments with one owner each | |
| `ShareBuffer` | `buffer_helper.c` and its three kinds of callers | `ShareBuffer_proofs` |
| `SoftTimer` | the timer table, its three walks, preemption | `SoftTimer_proofs` |
| `WorkQueue` | starters and the worker, preempted at every point | `WorkQueue_proofs` |
| `BoundedQueue` | a queue that drops its oldest record when full | |
| `Fifo` | the ring of records, in RAM and in flash | `DeadZone_proofs` |
| `DeadZone` | storing, saving, reading back, uploading; resets and sleeps | `DeadZone_proofs` |
| `Link` | the supervision of the connection | `LowPower_proofs` |
| `LowPower` | the sleep: monitor, logout, suspension, idle hook, wake-up; around `Link` | `LowPower_proofs` |
| `UsartRx` | the interrupt, the two halves, the digest in the worker task | `UsartRx_proofs` |
| `ObjectStore` | what a store of objects promises over resets and failing writes | |
| `Eeprom` | the pages of the internal flash, one flash operation a step | `Storage_proofs` |
| `Params` | the two parameter objects, their backups, start-up and saves | `Storage_proofs` |
| `FtpUpgrade` | command, FTP session, channel table, no-response timer, installation | `FtpUpgrade_proofs` |

`ShareBuffer` refines `BufferPool` (property `PoolRefined`), `Fifo` refines
`BoundedQueue` (`QueueRefined`), and `DeadZone` is built over `Fifo`. `Eeprom`
refines `ObjectStore` (`StoreRefined`), over which `Params` is built in turn: what
`Eeprom` does in a score of flash operations is there the begin, the loss, the commit or the failure of a write, or a stutter. `LowPower`
composes the sleep with `Link`: it extends it, and each of its steps is a step of
one of the two that says what becomes of the other. `Link` and `DeadZone` describe
the same stops, restarts and connections, one from the side of the timeouts, the
other from the side of the records. `MC*` modules hold the small instances
(`MCLink` that of `LowPower`).

### How the code is represented

*ShareBuffer.* A client is a place of the code that keeps a pointer. A static
client (`login`) looks whether it has a buffer and reuses it; a pack client
(`data_pack_head`) acquires without looking; a local client (`mem_malloc`) drops
its pointer after the free whether or not that was refused. `Bits` are the
segments the 32-bit word has a bit for; `Segs` the 64 there are. `BestFit` is
the meaning of the search, `Scan` the loop as it is written (`ScanStart`, then
`ScanSegment` for each segment in turn). Calls are whole
steps: allocation and release run in critical sections.

*SoftTimer.* `pc[ty]` is where the task of one tick stands: waiting for its
semaphore, at slot `at[ty]` of the walk, in a handler, or between the search and
the critical section of `TMR_Subscribe` or `TMR_UnSubscribe` (`fill`, `clear`).
A task takes a step only when all tasks above it wait (`CanRun`). Counters are
bytes (`U8`). A *user* is a handler with the static variable that keeps its
timer; the task that subscribes and cancels it (`Owner`) need not be the one that
runs it (`TypeOf`), and the users of `Boot` have subscribed before any task ran. Every
test and every write of a walk is a step (`visit`, `count`, `down`, `due`, `reload`,
`expire`, `call`, `enter`, `handler`), so that a task above may come between any two. Two
reads share a step, those of identifier and type (`:574`): a cancellation leaves the
type as it is, and a new timer in the slot between the two reads is one before both. A
handler that was cleared between its test and its call (`:598`, `:600`) is a call of
NULL, which ends in the hard fault's loop and a reset (`CallNull`). `raced`
becomes true

* when a task fills a slot that another one has searched out and not yet filled
  (`:123`), or that a walk is in the middle of, as that of an expired one-shot
  whose handler is still to be called (`:598`) (`Taken`);
* when it cancels the timer of a slot between the walk's test of the identifier
  (`:574`) and its decision to count down or to reload (`:580`), a one-shot up to the end
  of its freeing (`:586`): the walk reads count 0 and not cyclic, and frees the slot a second
  time (`Examined`);
* when it does so between the test of the handler and the call.

From then on the counters may be off for good. `CallsAfterRace` says whether users go on
to subscribe and cancel then: the run, whose properties are about what comes before, sets it to FALSE,
and the theorems hold for both.

*WorkQueue.* A starter is a task that calls `WORKER_StartupWork`: `idle`,
`search` after the checks, `place` with a slot chosen and the critical section
ahead. The worker stands at `check`, `visit`, `run`, or in the two pends of
`App_TaskWorkers`. `due[w]` says that `w` was accepted and has not run since;
`preempted` that one start came between another's checks and its critical section.

*Fifo.* The places of one full ring; `Buff`, `head`, `tail`, `counter`. The RAM
and flash texts have the same indices and guards and differ in where they copy.

*DeadZone.* `Buff` and `config` are flash; everything else is RAM. A record is
the number of its store. `tzWorker_DoTasks` runs in the 10 ms task above all
tasks that change the connection, so it is cut only where a reset leaves the
flash half written: the erased sector (`program`), a block without its
configuration (`erase`), the configuration erased, marked, written (`mark`,
`fields`). A blank or half-written configuration (`Erased`, `MarkOnly`) reads
back as the code reads 0xFF. `torn` remembers that a reset came between a block
and its configuration. `Connected` is a client that is open: the socket's
refusal is not looked at by the upload. `SleepWake` is a whole sleep: the client is
closed and the real-time data end, but the upload stays subscribed
(`low_power_proc.c:317`), which `slept` remembers; one that is called off after the logout (`SleepCalledOff`) ends the
real-time data alike, for the second until `DoTasks` starts them again.

*Link.* `sys_status` is folded to what the guards tell apart: `INIT`, `LOGIN`,
`ONLINE` (`PROC_SYSTEM_LOGIN_ACK` up to `LOGOUT`), `LOGOUT_ACK`, `STORAGE`. `wpc` cuts the
worker where the 10 ms task may come between two of its steps: when PPP is up, between the
test of the client, the status of the login, the new client and `login()`
(`connect`, `config`, `create`, `login`); between the test and the set of `sys_status`;
in `Modem_Stop` between any two of its writes (`stop`, `zone`, `off`, `close`, `exit`),
and before the subscription of its restart. The 10 ms task itself is not cut
by the worker: its `Modem_Stop` is one step. `crossed` remembers a heartbeat timeout that came between
the test of the client (`xmit_manager.c:181`) and the status of the login (`:331`), until the
modem is on again. `restarting` cuts
`Modem_Restart` where its status is the number the timer handed over. PPP, TCP
and the server do what they like.

*LowPower.* `sleeping` is `awake`, `closing` (the client is closed, the tasks are
not suspended yet, and the 10 ms task may come in between) or `stop`, in which
the idle hook alone runs. `close_time` counts runs of the monitor with the ignition off and
a quiet bus, `sleepTmr` is the timer the logout starts. The monitor, that timer
and `Modem_Restart` share the 100 ms task, so none runs inside another; the worker
is suspended wherever it stands and goes on from there. The processor stops only if
`RtcTimeStart` was set: by a start-up that finds the RTC running on its battery, not by
the GPS that sets the time (`rtc`: `never`, `set`, `running`). Otherwise the hook
returns before it kicks the watchdog, which then resets the terminal. A sleep
leaves `sys_status`, the counts and the modem's power as they are until
`LPWR_EnterRUNMode`.

*UsartRx.* The bytes are numbered as they arrive. `pc` cuts the digest between
any two accesses of what the interrupt changes, too, and inside the loop in which
the data handler reads. `overrun` is the interrupt going over to a half that
still holds bytes, or that the digest is working on by a choice made before. The
modem's port is the one modelled: those of the two others run the digest in the
USART task itself. Halves have 3072 bytes and the time-out is 8 ticks in the code.

*Eeprom.* A page is a header and its half-words, grouped by what is read of them:
object ID, length, CRC, data. A reset between two steps leaves the flash as it
is; one in an erase leaves a page of `Mixed` contents under any header (`Torn`). A CRC
fits the contents of the value it was computed from and no other. The steps of
`FLASH_WriteData` hold the semaphore where the code does, so that another task can
come in between `FLASH_EraseObject` and the allocation. Every flash operation that
reports its result may fail (`...Fails`, `Faults` of them): an erase, tried twice, leaves the page as it
was, erased or torn; a half-word keeps its content or holds neither (`Failed`). What the code
then does is modelled where it asks: it returns the error, out of `EEPROM_IfInit` even to the end
of the start-up. Where it does not ask, `spoilt` collects the objects of which nothing can be promised any more: the object
whose length or CRC was not written (`tiza_flash_eeprom_port.c:588`), whose page was not
erased (`:383`, and in the scan of the start-up), or that a second task writes at the
same time; and all objects when the start-up ended before it had seen the pages, or when
a second writer found base address 0 and formats page 1. A half-word that fails without
being reported is modelled in the data alone, which are read back (`Programmed`). Two things are
normalised: `found` is cleared when the start-up ends, after which nobody reads it, and `result` is
FALSE while a call is under way.

*Params.* A value is known by what `sysParamsInit` looks at: the first letter of
the VIN or device ID, which settings have, and factory settings only if they were
laid over a value that had it. A backup is written in erase, mark and data and
has no checksum (`Unwritten`). `cur` is the object being written,
`stage` the step of it and `after` where the code goes on: its names are its own, so
that the proofs can speak of `Eeprom` and `Params` together. The internal storage does not fail (its result is not
looked at, `tiza_params.c:393`), and one task saves at a time.

*FtpUpgrade.* The channel table is shared with the connection to the centre. The
worker is cut where the no-response timer, in the 100 ms task, can tell two steps
apart: between the test of `ftpctrlsock`, the creation of the channel and the
start of the session; before `ftpctrlsock` is forgotten; and between the count of
an answer and what it does. The server answers a connection's commands in order,
each with an answer the protocol has for it, an error, any other line, or never; a
command may be lost, because the result of the write is not looked at. A chunk
is named by its file and place, so that `written` tells where every piece of the image
comes from. `failed` and `raced` remember a refused `tcp_connect` and a timer
that came between two steps of the worker. `installed` is what the saved configuration asks the boot
loader for. A start clears it when one of its marks is 0xAA (`tiza_upgrade.c:232`), which is
not what `UPGRADE_Finalise` stores (0xAAAAAAAA and 0x55, `:508`): whether it outlives the reset is
up to the boot loader, which is not in the repository and may leave it alone, mark the image as taken, or
take the request back (`BootLoader`, `AfterStart`).

## 3. Runs

| Run | Question | Bounds |
|---|---|---|
| `share_buffer` | below the width of the word: one owner each, best fit, exact count | 6 segments, 3 bits (the ratio of the code, 64 to 32), 4 clients |
| `share_buffer_word` | and beyond it? (violated) | the same |
| `soft_timer` | two tasks, one preempting the other: counters, handles, every tick | 3 slots for 5 users, cyclic and one-shot, so the table fills |
| `work_queue` | no work lost, passed over or run twice; each start returns | 2 slots (the code's `WORKER_MAX_NBR`), 3 works, 2 starting tasks and the worker |
| `fifo` | every pair of indices and filling, several wraps | depth 3, 4 records |
| `dead_zone` | stored records over uploads, reconnections, resets, sleeps | depth 3, 2 blocks a sector, 4 records, 2 resets or sleeps (called off or not) |
| `link` | stops, restarts, timeouts, resets, sleeps and wake-ups at any step of each other | timeouts 3 and 2, sleep after 2 runs of the monitor, 2 NO CARRIERs |
| `link_silent` | the second silence of the server (violated) | the same |
| `usart_rx` | bytes at any step of the digest: in order, once, all | halves of 2, time-out 2, 9 bytes |
| `eeprom` | the pages are a store of objects, over resets and a fault | 2 objects of 2 half-words, 2 pages, 2 tasks that write what they like when they like, 1 failing operation of any kind, resets anywhere |
| `params` | saves and start-ups with supply failures at every step | 2 settings |
| `ftp_upgrade` | the image is the file; the channel table; the timer | files of 2 and 3 chunks, pages of 2, 3 channels, 3 commands |

Why they are enough. The arena has blocks of 1, 2 and 3 segments on both
sides of the word's end and crossing it. In `soft_timer` the table is smaller
than its users, so a subscription is refused, a slot is reused by another
handler, and slots are freed before and behind the walk. Two slots of the queue
are the least in which a running work and a free slot meet, which is what the
search depends on. A ring of three with four records fills, wraps and overwrites,
and its last sector is shorter than the first; two resets give a reset during the
recovery from one, and a sleep before or after one. The link's timeouts are long enough for a stop and a restart
to come in between, and two drops for two restarts under way; a limit of two for
the ignition lets it come back between the logout and the sleep, and sleeps are
not bounded. Nine bytes fill both
halves of a USART twice over, with one to spare. In `eeprom` two objects fill the two
pages, so the search for a free page wraps, passes over the page in use and, when a
torn erase has spoilt the other, finds none; two half-words give a reset and a fault
between them; the one fault may hit any operation, also that of a start-up, a torn page or a second writer. In
`ftp_upgrade` one file ends with a page and one in the middle of it; three
channels are the client's two and the server's, and with a channel lost the
table is full; three commands are a download, one that it is broken off for, and
one after both. The bounds are `MaxPending`, `SEM_MAX`, `MaxRecords`, `MaxResets`,
`MaxDrops`, `LastByte`, `Faults`, `MaxCommands`; the first two only cut counts that would
grow while nobody looks at them, the others limit what the environment does. No
command is given in `ftp_upgrade` after a race. In `soft_timer` users neither
subscribe nor cancel after one (`CallsAfterRace`). `work_queue` and `usart_rx` turn deadlock
checking off: in the first the search that is repeated without end is a state in
which nothing moves, in the second all bytes have arrived in the end.

### What the violated runs show

Each is described in `PROJECT.json` under `findings`.

* `share_buffer_word` (`buffer_helper.c:50`): 64 segments in a word of 32 bits. A
  segment from 32 on is always free to the search, so it is given to two users.
* `link_silent` (`gb_gprs_protocol.c:859`): `RealData_Handler` is never cleared,
  so the heartbeat timeout restarts the modem only once in a run.

### What the passing runs leave out, and why

Several properties hold up to a point where the code itself gives no more. Each names
it in a ghost variable or a premise, so that everything else is still demanded:

* `soft_timer`: the three kinds of race behind `raced` (section 2): a slot filled that another task has searched
  out or that a walk is in the middle of (`tiza_timer_port.c:123`, `:598`), a timer cancelled
  between the walk's reads of its slot (`:574` to `:586`), and one cancelled between the test and
  the call of its handler (`:598`, `:600`). Up to the first of these the counters are exact and no handle is
  stale; a preemption or a cancellation anywhere else is not exempted.
* `work_queue`: the search "once more" is the same search (`worker.c:283`): a start
  that comes into the middle of the worker's walk may repeat it for ever, in a task
  above the only one that could empty the queue. Two starts that cross may take the same slot
  (`preempted`): the count still covers the queue, but one of the works is gone.
* `dead_zone`: the comment clears the saved configuration after the upload, the
  code before it (`gb_gprs_protocol.c:938`). So a reset in an upload loses what was not
  sent yet, and `KeepsWaiting` exempts a reset that finds the configuration
  cleared; in return nothing is sent twice (`SentAtMostOnce`). The upload does not
  look whether its record was sent (`gb_gprs_protocol.c:624`), and a sleep does not
  end it: after the wake-up (`slept`), and in the first second of a dead zone, it takes
  records from the ring without a client.
* `link`: the server's answer to the logout sets `LOGOUT_ACK`; when the ignition comes
  back before the sleep, the sleep is called off (`low_power_proc.c:333`) and the status
  stays: nobody counts a missing link in it. `LinkOrReset` exempts this state, and no other.
  A heartbeat timeout between the test of the client and the status of the login
  (`xmit_manager.c:181`, `:331`) switches the modem off, and the worker ends the dead zone all
  the same: until the restart nothing is stored. `StoredWhileOff` names this crossing (`crossed`);
  `NeverLeftOff` holds through it.
* `usart_rx`: after an overrun bytes are lost and the halves change places; still
  none is handed over twice.
* `eeprom`: the objects in `spoilt`, of which the code can promise nothing. `RestartFindsTheSame` speaks of the
  others, and `StoreRefined` reads a spoilt object as `Spoilt`, which the store may make of
  an object only with a failed operation (`Spoil`, `Commit`), with a second writer (`Begin`) or, of
  all objects, when two writers have met on a spoilt one (`Clash`). A failure that is noticed spoils nothing.
  The cases the code has: a CRC or a length that failed, although the caller is told TRUE
  (`tiza_flash_eeprom_port.c:588`); an erase that failed, after which the object is taken out of the table
  although its page is still there (`:383`); a start-up that ends at its first error;
  and a second write of one object, which may come between `FLASH_EraseObject` and the
  allocation because the semaphore is given back (`:379`), so that its data go over those
  of the first.
* `params`: the backup of the connection parameters is read into the parameters
  themselves and then overwritten by a temporary that was never filled
  (`tiza_params.c:358`): `InitGprs` takes the factory settings whatever the backup
  holds. `VehicleKept` and `OneGoodCopy` are about the other object.
* `ftp_upgrade`: a last page that is not full is written without a comparison, and its
  CRC is computed from what the flash then holds (`tiza_upgrade.c:499`); the size is that
  of the first file since start-up (`tiza_gprs_protocol.c:151`); a client that cannot connect is
  counted down without having been counted up (`wip_tcp.c:447`), so that with an empty table
  `tcpNumber` becomes 255 and no client is created any more; and the no-response timer
  may connect while the worker does (`ftpclient.c:156`), after which one of two control
  channels has no owner. `InstallsTheFile` speaks of the reset the upgrade itself asks for: a
  configuration that the boot loader leaves alone is not cleared afterwards
  (`tiza_upgrade.c:232`), against the comment at `:228`, which says that the image is not to be burnt
  again, and asks for the image at every later start, also while the next download
  rewrites it.

### Fairness

* `SoftTimer`: the tick comes; a task that is allowed to run again and again goes on,
  although one of a higher priority may cut it off as often (strong fairness); and
  every handler returns. `EveryTimerFires` speaks of runs in which the tasks above
  the timer's own wait again and again: the kernel gives a low task nothing more.
* `WorkQueue`: a task that can run does, and the function of a work returns.
* `UsartRx`: the tick and the worker go on; bytes need not come.
* `DeadZone`: the three handlers are cyclic timers of one task. `DoTasks` is
  weakly fair; upload and real-time data strongly, because they wait for
  `DoTasks` to be between two runs. Nothing is assumed of the connection: `Drains` speaks
  of runs in which the terminal stays logged in.
* `LowPower`, and with it `Link`: the timers, the monitor and the sleep timer keep
  running, the worker ends what it began, and while all else is suspended the idle
  hook runs or the watchdog fires (weak fairness of each). Nothing is assumed of the
  ignition, the bus, RING, the modem, PPP or the server: `LinkOrReset` and `StaysAwake`
  speak of runs in which the terminal stays awake, or the ignition on.

## 4. Proofs

TLAPS proves the following for every value of the constants. The assumptions are
those at the head of the modules, which TLC evaluates on the runs: `SizesAssumption`,
`TimerAssumption`, `QueueAssumption`, `FifoAssumption`, `DeadZoneAssumption`,
`LinkAssumption`, `LowPowerAssumption`, `UsartAssumption`, `EepromAssumption` (among
them that the values of an object are none of the marks of an erased or torn
page, and that `"boot"` is no task), `ParamsAssumption` and `FtpAssumption`.
Every safety property and every action property of the passing runs is stated by a theorem,
and none of them has a hypothesis.

* `ShareBuffer_proofs`. `WordOwnership`: a bit is set exactly when one client
  uses the segment, and the clients' visible blocks are disjoint. The search
  returns only segments whose bits are clear (`BestFitIsFree`), so a grant keeps
  it; a free clears the bits of the length recorded at the block's first segment,
  so a free keeps it only because of `VisibleBlocks`: that length is still the
  one the owner asked for. `IInv` adds this, `BlocksInArena` and
  `UsersHavePointers`. From it: `TypeCorrect`, `WordOwned`; `WideWordIsSafe`
  (with a bit for every segment users are disjoint: the violation of
  `share_buffer_word` is due to the width alone); and `ImplementsPool`, the
  refinement of `BufferPool`, step by step. `NeverOverPromises`: the count is
  charged for every block that may yet be given back, which are those whose
  first segment the word covers (`ChargedOK`), in use or not. That the
  loop finds what `BestFit` says (`SearchFindsBestFit`) needs what it knows
  after each segment (`LoopOK`): the run of clear bits that ends here
  (`Running`), and that the best so far is the tightest of those that ended
  (`Tighter`). The induction over the segments is an argument about the first
  one at which it would be wrong.
* `DeadZone_proofs`. First the ring alone: `RingOK`, the agreement of `head`, `tail` and
  `counter` modulo the depth, is inductive by arithmetic about one step round it; the same
  arithmetic maps each ring operation to `Append`, `Tail` or a stutter
  (`ImplementsQueue`). Then the store built over it. What is in use of a ring is a
  `Window`; a block that is in use is in the flash, or in the sector that is being
  programmed (`BlocksOK`), was not sent (`SentOK`), and precedes the next in the order of
  the stores until a configuration was torn off (`OrderOK`). The last two are demanded of the
  ring in RAM and of the one a reset would read back, and that the second keeps them while
  the first goes on is the point: the saved ring leads to the places the one in RAM
  leads to (`SavedOK`), but for the steps of `DoTasks` in which the configuration is erased
  or half written (`StepsOK`), and without a connection nobody uploads (`OnlineOK`). `SentAtMostOnce`, `SentInOrder` and
  `KeepsWaiting` follow for sectors of any size and any number of resets.
* `LowPower_proofs`. First the supervision without the sleep: `TypeOK`, `NeverLeftOff` and
  `StoredWhileOff` are strengthened by `Owed` (restarts under way are owed by a stop),
  and by what the worker's own steps rely on: before the heartbeat timeout there is one
  restart at a time, and the modem is off until it comes, because a NO CARRIER is seen only
  from a modem that is on (`OneRestart`); while the worker opens the client, from `connect` to
  `login`, the modem is on but for a stop that `crossed` names (`LoginUndisturbed`); and its own
  `Modem_Stop` is in the dead zone before it switches off (`ZoneEntered`). Without them the worker
  might end a dead zone with the modem off. Then the same properties with the sleep around them
  (`PowerTypeCorrect`, `NeverLeftOffBySleep`, `OffMeansStoredInSleep`): steps of `Link` are cited
  (`NextInductive`); new are the logout's answer, the closing of the client under a
  worker that stands anywhere, the wake-up, which sets `sys_status` under it, and the resets.
* `FtpUpgrade_proofs`. `TimerHarmless` says of every step that the timer breaks off only a session
  without a data channel, and needs that answers lead to what was asked (`AnswersOK`).
  `ImageIsTheFile` and `ChannelsHaveOwners` hold of a session without a race
  (`Undisturbed`), by `Owned` (each slot of the table is somebody's), `SessionOK` (which
  channels a step of the worker has), `AskedOK` (commands under way are
  those of the file asked for), `SizesOK`, `DownloadOK` (the pages written and the rest
  in the buffer are the beginning of the file, chunk by chunk) and `InstalledOK`. The
  number of channels is exact even after a race, until a connection is refused
  (`Counted`).
* `Storage_proofs`, first part. The invariant of `Eeprom` (`FlashInv`) has two parts. `BaseInv` always
  holds: types, the phases of the start-up, and that who is in a protected part holds the
  semaphore (`SemOK`). `CoreInv` holds as long as not every object is spoilt, and describes the flash in every
  step of every call: only the page of an object holds anything (`PagesOK`), an object that is not
  spoilt has one page (`OnePage`) and one writer (`OneWriter`); the table in RAM says what
  the flash does of each of these but the one a call is moving (`TableOK`, `EntryOK`, `CallOK`,
  `SoundCallOK`); and the start-up has entered what it has passed (`BootOK`). It gives
  `RestartSeesTheSame`. That the semaphore is given back between the erase and the allocation is harmless
  to objects with one writer: a step in a protected part is alone (`StepAlone`) and changes
  one page, which is its own object's or nobody's (`OwnBefore`), so that all the others'
  stay as they are (`WriterKeeps`), failing operations included. For `ImplementsStore` a call is
  `Begin`, which spoils an object that has a writer already; the erase is `Lose` (`EraseLoses`), the
  CRC `Commit`, of the value or, when its half-word fails, of `Spoilt` (`CrcCommits`); a return
  with an error is `Fail`, a failure nobody is told of `Spoil`, the formatting of page 1 by a second
  writer `Clash`; a reset is `Reset` with the object of a torn erase; and every other flash
  operation changes nothing a restart would see.
* `Storage_proofs`, second part. `VehicleKept` and `OneGoodCopy` of `Params` are not inductive: the
  invariant adds that a copy may be written over only while the other one is whole and holds
  what is written (`OtherCopyGood`, by the step the save is at), that what is being
  written is what the terminal works with (`WriteOK`), that zeroed objects are never
  saved (`NotZero`), and that a provisioned terminal never takes the branch that
  lays the factory settings over its vehicle (`NoReset`). `StoreUsed`: all that `Params`
  does to its storage are steps of `ObjectStore`, and it waits for the end of each write:
  so no second writer spoils an object, as long as no other task writes these.
* `WorkQueue_proofs`. The four safety properties of the queue need that the number of works
  leaves room for the tasks that are under way (`NumberOK`: a byte does not wrap however
  the starts cross), that without a preemption at most one is under way and its slot is
  free (`Alone`), that a work is in one slot, because only one task starts it
  (`Single`, from the assumption that the tasks' `Starts` are disjoint), and that what waits
  was accepted and has not run since (`WaitingDue`).
* `UsartRx_proofs`. `InOrder`, until a half in use is overrun: the half that is not written to
  holds what follows the bytes handed over and the other one what follows these
  (`Places`), and the half the digest has chosen stays the right one (`Choice`). `HandedOnce`,
  overrun or not: the places still to be read (`Fresh`) hold bytes that were not
  handed over, and no two hold the same.
* `SoftTimer_proofs`. `CountersExact`, `HandlesOwnSlots` and `FiresOnTime`, until the first race,
  for any table, tasks, priorities and timers. A live slot and the armed user whose handle
  names it describe each other (`SlotOK`, `UserOK`); what a task has found outside a critical
  section still holds when it enters one (`FillOK`, `ClearOK`, `ExpireOK`, `CallOK`); and
  the ticks a timer has seen and those it still counts make up its period, but for one
  that the walk owes it or that came too early (`TimeOK`, by whether the walk is
  `Behind` or `Ahead` of the slot). The counters are cardinalities of the live slots (`Counted`).

Model-checked only: liveness (`EveryTimerFires`, `StartupReturns`, `Drains`, `Drained`,
`LinkOrReset`, `ModemComesBack`, `StaysAwake`), which with `ENABLED` is beyond the prover;
and what the two violated runs show, which is not a matter of proof. Of the bounds
of section 3 the theorems need none: `MaxRecords`, `MaxResets`, `Faults` and the others
are any numbers there.

## 5. Not modelled, and the plan

In the modules there are: contents of messages; the level-3 alarm, which only a
shell command starts; shell commands; the standby mode, which has no caller; the
counters by which `AppTaskStart` watches the tasks; the status of an upgrade. Two tasks inside lwIP at once (`Modem_Stop` in the 10 ms task while the
worker is in the stack, built without a system layer) is undefined as far as
this code can tell: each call is one step. `DeadZone` takes `Modem_Restart` as one
step (see `restarting` in `Link`), and a sleep with its wake-up as one, without the
10 ms task between the closing and the suspension (see `closing` in `LowPower`).

`SoftTimer` does not ask what a subscription that is refused does to its caller:
`gb_gprs_protocol.c:866` restarts the modem by a timer whose handle nobody looks at.
`UsartRx` leaves out the restart of the port at another baud rate and the DMA
variant, which the build does not have. `FtpUpgrade` ends with the saved configuration: the
boot loader is not part of the repository. `Params` takes one save at a time; two at once
are the race of `Eeprom`.

Left of the plan:

1. `Modem`: the step machine of AT commands with timeouts and retries.
2. `SoftTimer` with `Link`: what a full or leaking timer table does to restarts.
3. The loop over the parameters of a setting command, as an operator.
4. The watchdog counters of `app.c`: a task that stops is noticed.

Next proofs: that `Params` keeps its vehicle over a storage whose writes may fail, too.
