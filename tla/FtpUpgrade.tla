------------------------------ MODULE FtpUpgrade ------------------------------
(***************************************************************************)
(* The firmware upgrade: a command of the centre names a file, the FTP     *)
(* client (ftpclient.c) fetches it over two channels of the table of       *)
(* wip_tcp.c, tiza_gprs_protocol.c writes it to the flash and counts, and  *)
(* tiza_upgrade.c installs it when the count is the announced size.        *)
(*                                                                         *)
(* All this runs in the worker task, but for the no-response timer, which  *)
(* runs in the 100 ms task: it may come between the worker's steps where   *)
(* these are told apart.  A call into lwIP is one step.  The server        *)
(* answers the commands of a connection in order, with what the protocol   *)
(* has for them, with an error, or never.  Data come in chunks, of which a *)
(* page of the flash holds PageChunks.                                     *)
(***************************************************************************)
EXTENDS Integers, Sequences, FiniteSets

CONSTANTS Files,      \* the files a command may name
          Size,       \* Size[f]: its chunks
          PageChunks, \* chunks of a page
          NSlots,     \* MEMP_TOTAL_NUM_TCP_PCB
          MaxCommands,\* bound: upgrade commands, none of them after a race
          None

ASSUME FtpAssumption ==
  /\ Size \in [Files -> Nat \ {0}]
  /\ PageChunks \in Nat \ {0}
  /\ NSlots \in 1 .. 127
  /\ None \notin Files

Slots == 0 .. NSlots - 1
NoSock == -1
U8(n) == n % 256

VARIABLES
  tcp,          \* tcpList, by what its data handler serves, and tcpNumber
  server,       \* serversocket
  ftp,          \* the sockets and fields of the FTP client, and cmd.sessionSock
  name,         \* DOTA_FtpFilename
  dataCount,    \* DOTA_FtpDataCount
  fileSize,     \* the static fileSize of the data handler, and its file
  restartCount, \* ftp_restart_count, as far as it matters
  timers,       \* no-response timers that are running
  written,      \* the chunks written since UPGRADE_Start
  installed,    \* the image the saved configuration asks to boot, or None
  pc,           \* the step the worker is at
  answer,       \* the answer it is at
  asked,        \* asked[s]: commands on s the server has not answered
  sending,      \* the file the server sends, and the next chunk
  commands,     \* upgrade commands so far
  failed,       \* a tcp_connect has failed
  raced         \* the no-response timer came between two steps of the worker

dota   == <<name, dataCount, fileSize>>
image  == <<written, installed>>
wire   == <<asked, sending>>
ghosts == <<commands, failed, raced>>
vars   == <<tcp, server, ftp, dota, restartCount, timers, image, pc, answer, wire, ghosts>>

\* The client after wip_FTPDisconnected.
NoSession == [ctrl |-> NoSock, data |-> NoSock, session |-> NoSock,
              ev |-> "DONE", size |-> 0, handler |-> FALSE]
Nothing   == [code |-> None, file |-> None]

InitRam ==
  /\ tcp = [channel |-> [s \in Slots |-> "free"], number |-> 0]
  /\ server = NoSock
  /\ ftp = NoSession
  /\ name = None /\ dataCount = 0 /\ fileSize = [size |-> 0, of |-> None]
  /\ restartCount = 0 /\ timers = 0
  /\ written = <<>>
  /\ pc = "idle" /\ answer = Nothing
  /\ asked = [s \in Slots |-> <<>>] /\ sending = None
  /\ failed = FALSE /\ raced = FALSE

Init == InitRam /\ installed = None /\ commands = 0
---------------------------------------------------------------------------
(* The channel table.                                                      *)

Valid(t) == {s \in Slots : t.channel[s] # "free"}

\* Mutant: the number is not decremented.
DestroyUncounted(t, s) == IF s \in Valid(t) THEN [t EXCEPT !.channel[s] = "free"] ELSE t
\* wip_TCPDestroy.
Destroy(t, s) ==
  IF s \in Valid(t)
  THEN [channel |-> [t.channel EXCEPT ![s] = "free"], number |-> U8(t.number - 1)]
  ELSE t

\* What wip_TCPClientCreate may do: refuse, be refused the connection and
\* destroy the channel it has not yet counted, or return the first free one.
Refused(t) == [tcp |-> t, sock |-> NoSock, failed |-> FALSE]
ClientCreate(t, owner) ==
  {Refused(t)} \cup
  (IF t.number >= NSlots THEN {}
   ELSE LET free == {s \in Slots \ Valid(t) : \A r \in 0 .. s - 1 : r \in Valid(t)}
            Taken(s) == [t EXCEPT !.channel[s] = owner]
        IN {[tcp |-> Destroy(Taken(s), s), sock |-> NoSock, failed |-> TRUE] : s \in free}
           \cup {[tcp |-> [Taken(s) EXCEPT !.number = U8(@ + 1)], sock |-> s, failed |-> FALSE]
                   : s \in free})

\* The connection to the centre, opened in the worker task and closed by that
\* or a task of higher priority.
XMIT_Connect ==
  /\ pc = "idle" /\ server = NoSock
  /\ \E c \in ClientCreate(tcp, "server") :
       /\ tcp' = c.tcp /\ server' = c.sock
       /\ failed' = (failed \/ c.failed)
  /\ UNCHANGED <<ftp, dota, restartCount, timers, image, pc, answer, wire, commands, raced>>

XMIT_Stop ==
  /\ server # NoSock
  /\ tcp' = Destroy(tcp, server)
  /\ server' = NoSock
  /\ UNCHANGED <<ftp, dota, restartCount, timers, image, pc, answer, wire, ghosts>>
---------------------------------------------------------------------------
(* wip_FTPDisconnected.                                                    *)

BothDestroyed == Destroy(Destroy(tcp, ftp.data), ftp.ctrl)
Forgotten     == IF ftp.ctrl = NoSock THEN asked ELSE [asked EXCEPT ![ftp.ctrl] = <<>>]

\* At once, where the no-response timer has nothing left to do.
Disconnect ==
  /\ tcp' = BothDestroyed
  /\ ftp' = NoSession
  /\ asked' = Forgotten /\ sending' = None

\* Up to the destruction of the control channel; the rest is a step of its own.
DisconnectBegins(next) ==
  /\ tcp' = BothDestroyed
  /\ ftp' = [ftp EXCEPT !.data = NoSock, !.session = NoSock]
  /\ asked' = Forgotten /\ sending' = None
  /\ pc' = next

DisconnectEnds ==
  /\ pc \in {"closed", "closedFirst"}
  /\ ftp' = [NoSession EXCEPT !.data = ftp.data, !.session = ftp.session]
  /\ pc' = IF pc = "closed" THEN "idle" ELSE "check"
  /\ UNCHANGED <<tcp, server, dota, restartCount, timers, image, answer, wire, ghosts>>
---------------------------------------------------------------------------
(* wip_FTPStartConnect, in the worker task.                                *)

\* ftp_parseDataHdlr: a command names a file, and wip_FTPStartConnect closes
\* an open session or, without one, subscribes the no-response timer.
Command ==
  /\ pc = "idle" /\ server # NoSock
  /\ commands < MaxCommands /\ ~raced
  /\ commands' = commands + 1
  /\ \E f \in Files : name' = f
  /\ \/ /\ ftp.ctrl # NoSock
        /\ DisconnectBegins("closedFirst")
        /\ UNCHANGED timers
     \/ /\ ftp.ctrl = NoSock
        /\ timers' = timers + 1
        /\ pc' = "check"
        /\ UNCHANGED <<tcp, ftp, wire>>
  /\ UNCHANGED <<server, dataCount, fileSize, restartCount, image, answer, failed, raced>>

Check ==
  /\ pc = "check"
  /\ pc' = IF ftp.ctrl = NoSock THEN "create" ELSE "idle"
  /\ UNCHANGED <<tcp, server, ftp, dota, restartCount, timers, image, answer, wire, ghosts>>

\* A connection that is up is greeted by the server.
Greeted(s) == IF s = NoSock THEN asked
              ELSE [asked EXCEPT ![s] = <<[cmd |-> "CONNECT", file |-> None]>>]

Create ==
  /\ pc = "create"
  /\ \E c \in ClientCreate(tcp, "ctrl") :
       /\ tcp' = c.tcp
       /\ ftp' = [ftp EXCEPT !.ctrl = c.sock]
       /\ asked' = Greeted(c.sock)
       /\ failed' = (failed \/ c.failed)
       /\ pc' = IF c.sock = NoSock THEN "idle" ELSE "start"
  /\ UNCHANGED <<server, dota, restartCount, timers, image, answer, sending, commands, raced>>

\* wip_UtilityTcpCommandStart; the data count is set back when it succeeds.
\* Mutant: it is not.
StartKeepsCount ==
  /\ pc = "start"
  /\ ftp' = [ftp EXCEPT !.session = IF @ = NoSock THEN ftp.ctrl ELSE @]
  /\ pc' = "idle"
  /\ UNCHANGED <<tcp, server, dota, restartCount, timers, image, answer, wire, ghosts>>

Start ==
  /\ pc = "start"
  /\ IF ftp.session = NoSock
     THEN ftp' = [ftp EXCEPT !.session = ftp.ctrl] /\ dataCount' = 0
     ELSE UNCHANGED <<ftp, dataCount>>
  /\ pc' = "idle"
  /\ UNCHANGED <<tcp, server, name, fileSize, restartCount, timers, image, answer, wire, ghosts>>

(***************************************************************************)
(* The no-response timer, in the 100 ms task: it expires, and with fewer   *)
(* than two answers since start-up connects again, which subscribes        *)
(* another one when no session is open.                                    *)
(***************************************************************************)
Reconnect ==
  /\ \E c \in ClientCreate(IF ftp.ctrl = NoSock THEN tcp ELSE BothDestroyed, "ctrl") :
       LET open == IF ftp.ctrl = NoSock THEN ftp ELSE NoSession IN
       /\ tcp' = c.tcp
       /\ ftp' = [open EXCEPT !.ctrl = c.sock, !.session = IF @ = NoSock THEN c.sock ELSE @]
       /\ asked' = IF c.sock = NoSock THEN Forgotten
                   ELSE [Forgotten EXCEPT ![c.sock] = <<[cmd |-> "CONNECT", file |-> None]>>]
       /\ failed' = (failed \/ c.failed)
  /\ timers' = IF ftp.ctrl = NoSock THEN timers ELSE timers - 1
  /\ dataCount' = 0
  /\ sending' = IF ftp.ctrl = NoSock THEN sending ELSE None
  /\ raced' = (raced \/ pc # "idle")

\* Mutant: the answers are not counted.
NoResponseAlways ==
  /\ timers > 0
  /\ Reconnect
  /\ UNCHANGED <<server, name, fileSize, restartCount, image, pc, answer, commands>>

NoResponse ==
  /\ timers > 0
  /\ \/ restartCount < 2 /\ Reconnect
     \/ /\ restartCount >= 2
        /\ timers' = timers - 1
        /\ UNCHANGED <<tcp, ftp, dataCount, wire, failed, raced>>
  /\ UNCHANGED <<server, name, fileSize, restartCount, image, pc, answer, commands>>
---------------------------------------------------------------------------
(* wip_FTPCtrlHandler, in the worker task.                                 *)

\* What the server answers to a command; "other" is an answer, or a line of
\* one, that the client does nothing about.
Codes(cmd) ==
  {"error", "other"} \cup
  CASE cmd = "CONNECT" -> {"220"}
    [] cmd = "USER"    -> {"331", "332", "230"}
    [] cmd = "PASS"    -> {"230"}
    [] cmd = "TYPE"    -> {"200"}
    [] cmd = "SIZE"    -> {"213"}
    [] cmd = "PASV"    -> {"227"}
    [] cmd = "RETR"    -> {"150"}
    [] cmd = "DATA"    -> {"226"}

\* An answer is counted, before it is looked at.
CtrlHandler ==
  /\ pc = "idle"
  /\ \E s \in Slots :
       /\ tcp.channel[s] = "ctrl" /\ asked[s] # <<>>
       /\ \E code \in Codes(Head(asked[s]).cmd), more \in BOOLEAN :
            LET request == Head(asked[s]) IN
            /\ more => code = "other"
            /\ answer' = [code |-> code, file |-> request.file]
            /\ asked' = [asked EXCEPT ![s] =
                 CASE more         -> @
                   [] code = "150" -> <<[request EXCEPT !.cmd = "DATA"]>> \o Tail(@)
                   [] OTHER        -> Tail(@)]
            /\ sending' = IF code = "150" THEN [file |-> request.file, next |-> 1] ELSE sending
  /\ restartCount' = IF restartCount < 2 THEN restartCount + 1 ELSE 2
  /\ pc' = "dispatch"
  /\ UNCHANGED <<tcp, server, ftp, dota, timers, image, ghosts>>

\* wip_UtilityTcpCommandSend: the result of the write is not looked at, and so
\* the command may be lost.
Send(cmd) ==
  \/ UNCHANGED asked
  \/ /\ ftp.session # NoSock
     /\ asked' = [asked EXCEPT ![ftp.session] = Append(@, [cmd |-> cmd, file |-> name])]

Dispatch(codes) ==
  /\ pc = "dispatch" /\ answer.code \in codes
  /\ answer' = Nothing

Logon ==
  /\ Dispatch({"220", "332", "331", "230"})
  /\ Send(CASE answer.code \in {"220", "332"} -> "USER"
            [] answer.code = "331"            -> "PASS"
            [] answer.code = "230"            -> "TYPE")
  /\ pc' = "idle"
  /\ UNCHANGED <<tcp, server, ftp, dota, restartCount, timers, image, sending, ghosts>>

\* The first 200 of a session is the event OPEN: the flash is erased and the
\* size asked for, or the session ends.
Open ==
  /\ Dispatch({"200"})
  /\ IF ftp.ev # "DONE"
     THEN UNCHANGED <<tcp, ftp, wire, written>>
     ELSE /\ written' = <<>>
          /\ \/ /\ ftp' = [ftp EXCEPT !.ev = "OPEN", !.handler = TRUE, !.size = 0]
                /\ Send("SIZE") /\ UNCHANGED <<tcp, sending>>
             \/ Disconnect
  /\ pc' = "idle"
  /\ UNCHANGED <<server, dota, restartCount, timers, installed, ghosts>>

FileSize ==
  /\ Dispatch({"213"})
  /\ ftp' = [ftp EXCEPT !.size = Size[answer.file]]
  /\ Send("PASV")
  /\ pc' = "idle"
  /\ UNCHANGED <<tcp, server, dota, restartCount, timers, image, sending, ghosts>>

\* The data channel is opened, unless there is one, and the file asked for.
Passive ==
  /\ Dispatch({"227"})
  /\ \/ /\ ftp.data = NoSock /\ ftp.handler
        /\ \E c \in ClientCreate(tcp, "data") :
             /\ tcp' = c.tcp
             /\ ftp' = [ftp EXCEPT !.data = c.sock]
             /\ IF c.sock = NoSock THEN UNCHANGED asked ELSE Send("RETR")
             /\ failed' = (failed \/ c.failed)
     \/ /\ ~(ftp.data = NoSock /\ ftp.handler)
        /\ UNCHANGED <<tcp, ftp, asked, failed>>
  /\ pc' = "idle"
  /\ UNCHANGED <<server, dota, restartCount, timers, image, sending, commands, raced>>

Transferred ==
  /\ Dispatch({"226"})
  /\ ftp' = [ftp EXCEPT !.ev = "PEER_CLOSE"]
  /\ pc' = "idle"
  /\ UNCHANGED <<tcp, server, dota, restartCount, timers, image, wire, ghosts>>

Refusal ==
  /\ Dispatch({"error"})
  /\ DisconnectBegins("closed")
  /\ UNCHANGED <<server, dota, restartCount, timers, image, ghosts>>

Ignored ==
  /\ Dispatch({"other", "150"})
  /\ pc' = "idle"
  /\ UNCHANGED <<tcp, server, ftp, dota, restartCount, timers, image, wire, ghosts>>
---------------------------------------------------------------------------
(* ftp_recvDataHdlr, in the worker task.                                   *)

\* A full page is compared after it was written.
PageFull == (Len(written) + 1) % PageChunks = 0

\* The data channel brings the next chunk.
Received ==
  /\ pc = "idle" /\ ftp.data # NoSock /\ sending # None
  /\ sending.next <= Size[sending.file]
  /\ written' = Append(written, <<sending.file, sending.next>>)

\* The comparison fails: the session ends, and the count stays as it is.
CompareFails ==
  /\ Received /\ PageFull
  /\ dataCount' = dataCount + 1
  /\ Disconnect
  /\ UNCHANGED <<server, name, fileSize, restartCount, timers, installed, pc, answer, ghosts>>

\* The size is taken from the client while it is 0, and kept for ever.
Total == IF fileSize.size > 0 THEN fileSize ELSE [size |-> ftp.size, of |-> name]

More ==
  /\ Received
  /\ fileSize' = Total
  /\ dataCount + 1 # Total.size
  /\ dataCount' = dataCount + 1
  /\ sending' = [sending EXCEPT !.next = @ + 1]
  /\ UNCHANGED <<tcp, server, ftp, name, restartCount, timers, installed, pc, answer, asked, ghosts>>

\* UPGRADE_Finalise writes what there is of a page without comparing, and
\* computes the CRC from what the flash holds then.
Finalised(chunks, bad) ==
  LET full == (Len(chunks) \div PageChunks) * PageChunks
  IN  [i \in 1 .. Len(chunks) |-> IF bad /\ i > full THEN <<None, i>> ELSE chunks[i]]

\* The count is that of the file: the session ends, the image is made the one
\* to boot, and the system resets, unless the configuration is not written.
Finished ==
  /\ Received
  /\ fileSize' = Total
  /\ dataCount + 1 = Total.size
  /\ dataCount' = 0
  /\ Disconnect
  /\ \/ \E bad \in BOOLEAN : installed' = Finalised(written', bad) /\ pc' = "reset"
     \/ installed' \in {None, installed} /\ UNCHANGED pc
  /\ UNCHANGED <<server, name, restartCount, timers, answer, ghosts>>
---------------------------------------------------------------------------
\* The two marks of the configuration as UPGRADE_Finalise stores them; the boot
\* loader, which is not in the repository, may leave them as they are, mark the
\* image as taken, or take the request back.
Marks == [isUpgrade |-> "AAAAAAAA", upgradeResult |-> "55"]
BootLoader(marks) == {marks, [marks EXCEPT !.upgradeResult = "AA"],
                      [marks EXCEPT !.isUpgrade = "55"]}

\* The configuration after the boot loader and UPGRADE_QueryUpgradeResult, whose
\* test is not of what UPGRADE_Finalise stores: a configuration that the boot
\* loader leaves alone is kept, and asks for the image at every start.
AfterStart(marks) ==
  IF marks.isUpgrade = "AA" \/ marks.upgradeResult = "AA" \/ marks.isUpgrade = "55"
  THEN None ELSE installed

\* After its own or any other reset.
Reset ==
  /\ tcp' = [channel |-> [s \in Slots |-> "free"], number |-> 0]
  /\ server' = NoSock /\ ftp' = NoSession
  /\ name' = None /\ dataCount' = 0 /\ fileSize' = [size |-> 0, of |-> None]
  /\ restartCount' = 0 /\ timers' = 0
  /\ written' = <<>>
  /\ \E marks \in BootLoader(Marks) : installed' = AfterStart(marks)
  /\ pc' = "idle" /\ answer' = Nothing
  /\ asked' = [s \in Slots |-> <<>>] /\ sending' = None
  /\ failed' = FALSE /\ raced' = FALSE
  /\ UNCHANGED commands

Worker ==
  \/ XMIT_Connect
  \/ Command \/ DisconnectEnds \/ Check \/ Create \/ Start
  \/ CtrlHandler \/ Logon \/ Open \/ FileSize \/ Passive \/ Transferred \/ Refusal \/ Ignored
  \/ CompareFails \/ More \/ Finished

Next == \/ pc # "reset" /\ (Worker \/ XMIT_Stop \/ NoResponse)
        \/ Reset

Spec == Init /\ [][Next]_vars
---------------------------------------------------------------------------
\* When the system resets to boot an image, that is the file of the last command,
\* from its first chunk on, as long as its announced size: no chunk of an
\* abandoned session is in it, none is lost.  Three things the code does not
\* give: the last page, when it is not full, is not compared (and the CRC
\* agrees even so); the size is that of the first file since start-up; and once
\* the no-response timer has come between two steps of the worker, a session
\* may go on while the next command thinks there is none.
InstallsTheFile ==
  pc = "reset" /\ ~raced =>
    /\ Len(installed) = fileSize.size
    /\ fileSize.of = name => Len(installed) = Size[name]
    /\ \A i \in 1 .. Len(installed) :
         \/ installed[i] = <<name, i>>
         \/ installed[i] = <<None, i>> /\ i > (Len(installed) \div PageChunks) * PageChunks

\* tcpNumber, by which a client is refused, is the number of the channels in
\* use, and every one of these has its owner: none is lost over sessions that
\* break off, reconnect or end.  The code gives the first until a tcp_connect
\* fails, which is counted down without having been counted up, and the second
\* until the no-response timer comes between two steps of the worker.
ChannelsAccounted ==
  /\ failed \/ tcp.number = Cardinality(Valid(tcp))
  /\ raced \/ \A s \in Valid(tcp) :
       \/ tcp.channel[s] = "server" /\ s = server
       \/ tcp.channel[s] = "ctrl" /\ s = ftp.ctrl
       \/ tcp.channel[s] = "data" /\ s = ftp.data

\* The no-response timer, which nobody cancels, leaves a session alone once it
\* has its data channel, whichever session the timer is of.
TimerLeavesDownload ==
  [][NoResponse => ftp.data = NoSock \/ UNCHANGED <<tcp, ftp, dataCount>>]_vars
=============================================================================
