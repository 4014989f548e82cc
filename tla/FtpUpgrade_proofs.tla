-------------------------- MODULE FtpUpgrade_proofs --------------------------
(***************************************************************************)
(* The safety of the upgrade, for every number of slots, files, sizes and  *)
(* pages.  Three invariants beside the types: the channels are counted,    *)
(* the answers are counted (AnswersOK), and as long as the no-response     *)
(* timer has not come between two steps of the worker, the session, its    *)
(* requests and the count of the chunks belong together (Regular).         *)
(***************************************************************************)
EXTENDS FtpUpgrade, FiniteSetTheorems, TLAPS

Socks == Slots \cup {NoSock}
Owners == {"server", "ctrl", "data"}
Tables == [channel : [Slots -> Owners \cup {"free"}], number : 0 .. 255]
Sessions == [ctrl : Socks, data : Socks, session : Socks,
             ev : {"DONE", "OPEN", "PEER_CLOSE"}, size : Nat, handler : BOOLEAN]
Names == Files \cup {None}
Chunks == Names \X Nat
Orders == {"USER", "PASS", "TYPE", "SIZE", "PASV", "RETR", "DATA"}
Greeting == [cmd |-> "CONNECT", file |-> None]
Requests == [cmd : Orders, file : Files] \cup {Greeting}
Steps == {"idle", "closed", "closedFirst", "check", "create", "start", "dispatch", "reset"}

(* A session, a timer for one, or the way to one: a command has come. *)
Named ==
  \/ ftp.ctrl # NoSock \/ ftp.session # NoSock \/ timers > 0
  \/ pc \in {"closedFirst", "check", "create", "start"}
  => name \in Files

TypeOK ==
  /\ tcp \in Tables
  /\ server \in Socks
  /\ ftp \in Sessions
  /\ name \in Names /\ dataCount \in Nat
  /\ fileSize \in [size : Nat, of : Names]
  /\ restartCount \in 0 .. 2 /\ timers \in Nat
  /\ written \in Seq(Chunks)
  /\ pc \in Steps
  /\ answer.file \in Names
  /\ pc = "dispatch" /\ answer.code = "213" => answer.file \in Files
  /\ asked \in [Slots -> Seq(Requests)]
  /\ sending = None \/ sending \in [file : Files, next : Nat]
  /\ Named

-----------------------------------------------------------------------------
(* The channel table.                                                      *)

LEMMA SlotsFinite == IsFiniteSet(Slots) /\ Cardinality(Slots) = NSlots /\ NoSock \notin Slots
<1>1. IsFiniteSet(0 .. NSlots - 1) /\ Cardinality(0 .. NSlots - 1) = NSlots
  BY FS_Interval, FtpAssumption
<1> QED
  BY <1>1, FtpAssumption DEF Slots, NoSock

LEMMA ValidFinite ==
  ASSUME NEW t
  PROVE  IsFiniteSet(Valid(t)) /\ Cardinality(Valid(t)) \in 0 .. NSlots
<1>1. Valid(t) \subseteq Slots
  BY DEF Valid
<1>2. IsFiniteSet(Valid(t)) /\ Cardinality(Valid(t)) <= Cardinality(Slots)
  BY <1>1, SlotsFinite, FS_Subset
<1>3. Cardinality(Valid(t)) \in Nat
  BY <1>2, FS_CardinalityType
<1> QED
  BY <1>2, <1>3, SlotsFinite, FtpAssumption

(* wip_TCPDestroy frees the one channel, if it is in use, and counts down. *)
LEMMA DestroyTable ==
  ASSUME NEW t \in Tables, NEW s \in Socks
  PROVE  /\ Destroy(t, s) \in Tables
         /\ \A r \in Slots : Destroy(t, s).channel[r] = IF r = s THEN "free" ELSE t.channel[r]
         /\ Valid(Destroy(t, s)) = Valid(t) \ {s}
         /\ t.number = Cardinality(Valid(t)) =>
              Destroy(t, s).number = Cardinality(Valid(Destroy(t, s)))
<1>1. CASE s \in Valid(t)
  <2>1. Destroy(t, s) = [channel |-> [t.channel EXCEPT ![s] = "free"], number |-> U8(t.number - 1)]
    BY <1>1 DEF Destroy
  <2>2. s \in Slots /\ t.channel \in [Slots -> Owners \cup {"free"}] /\ t.number \in 0 .. 255
    BY <1>1 DEF Valid, Tables
  <2>3. U8(t.number - 1) \in 0 .. 255 /\ (t.number >= 1 => U8(t.number - 1) = t.number - 1)
    BY <2>2 DEF U8
  <2>4. Destroy(t, s) \in Tables
    BY <2>1, <2>2, <2>3 DEF Tables
  <2>5. \A r \in Slots : Destroy(t, s).channel[r] = IF r = s THEN "free" ELSE t.channel[r]
    BY <2>1, <2>2
  <2>6. Valid(Destroy(t, s)) = Valid(t) \ {s}
    BY <2>5 DEF Valid
  <2>7. Cardinality(Valid(t) \ {s}) = Cardinality(Valid(t)) - 1 /\ Cardinality(Valid(t)) >= 1
    <3>1. Cardinality(Valid(t) \ {s}) = Cardinality(Valid(t)) - 1
      BY <1>1, ValidFinite, FS_RemoveElement
    <3>2. Cardinality(Valid(t)) # 0
      BY <1>1, ValidFinite, FS_EmptySet
    <3> QED
      BY <3>1, <3>2, ValidFinite
  <2>8. ASSUME t.number = Cardinality(Valid(t))
        PROVE  Destroy(t, s).number = Cardinality(Valid(Destroy(t, s)))
    <3>1. Destroy(t, s).number = t.number - 1
      BY <2>1, <2>3, <2>7, <2>8
    <3> QED
      BY <2>6, <2>7, <2>8, <3>1
  <2> QED
    BY <2>4, <2>5, <2>6, <2>8
<1>2. CASE s \notin Valid(t)
  BY <1>2, SlotsFinite DEF Destroy, Valid, Tables
<1> QED
  BY <1>1, <1>2

(* wip_TCPClientCreate takes a free channel and counts up, or leaves the   *)
(* channels alone; the number is right unless the tcp_connect failed.      *)
LEMMA CreateTable ==
  ASSUME NEW t \in Tables, NEW owner \in Owners, NEW c \in ClientCreate(t, owner)
  PROVE  /\ c.tcp \in Tables /\ c.sock \in Socks
         /\ c.sock = NoSock => c.tcp.channel = t.channel
         /\ c.sock # NoSock => /\ c.sock \in Slots \ Valid(t)
                               /\ c.tcp.channel = [t.channel EXCEPT ![c.sock] = owner]
         /\ t.number = Cardinality(Valid(t)) /\ ~c.failed =>
              c.tcp.number = Cardinality(Valid(c.tcp))
<1> DEFINE Taken(s) == [t EXCEPT !.channel[s] = owner]
<1>1. \/ c = Refused(t)
      \/ /\ t.number < NSlots
         /\ \E s \in Slots \ Valid(t) :
              \/ c = [tcp |-> Destroy(Taken(s), s), sock |-> NoSock, failed |-> TRUE]
              \/ c = [tcp |-> [Taken(s) EXCEPT !.number = U8(@ + 1)], sock |-> s, failed |-> FALSE]
  <2>1. CASE t.number >= NSlots
    BY <2>1 DEF ClientCreate
  <2>2. CASE ~(t.number >= NSlots)
    <3>1. t.number < NSlots
      BY <2>2, FtpAssumption DEF Tables
    <3> QED
      BY <2>2, <3>1 DEF ClientCreate
  <2> QED
    BY <2>1, <2>2
<1>2. CASE c = Refused(t)
  BY <1>2 DEF Refused, Socks
<1>3. ASSUME t.number < NSlots, NEW s \in Slots \ Valid(t),
             c = [tcp |-> Destroy(Taken(s), s), sock |-> NoSock, failed |-> TRUE]
      PROVE  c.tcp \in Tables /\ c.sock = NoSock /\ c.tcp.channel = t.channel /\ c.failed
  <2>1. Taken(s) \in Tables /\ Taken(s).channel = [t.channel EXCEPT ![s] = owner]
    BY DEF Tables, Owners
  <2>2. t.channel[s] = "free" /\ t.channel \in [Slots -> Owners \cup {"free"}]
    BY DEF Valid, Tables
  <2>3. /\ Destroy(Taken(s), s) \in Tables
        /\ \A r \in Slots : Destroy(Taken(s), s).channel[r] =
                              IF r = s THEN "free" ELSE Taken(s).channel[r]
    BY <2>1, DestroyTable DEF Socks
  <2>4. Destroy(Taken(s), s).channel = t.channel
    BY <2>1, <2>2, <2>3 DEF Tables
  <2> QED
    BY <1>3, <2>3, <2>4
<1>4. ASSUME t.number < NSlots, NEW s \in Slots \ Valid(t),
             c = [tcp |-> [Taken(s) EXCEPT !.number = U8(@ + 1)], sock |-> s, failed |-> FALSE]
      PROVE  /\ c.tcp \in Tables /\ c.sock = s /\ s # NoSock
             /\ c.tcp.channel = [t.channel EXCEPT ![s] = owner]
             /\ t.number = Cardinality(Valid(t)) => c.tcp.number = Cardinality(Valid(c.tcp))
  <2>1. t.channel \in [Slots -> Owners \cup {"free"}] /\ t.number \in 0 .. 255
    BY DEF Tables
  <2>2. U8(t.number + 1) = t.number + 1 /\ t.number + 1 \in 0 .. 255
    BY <1>4, <2>1, FtpAssumption DEF U8
  <2>3. /\ c.tcp.channel = [t.channel EXCEPT ![s] = owner]
        /\ c.tcp.number = t.number + 1
        /\ c.tcp = [channel |-> [t.channel EXCEPT ![s] = owner], number |-> t.number + 1]
    BY <1>4, <2>2 DEF Tables
  <2>4. c.tcp \in Tables
    BY <2>1, <2>2, <2>3 DEF Tables
  <2>5. Valid(c.tcp) = Valid(t) \cup {s} /\ s \notin Valid(t)
    BY <2>1, <2>3 DEF Valid, Owners
  <2>6. Cardinality(Valid(c.tcp)) = Cardinality(Valid(t)) + 1
    BY <2>5, ValidFinite, FS_AddElement
  <2> QED
    BY <1>4, <2>3, <2>4, <2>6, SlotsFinite
<1>5. NoSock \in Socks /\ Slots \subseteq Socks
  BY DEF Socks
<1> QED
  BY <1>1, <1>2, <1>3, <1>4, <1>5
-----------------------------------------------------------------------------
(* The types.                                                              *)

LEMMA InitTypes == Init => TypeOK
BY FtpAssumption DEF Init, InitRam, TypeOK, Named, Tables, Sessions, Names, Requests, Steps, Socks,
   Owners, NoSession, NoSock, Nothing

LEMMA NoSessionTyped == NoSession \in Sessions /\ NoSock \in Socks
BY DEF NoSession, Sessions, Socks

(* What wip_FTPDisconnected leaves. *)
LEMMA DisconnectTyped ==
  ASSUME TypeOK
  PROVE  /\ BothDestroyed \in Tables
         /\ Forgotten \in [Slots -> Seq(Requests)]
         /\ \A s \in Slots : Forgotten[s] = IF s = ftp.ctrl THEN <<>> ELSE asked[s]
         /\ \A s \in Slots : BothDestroyed.channel[s] =
              IF s \in {ftp.ctrl, ftp.data} THEN "free" ELSE tcp.channel[s]
         /\ tcp.number = Cardinality(Valid(tcp)) =>
              BothDestroyed.number = Cardinality(Valid(BothDestroyed))
<1>1. tcp \in Tables /\ ftp.ctrl \in Socks /\ ftp.data \in Socks
      /\ asked \in [Slots -> Seq(Requests)]
  BY DEF TypeOK, Sessions
<1>2. Forgotten \in [Slots -> Seq(Requests)]
      /\ \A s \in Slots : Forgotten[s] = IF s = ftp.ctrl THEN <<>> ELSE asked[s]
  BY <1>1, SlotsFinite DEF Forgotten, Socks
<1>3. /\ Destroy(tcp, ftp.data) \in Tables
      /\ \A s \in Slots : Destroy(tcp, ftp.data).channel[s] =
                            IF s = ftp.data THEN "free" ELSE tcp.channel[s]
      /\ tcp.number = Cardinality(Valid(tcp)) =>
           Destroy(tcp, ftp.data).number = Cardinality(Valid(Destroy(tcp, ftp.data)))
  BY <1>1, DestroyTable
<1> DEFINE t == Destroy(tcp, ftp.data)
<1>4. /\ Destroy(t, ftp.ctrl) \in Tables
      /\ \A s \in Slots : Destroy(t, ftp.ctrl).channel[s] =
                            IF s = ftp.ctrl THEN "free" ELSE t.channel[s]
      /\ t.number = Cardinality(Valid(t)) =>
           Destroy(t, ftp.ctrl).number = Cardinality(Valid(Destroy(t, ftp.ctrl)))
  BY <1>1, <1>3, DestroyTable
<1> QED
  BY <1>2, <1>3, <1>4 DEF BothDestroyed

LEMMA SendTyped ==
  ASSUME TypeOK, NEW cmd \in Orders, Send(cmd)
  PROVE  /\ asked' \in [Slots -> Seq(Requests)]
         /\ \/ asked' = asked
            \/ /\ ftp.session \in Slots
               /\ asked' = [asked EXCEPT ![ftp.session] = Append(@, [cmd |-> cmd, file |-> name])]
<1>1. ftp.session \in Socks /\ asked \in [Slots -> Seq(Requests)]
  BY DEF TypeOK, Sessions
<1>2. CASE asked' = asked
  BY <1>1, <1>2
<1>3. CASE /\ ftp.session # NoSock
           /\ asked' = [asked EXCEPT ![ftp.session] = Append(@, [cmd |-> cmd, file |-> name])]
  <2>1. ftp.session \in Slots /\ [cmd |-> cmd, file |-> name] \in Requests
    BY <1>1, <1>3 DEF Socks, Requests, TypeOK, Named
  <2> QED
    BY <1>1, <1>3, <2>1
<1> QED
  BY <1>2, <1>3 DEF Send

LEMMA GreetedTyped ==
  ASSUME TypeOK, NEW s \in Socks
  PROVE  /\ Greeted(s) \in [Slots -> Seq(Requests)]
         /\ Greeted(s) = IF s = NoSock THEN asked ELSE [asked EXCEPT ![s] = <<Greeting>>]
<1>1. Greeted(s) = IF s = NoSock THEN asked ELSE [asked EXCEPT ![s] = <<Greeting>>]
  BY DEF Greeted, Greeting
<1>2. <<Greeting>> \in Seq(Requests)
  BY DEF Requests
<1> QED
  BY <1>1, <1>2 DEF TypeOK, Socks

(* The steps of the connection to the centre and of opening a session. *)
LEMMA ConnectTypes ==
  ASSUME TypeOK, XMIT_Connect \/ XMIT_Stop \/ Command \/ DisconnectEnds \/ Check \/ Create \/ Start
  PROVE  TypeOK'
<1>1. CASE XMIT_Connect
  <2>1. PICK c \in ClientCreate(tcp, "server") : tcp' = c.tcp /\ server' = c.sock
    BY <1>1 DEF XMIT_Connect
  <2>2. tcp' \in Tables /\ server' \in Socks
    BY <2>1, CreateTable DEF TypeOK, Owners
  <2> QED
    BY <1>1, <2>2 DEF TypeOK, Named, XMIT_Connect, dota, image, wire
<1>2. CASE XMIT_Stop
  <2>1. tcp' \in Tables /\ server' \in Socks
    BY <1>2, DestroyTable DEF XMIT_Stop, TypeOK, Socks
  <2> QED
    BY <1>2, <2>1 DEF TypeOK, Named, XMIT_Stop, dota, image, wire
<1>3. CASE Command
  <2>1. name' \in Files /\ name' \in Names
    BY <1>3 DEF Command, Names
  <2>2. UNCHANGED <<server, dataCount, fileSize, restartCount, image, answer>>
    BY <1>3 DEF Command
  <2>3. CASE DisconnectBegins("closedFirst") /\ UNCHANGED timers
    <3>1. ftp' \in Sessions
      BY <2>3 DEF DisconnectBegins, TypeOK, Sessions, Socks
    <3> QED
      BY <2>1, <2>2, <2>3, <3>1, DisconnectTyped DEF DisconnectBegins, TypeOK, Named, image, Steps
  <2>4. CASE timers' = timers + 1 /\ pc' = "check" /\ UNCHANGED <<tcp, ftp, wire>>
    BY <2>1, <2>2, <2>4 DEF TypeOK, Named, image, wire, Steps
  <2> QED
    BY <1>3, <2>3, <2>4 DEF Command
<1>4. CASE DisconnectEnds
  <2>1. ftp' \in Sessions /\ ftp'.ctrl = NoSock /\ ftp'.session = ftp.session
    BY <1>4 DEF DisconnectEnds, TypeOK, Sessions, NoSession, Socks
  <2>2. Named'
    BY <1>4, <2>1 DEF DisconnectEnds, TypeOK, Named, dota
  <2> QED
    BY <1>4, <2>1, <2>2 DEF TypeOK, DisconnectEnds, dota, image, wire, Steps
<1>5. CASE Check
  BY <1>5 DEF TypeOK, Named, Check, dota, image, wire, Steps
<1>6. CASE Create
  <2>1. PICK c \in ClientCreate(tcp, "ctrl") :
           /\ tcp' = c.tcp /\ ftp' = [ftp EXCEPT !.ctrl = c.sock] /\ asked' = Greeted(c.sock)
    BY <1>6 DEF Create
  <2>2. tcp' \in Tables /\ c.sock \in Socks
    BY <2>1, CreateTable DEF TypeOK, Owners
  <2>3. ftp' \in Sessions /\ asked' \in [Slots -> Seq(Requests)]
    BY <2>1, <2>2, GreetedTyped DEF TypeOK, Sessions
  <2> QED
    BY <1>6, <2>2, <2>3 DEF TypeOK, Named, Create, dota, image, Steps
<1>7. CASE Start
  <2>1. ftp' \in Sessions /\ dataCount' \in Nat
    BY <1>7 DEF Start, TypeOK, Sessions
  <2> QED
    BY <1>7, <2>1 DEF TypeOK, Named, Start, image, wire, Steps
<1> QED
  BY <1>1, <1>2, <1>3, <1>4, <1>5, <1>6, <1>7

LEMMA ReconnectTypes ==
  ASSUME TypeOK, timers > 0, Reconnect
  PROVE  /\ tcp' \in Tables /\ ftp' \in Sessions /\ asked' \in [Slots -> Seq(Requests)]
         /\ timers' \in Nat /\ dataCount' \in Nat
         /\ sending' = None \/ sending' \in [file : Files, next : Nat]
<1>1. PICK c \in ClientCreate(IF ftp.ctrl = NoSock THEN tcp ELSE BothDestroyed, "ctrl") :
         LET open == IF ftp.ctrl = NoSock THEN ftp ELSE NoSession IN
         /\ tcp' = c.tcp
         /\ ftp' = [open EXCEPT !.ctrl = c.sock, !.session = IF @ = NoSock THEN c.sock ELSE @]
         /\ asked' = IF c.sock = NoSock THEN Forgotten
                     ELSE [Forgotten EXCEPT ![c.sock] = <<Greeting>>]
  BY DEF Reconnect, Greeting
<1>2. (IF ftp.ctrl = NoSock THEN tcp ELSE BothDestroyed) \in Tables
  BY DisconnectTyped DEF TypeOK
<1>3. tcp' \in Tables /\ c.sock \in Socks
  BY <1>1, <1>2, CreateTable DEF Owners
<1>4. (IF ftp.ctrl = NoSock THEN ftp ELSE NoSession) \in Sessions
  BY NoSessionTyped DEF TypeOK
<1>5. ftp' \in Sessions
  BY <1>1, <1>3, <1>4 DEF Sessions
<1>6. asked' \in [Slots -> Seq(Requests)]
  <2>1. CASE c.sock = NoSock
    BY <1>1, <2>1, DisconnectTyped
  <2>2. CASE c.sock # NoSock
    <3>1. c.sock \in Slots /\ <<Greeting>> \in Seq(Requests)
      BY <1>3, <2>2 DEF Socks, Requests
    <3>2. asked' = [Forgotten EXCEPT ![c.sock] = <<Greeting>>]
      BY <1>1, <2>2
    <3> QED
      BY <3>1, <3>2, DisconnectTyped
  <2> QED
    BY <2>1, <2>2
<1> QED
  BY <1>3, <1>5, <1>6 DEF Reconnect, TypeOK

LEMMA NoResponseTypes == ASSUME TypeOK, NoResponse PROVE TypeOK'
<1>1. UNCHANGED <<server, name, fileSize, restartCount, image, pc, answer>>
  BY DEF NoResponse
<1>2. CASE timers > 0 /\ Reconnect
  BY <1>1, <1>2, ReconnectTypes DEF TypeOK, Named, image
<1>3. CASE timers > 0 /\ timers' = timers - 1 /\ UNCHANGED <<tcp, ftp, dataCount, wire>>
  BY <1>1, <1>3 DEF TypeOK, Named, image, wire
<1> QED
  BY <1>2, <1>3 DEF NoResponse

(* An answer is that to the oldest request on one of the channels. *)
LEMMA CtrlHandlerPicks ==
  ASSUME TypeOK, CtrlHandler
  PROVE  \E s \in Slots :
           /\ tcp.channel[s] = "ctrl" /\ Len(asked[s]) > 0 /\ asked[s] \in Seq(Requests)
           /\ asked[s][1] \in Requests
           /\ answer'.file = asked[s][1].file
           /\ answer'.code \in Codes(asked[s][1].cmd)
           /\ \/ asked' = asked /\ answer'.code # "150"
              \/ asked' = [asked EXCEPT ![s] = Tail(@)] /\ answer'.code # "150"
              \/ /\ answer'.code = "150"
                 /\ asked' = [asked EXCEPT ![s] = <<[asked[s][1] EXCEPT !.cmd = "DATA"]>> \o Tail(@)]
           /\ sending' = IF answer'.code = "150" THEN [file |-> asked[s][1].file, next |-> 1]
                         ELSE sending
<1>1. PICK s \in Slots :
        /\ tcp.channel[s] = "ctrl" /\ asked[s] # <<>>
        /\ \E code \in Codes(Head(asked[s]).cmd), more \in BOOLEAN :
             LET request == Head(asked[s]) IN
             /\ more => code = "other"
             /\ answer' = [code |-> code, file |-> request.file]
             /\ asked' = [asked EXCEPT ![s] =
                  CASE more         -> @
                    [] code = "150" -> <<[request EXCEPT !.cmd = "DATA"]>> \o Tail(@)
                    [] OTHER        -> Tail(@)]
             /\ sending' = IF code = "150" THEN [file |-> request.file, next |-> 1] ELSE sending
  BY DEF CtrlHandler
<1>2. asked \in [Slots -> Seq(Requests)] /\ asked[s] \in Seq(Requests)
  BY DEF TypeOK
<1>3. Head(asked[s]) = asked[s][1] /\ Len(asked[s]) > 0 /\ asked[s][1] \in Requests
  BY <1>1, <1>2
<1>4. PICK code \in Codes(asked[s][1].cmd), more \in BOOLEAN :
        /\ more => code = "other"
        /\ answer' = [code |-> code, file |-> asked[s][1].file]
        /\ asked' = [asked EXCEPT ![s] =
             CASE more         -> @
               [] code = "150" -> <<[asked[s][1] EXCEPT !.cmd = "DATA"]>> \o Tail(@)
               [] OTHER        -> Tail(@)]
        /\ sending' = IF code = "150" THEN [file |-> asked[s][1].file, next |-> 1] ELSE sending
  BY <1>1, <1>3
<1>5. CASE more
  <2>1. asked' = asked /\ code # "150"
    BY <1>2, <1>4, <1>5
  <2> QED
    BY <1>1, <1>2, <1>3, <1>4, <2>1
<1>6. CASE ~more /\ code = "150"
  <2>1. asked' = [asked EXCEPT ![s] = <<[asked[s][1] EXCEPT !.cmd = "DATA"]>> \o Tail(@)]
    BY <1>4, <1>6
  <2> QED
    BY <1>1, <1>2, <1>3, <1>4, <1>6, <2>1
<1>7. CASE ~more /\ code # "150"
  <2>1. asked' = [asked EXCEPT ![s] = Tail(@)]
    BY <1>4, <1>7
  <2> QED
    BY <1>1, <1>2, <1>3, <1>4, <1>7, <2>1
<1> QED
  BY <1>5, <1>6, <1>7

(* Only RETR is answered by 150, and only SIZE by 213. *)
LEMMA CodesOf ==
  ASSUME NEW r \in Requests
  PROVE  /\ r.file \in Names /\ r.cmd \in Orders \cup {"CONNECT"}
         /\ r.cmd # "CONNECT" => r \in [cmd : Orders, file : Files]
         /\ "150" \in Codes(r.cmd) => r.cmd = "RETR"
         /\ "213" \in Codes(r.cmd) => r.cmd = "SIZE"
<1>1. /\ r.file \in Names /\ r.cmd \in Orders \cup {"CONNECT"}
      /\ r.cmd # "CONNECT" => r \in [cmd : Orders, file : Files]
  BY DEF Requests, Greeting, Names
<1>2. "150" \in Codes(r.cmd) => r.cmd = "RETR"
  BY <1>1 DEF Codes, Orders
<1>3. "213" \in Codes(r.cmd) => r.cmd = "SIZE"
  BY <1>1 DEF Codes, Orders
<1> QED
  BY <1>1, <1>2, <1>3

LEMMA CtrlHandlerTypes == ASSUME TypeOK, CtrlHandler PROVE TypeOK'
<1>1. PICK s \in Slots :
        /\ Len(asked[s]) > 0 /\ asked[s] \in Seq(Requests) /\ asked[s][1] \in Requests
        /\ answer'.file = asked[s][1].file
        /\ answer'.code \in Codes(asked[s][1].cmd)
        /\ \/ asked' = asked /\ answer'.code # "150"
           \/ asked' = [asked EXCEPT ![s] = Tail(@)] /\ answer'.code # "150"
           \/ /\ answer'.code = "150"
              /\ asked' = [asked EXCEPT ![s] = <<[asked[s][1] EXCEPT !.cmd = "DATA"]>> \o Tail(@)]
        /\ sending' = IF answer'.code = "150" THEN [file |-> asked[s][1].file, next |-> 1]
                      ELSE sending
  BY CtrlHandlerPicks
<1>2. Tail(asked[s]) \in Seq(Requests)
  BY <1>1
<1>3. asked[s][1].file \in Names /\ (answer'.code \in {"150", "213"} => asked[s][1].file \in Files)
  BY <1>1, CodesOf
<1>4. answer'.code = "150" => [asked[s][1] EXCEPT !.cmd = "DATA"] \in Requests
  <2> SUFFICES ASSUME answer'.code = "150"
               PROVE  [asked[s][1] EXCEPT !.cmd = "DATA"] \in Requests
    OBVIOUS
  <2>1. asked[s][1] \in [cmd : Orders, file : Files]
    BY <1>1, CodesOf
  <2> QED
    BY <2>1 DEF Requests, Orders
<1>5. answer'.code = "150" =>
        <<[asked[s][1] EXCEPT !.cmd = "DATA"]>> \o Tail(asked[s]) \in Seq(Requests)
  BY <1>2, <1>4
<1>6. asked' \in [Slots -> Seq(Requests)]
  BY <1>1, <1>2, <1>5 DEF TypeOK
<1>7. sending' = None \/ sending' \in [file : Files, next : Nat]
  BY <1>1, <1>3 DEF TypeOK
<1>8. restartCount' \in 0 .. 2 /\ pc' = "dispatch"
  BY DEF CtrlHandler, TypeOK
<1>9. UNCHANGED <<tcp, server, ftp, name, dataCount, fileSize, timers, written>>
  BY DEF CtrlHandler, dota, image
<1>10. Named'
  BY <1>8, <1>9 DEF TypeOK, Named
<1>11. answer'.file \in Names /\ (answer'.code = "213" => answer'.file \in Files)
  BY <1>1, <1>3
<1> QED
  BY <1>6, <1>7, <1>8, <1>9, <1>10, <1>11 DEF TypeOK, Steps

LEMMA DispatchTypes ==
  ASSUME TypeOK,
         Logon \/ Open \/ FileSize \/ Passive \/ Transferred \/ Refusal \/ Ignored
  PROVE  TypeOK'
<1>1. answer'.file \in Names /\ pc' \in {"idle", "closed"} /\ pc' \in Steps
  BY DEF Logon, Open, FileSize, Passive, Transferred, Refusal, Ignored, Dispatch, Nothing, Names,
         Steps, DisconnectBegins
<1> USE DEF Named
<1>2. CASE Logon
  <2>1. PICK cmd \in Orders : Send(cmd)
    BY <1>2 DEF Logon, Dispatch, Orders
  <2>2. asked' \in [Slots -> Seq(Requests)]
    BY <2>1, SendTyped
  <2> QED
    BY <1>1, <1>2, <2>2 DEF Logon, TypeOK, dota, image, Steps
<1>3. CASE Open
  <2>1. /\ UNCHANGED <<server, name, dataCount, fileSize, restartCount, timers>>
        /\ written' \in Seq(Chunks)
    <3>1. written' = written \/ written' = <<>>
      BY <1>3 DEF Open
    <3>2. written \in Seq(Chunks) /\ <<>> \in Seq(Chunks)
      BY DEF TypeOK
    <3>3. written' \in Seq(Chunks)
      BY <3>1, <3>2
    <3> QED
      BY <1>3, <3>3 DEF Open, dota
  <2>2. CASE UNCHANGED <<tcp, ftp, wire>>
    BY <1>1, <2>1, <2>2 DEF TypeOK, dota, wire, Steps
  <2>3. CASE /\ ftp' = [ftp EXCEPT !.ev = "OPEN", !.handler = TRUE, !.size = 0]
             /\ Send("SIZE") /\ UNCHANGED <<tcp, sending>>
    <3>1. ftp' \in Sessions
      BY <2>3 DEF TypeOK, Sessions
    <3>2. asked' \in [Slots -> Seq(Requests)]
      BY <2>3, SendTyped DEF Orders
    <3> QED
      BY <1>1, <2>1, <2>3, <3>1, <3>2 DEF TypeOK, dota, Steps
  <2>4. CASE Disconnect
    BY <1>1, <2>1, <2>4, DisconnectTyped, NoSessionTyped DEF Disconnect, NoSession, TypeOK, dota, Steps
  <2> QED
    BY <1>3, <2>2, <2>3, <2>4 DEF Open
<1>4. CASE FileSize
  <2>1. asked' \in [Slots -> Seq(Requests)]
    BY <1>4, SendTyped DEF FileSize, Orders
  <2>2. Size[answer.file] \in Nat
    BY <1>4, FtpAssumption DEF FileSize, Dispatch, TypeOK
  <2>3. ftp' = [ftp EXCEPT !.size = Size[answer.file]] /\ ftp' \in Sessions
    BY <1>4, <2>2 DEF FileSize, TypeOK, Sessions
  <2>4. ftp'.ctrl = ftp.ctrl /\ ftp'.session = ftp.session
    BY <2>3 DEF TypeOK, Sessions
  <2> QED
    BY <1>1, <1>4, <2>1, <2>3, <2>4 DEF FileSize, TypeOK, dota, image
<1>5. CASE Passive
  <2>1. CASE ftp.data = NoSock /\ ftp.handler
    <3>1. PICK c \in ClientCreate(tcp, "data") :
            /\ tcp' = c.tcp /\ ftp' = [ftp EXCEPT !.data = c.sock]
            /\ IF c.sock = NoSock THEN UNCHANGED asked ELSE Send("RETR")
      BY <1>5, <2>1 DEF Passive
    <3>2. tcp' \in Tables /\ c.sock \in Socks
      BY <3>1, CreateTable DEF TypeOK, Owners
    <3>3. ftp' \in Sessions /\ ftp'.ctrl = ftp.ctrl /\ ftp'.session = ftp.session
      BY <3>1, <3>2 DEF TypeOK, Sessions
    <3>4. asked' \in [Slots -> Seq(Requests)]
      <4>1. CASE c.sock = NoSock
        BY <3>1, <4>1 DEF TypeOK
      <4>2. CASE c.sock # NoSock
        BY <3>1, <4>2, SendTyped DEF Orders
      <4> QED
        BY <4>1, <4>2
    <3> QED
      BY <1>1, <1>5, <3>2, <3>3, <3>4 DEF Passive, TypeOK, dota, image, Steps
  <2>2. CASE ~(ftp.data = NoSock /\ ftp.handler)
    BY <1>1, <1>5, <2>2 DEF Passive, TypeOK, dota, image, Steps
  <2> QED
    BY <2>1, <2>2
<1>6. CASE Transferred
  <2>1. ftp' \in Sessions
    BY <1>6 DEF Transferred, TypeOK, Sessions
  <2> QED
    BY <1>1, <1>6, <2>1 DEF Transferred, TypeOK, dota, image, wire, Steps
<1>7. CASE Refusal
  <2>1. ftp' \in Sessions
    BY <1>7 DEF Refusal, DisconnectBegins, TypeOK, Sessions, Socks
  <2> QED
    BY <1>1, <1>7, <2>1, DisconnectTyped DEF Refusal, DisconnectBegins, TypeOK, dota, image, Steps
<1>8. CASE Ignored
  BY <1>1, <1>8 DEF Ignored, TypeOK, dota, image, wire, Steps
<1> QED
  BY <1>2, <1>3, <1>4, <1>5, <1>6, <1>7, <1>8

(* A chunk that is received is added to those written. *)
LEMMA ReceivedTyped ==
  ASSUME TypeOK, Received
  PROVE  /\ sending \in [file : Files, next : Nat]
         /\ written' \in Seq(Chunks) /\ Len(written') = Len(written) + 1
         /\ written'[Len(written) + 1] = <<sending.file, sending.next>>
         /\ \A i \in 1 .. Len(written) : written'[i] = written[i]
<1>1. sending \in [file : Files, next : Nat] /\ written \in Seq(Chunks)
  BY DEF TypeOK, Received
<1>2. <<sending.file, sending.next>> \in Chunks
  BY <1>1 DEF Chunks, Names
<1>3. written' = Append(written, <<sending.file, sending.next>>)
  BY DEF Received
<1> HIDE DEF Chunks
<1> DEFINE chunk == <<sending.file, sending.next>>
<1>4. chunk \in Chunks /\ written' = Append(written, chunk)
  BY <1>2, <1>3
<1> HIDE DEF chunk
<1>5. /\ written' \in Seq(Chunks) /\ Len(written') = Len(written) + 1
      /\ written'[Len(written) + 1] = chunk
      /\ \A i \in 1 .. Len(written) : written'[i] = written[i]
  BY <1>1, <1>4
<1> QED
  BY <1>1, <1>5 DEF chunk

LEMMA TotalTyped == ASSUME TypeOK PROVE Total \in [size : Nat, of : Names]
<1>1. ftp.size \in Nat /\ name \in Names /\ fileSize \in [size : Nat, of : Names]
  BY DEF TypeOK, Sessions
<1> QED
  BY <1>1 DEF Total

LEMMA DataTypes == ASSUME TypeOK, CompareFails \/ More \/ Finished PROVE TypeOK'
<1> USE DEF Named
<1>1. CASE CompareFails
  <2>1. Received /\ written' \in Seq(Chunks)
    BY <1>1, ReceivedTyped DEF CompareFails
  <2> QED
    BY <1>1, <2>1, DisconnectTyped, NoSessionTyped DEF CompareFails, Disconnect, NoSession, TypeOK
<1>2. CASE More
  <2>1. Received /\ written' \in Seq(Chunks) /\ sending \in [file : Files, next : Nat]
    BY <1>2, ReceivedTyped DEF More
  <2>2. sending' \in [file : Files, next : Nat]
    BY <1>2, <2>1 DEF More
  <2>3. fileSize' \in [size : Nat, of : Names]
    BY <1>2, TotalTyped DEF More
  <2> QED
    BY <1>2, <2>1, <2>2, <2>3 DEF More, TypeOK
<1>3. CASE Finished
  <2>1. Received /\ written' \in Seq(Chunks)
    BY <1>3, ReceivedTyped DEF Finished
  <2>2. fileSize' \in [size : Nat, of : Names]
    BY <1>3, TotalTyped DEF Finished
  <2>3. pc' \in {pc, "reset"}
    BY <1>3 DEF Finished
  <2>4. /\ tcp' \in Tables /\ ftp' = NoSession /\ ftp' \in Sessions
        /\ asked' \in [Slots -> Seq(Requests)] /\ sending' = None
    BY <1>3, DisconnectTyped, NoSessionTyped DEF Finished, Disconnect
  <2>5. UNCHANGED <<server, name, restartCount, timers, answer>> /\ dataCount' = 0
    BY <1>3 DEF Finished
  <2>6. Named'
    BY <2>3, <2>4, <2>5 DEF TypeOK, NoSession
  <2> QED
    BY <2>1, <2>2, <2>3, <2>4, <2>5, <2>6 DEF TypeOK, Steps
<1> QED
  BY <1>1, <1>2, <1>3

LEMMA ResetTypes == ASSUME TypeOK, Reset PROVE TypeOK'
BY FtpAssumption DEF Reset, TypeOK, Named, Tables, Sessions, Names, Requests, Steps, Socks,
   Owners, NoSession, NoSock, Nothing

LEMMA NextCases ==
  ASSUME Next
  PROVE  \/ pc # "reset" /\ XMIT_Connect
         \/ pc # "reset" /\ XMIT_Stop
         \/ Command \/ DisconnectEnds \/ Check \/ Create \/ Start
         \/ CtrlHandler \/ Logon \/ Open \/ FileSize \/ Passive \/ Transferred \/ Refusal \/ Ignored
         \/ CompareFails \/ More \/ Finished
         \/ pc # "reset" /\ NoResponse
         \/ Reset
BY DEF Next, Worker

LEMMA StutterTypes == ASSUME TypeOK, UNCHANGED vars PROVE TypeOK'
BY DEF TypeOK, Named, vars, dota, image, wire

LEMMA NextTypes == ASSUME TypeOK, [Next]_vars PROVE TypeOK'
BY NextCases, ConnectTypes, NoResponseTypes, CtrlHandlerTypes, DispatchTypes, DataTypes,
   ResetTypes, StutterTypes

(* Every field of the upgrade keeps its type, the counts included. *)
THEOREM TypesHold == Spec => []TypeOK
BY InitTypes, NextTypes, PTL DEF Spec
-----------------------------------------------------------------------------
(* The number of the channels in use. *)
Counted == failed \/ tcp.number = Cardinality(Valid(tcp))

LEMMA InitCounted == (Init => Counted) /\ (Reset => Counted')
<1>1. ASSUME NEW t, t = [channel |-> [s \in Slots |-> "free"], number |-> 0]
      PROVE  t.number = Cardinality(Valid(t))
  <2>1. Valid(t) = {}
    BY <1>1 DEF Valid
  <2> QED
    BY <1>1, <2>1, FS_EmptySet
<1>2. Init => Counted
  BY <1>1 DEF Init, InitRam, Counted
<1>3. Reset => Counted'
  BY <1>1 DEF Reset, Counted
<1> QED
  BY <1>2, <1>3

LEMMA NextCounted == ASSUME TypeOK, Counted, [Next]_vars PROVE Counted'
<1>1. tcp \in Tables /\ server \in Socks /\ BothDestroyed \in Tables
  BY DisconnectTyped DEF TypeOK
<1>2. CASE UNCHANGED <<tcp, failed>>
  BY <1>2 DEF Counted, Valid
<1>3. CASE tcp' = BothDestroyed /\ failed' = failed
  BY <1>3, DisconnectTyped DEF Counted
<1>4. ASSUME NEW t \in Tables, NEW owner \in Owners, NEW c \in ClientCreate(t, owner),
             failed \/ t.number = Cardinality(Valid(t)),
             tcp' = c.tcp, failed' = (failed \/ c.failed)
      PROVE  Counted'
  BY <1>4, CreateTable DEF Counted
<1>5. CASE XMIT_Connect
  BY <1>1, <1>4, <1>5 DEF XMIT_Connect, Counted, Owners
<1>6. CASE Create
  BY <1>1, <1>4, <1>6 DEF Create, Counted, Owners
<1>7. CASE Passive
  <2>1. CASE UNCHANGED <<tcp, failed>>
    BY <1>2, <2>1
  <2>2. CASE \E c \in ClientCreate(tcp, "data") : tcp' = c.tcp /\ failed' = (failed \/ c.failed)
    BY <1>1, <1>4, <2>2 DEF Counted, Owners
  <2> QED
    BY <1>7, <2>1, <2>2 DEF Passive
<1>8. CASE NoResponse
  <2>1. CASE UNCHANGED <<tcp, failed>>
    BY <1>2, <2>1
  <2>2. CASE Reconnect
    <3> DEFINE t == IF ftp.ctrl = NoSock THEN tcp ELSE BothDestroyed
    <3>1. PICK c \in ClientCreate(t, "ctrl") : tcp' = c.tcp /\ failed' = (failed \/ c.failed)
      BY <2>2 DEF Reconnect
    <3>2. t \in Tables /\ (failed \/ t.number = Cardinality(Valid(t)))
      BY <1>1, DisconnectTyped DEF Counted
    <3> HIDE DEF t
    <3> QED
      BY <1>4, <3>1, <3>2 DEF Owners
  <2> QED
    BY <1>8, <2>1, <2>2 DEF NoResponse
<1>9. CASE XMIT_Stop
  BY <1>1, <1>9, DestroyTable DEF XMIT_Stop, Counted, ghosts
<1>10. CASE Command \/ DisconnectEnds \/ Check \/ Start
  BY <1>2, <1>3, <1>10 DEF Command, DisconnectEnds, Check, Start, DisconnectBegins, ghosts
<1>11. CASE CtrlHandler \/ Logon \/ Open \/ FileSize \/ Transferred \/ Refusal \/ Ignored
  BY <1>2, <1>3, <1>11
     DEF CtrlHandler, Logon, Open, FileSize, Transferred, Refusal, Ignored, DisconnectBegins,
         Disconnect, ghosts
<1>12. CASE CompareFails \/ More \/ Finished
  BY <1>2, <1>3, <1>12 DEF CompareFails, More, Finished, Disconnect, ghosts
<1>13. CASE Reset
  BY <1>13, InitCounted
<1>14. CASE UNCHANGED vars
  BY <1>2, <1>14 DEF vars, ghosts
<1> QED
  BY <1>5, <1>6, <1>7, <1>8, <1>9, <1>10, <1>11, <1>12, <1>13, <1>14, NextCases
-----------------------------------------------------------------------------
(***************************************************************************)
(* The answers counted.  A data channel takes two: the one that erases the *)
(* flash (200) and the one that opens the channel (227).                   *)
(***************************************************************************)
AnswersOK ==
  /\ ftp.handler => restartCount >= 1
  /\ pc = "dispatch" => restartCount >= 1
  /\ pc = "dispatch" /\ ftp.handler => restartCount = 2
  /\ ftp.data # NoSock => restartCount = 2

LEMMA InitAnswers == Init => AnswersOK
BY DEF Init, InitRam, AnswersOK, NoSession

LEMMA NextAnswers == ASSUME TypeOK, AnswersOK, [Next]_vars PROVE AnswersOK'
<1>1. restartCount \in 0 .. 2 /\ ftp \in Sessions
  BY DEF TypeOK
<1>2. NoSession.handler = FALSE /\ NoSession.data = NoSock
  BY DEF NoSession
<1> USE DEF AnswersOK
<1>3. CASE UNCHANGED <<ftp, restartCount>> /\ (pc' = "dispatch" => pc = "dispatch")
  BY <1>3
<1>4. CASE ftp' = NoSession /\ restartCount' = restartCount /\ (pc' = "dispatch" => pc = "dispatch")
  BY <1>2, <1>4
<1>5. CASE /\ ftp'.handler = ftp.handler /\ ftp'.data \in {ftp.data, NoSock}
           /\ restartCount' = restartCount /\ (pc' = "dispatch" => pc = "dispatch")
  BY <1>5
<1>6. CASE XMIT_Connect \/ XMIT_Stop \/ Check
  BY <1>3, <1>6 DEF XMIT_Connect, XMIT_Stop, Check
<1>7. CASE Command \/ Refusal
  <2>1. CASE DisconnectBegins("closedFirst") \/ DisconnectBegins("closed")
    BY <1>1, <1>5, <1>7, <2>1 DEF Command, Refusal, DisconnectBegins, Sessions
  <2>2. CASE UNCHANGED ftp
    BY <1>3, <1>7, <2>2 DEF Command, Refusal, DisconnectBegins
  <2> QED
    BY <1>7, <2>1, <2>2 DEF Command, Refusal
<1>8. CASE DisconnectEnds
  BY <1>1, <1>8 DEF DisconnectEnds, NoSession
<1>9. CASE Create \/ Start
  BY <1>1, <1>5, <1>9 DEF Create, Start, Sessions
<1>10. CASE CtrlHandler
  BY <1>1, <1>10 DEF CtrlHandler
<1>11. CASE Logon \/ Ignored
  BY <1>3, <1>11 DEF Logon, Ignored
<1>12. CASE Open
  BY <1>1, <1>2, <1>12 DEF Open, Dispatch, Disconnect, Sessions
<1>13. CASE FileSize \/ Transferred
  BY <1>1, <1>5, <1>13 DEF FileSize, Transferred, Sessions
<1>14. CASE Passive
  BY <1>1, <1>14 DEF Passive, Dispatch, Sessions
<1>15. CASE CompareFails \/ More \/ Finished
  BY <1>3, <1>4, <1>15 DEF CompareFails, More, Finished, Disconnect, Received
<1>16. CASE NoResponse
  <2>1. CASE UNCHANGED ftp
    BY <1>3, <1>16, <2>1 DEF NoResponse
  <2>2. CASE Reconnect
    <3>1. ftp'.handler \in {ftp.handler, FALSE} /\ ftp'.data \in {ftp.data, NoSock}
      BY <1>1, <1>2, <2>2 DEF Reconnect, Sessions, NoSession
    <3> QED
      BY <1>16, <3>1 DEF NoResponse
  <2> QED
    BY <1>16, <2>1, <2>2 DEF NoResponse
<1>17. CASE Reset
  BY <1>2, <1>17 DEF Reset
<1>18. CASE UNCHANGED vars
  BY <1>3, <1>18 DEF vars
<1> QED
  BY <1>6, <1>7, <1>8, <1>9, <1>10, <1>11, <1>12, <1>13, <1>14, <1>15, <1>16, <1>17, <1>18,
     NextCases

(***************************************************************************)
(* The no-response timer finds no data channel while it still connects:    *)
(* whichever session it is of, it leaves a download alone.                 *)
(***************************************************************************)
THEOREM TimerHarmless == Spec => TimerLeavesDownload
<1>1. Init => TypeOK /\ AnswersOK
  BY InitTypes, InitAnswers
<1>2. TypeOK /\ AnswersOK /\ [Next]_vars => (TypeOK /\ AnswersOK)'
  BY NextTypes, NextAnswers
<1>3. TypeOK /\ AnswersOK /\ [Next]_vars =>
        [NoResponse => ftp.data = NoSock \/ UNCHANGED <<tcp, ftp, dataCount>>]_vars
  BY DEF NoResponse, AnswersOK, TypeOK
<1> QED
  BY <1>1, <1>2, <1>3, PTL DEF Spec, TimerLeavesDownload
-----------------------------------------------------------------------------
(***************************************************************************)
(* What holds until the no-response timer comes between two steps of the   *)
(* worker.                                                                 *)
(***************************************************************************)

(* Every channel in use has its owner. *)
Owned == \A s \in Slots :
  /\ tcp.channel[s] = "server" => s = server
  /\ tcp.channel[s] = "ctrl" => s = ftp.ctrl
  /\ tcp.channel[s] = "data" => s = ftp.data

(* Without a control channel nothing is left of a client; with one, its    *)
(* session is on it, but for the steps that open and close it.             *)
SessionOK ==
  /\ ftp.ctrl = NoSock => ftp.data = NoSock /\ ~ftp.handler /\ ftp.size = 0
  /\ ftp.session = IF pc \in {"closed", "closedFirst", "start"} THEN NoSock ELSE ftp.ctrl
  /\ ftp.session = NoSock \/ ~ftp.handler => ftp.data = NoSock
  /\ pc \in {"closed", "closedFirst"} =>
       \A s \in Slots : tcp.channel[s] # "ctrl" /\ asked[s] = <<>>
  /\ pc \in {"check", "create"} => ftp.ctrl = NoSock
  /\ pc \in {"start", "dispatch"} => ftp.ctrl # NoSock
  /\ pc = "start" => ~ftp.handler
  /\ ftp.handler => ftp.ev # "DONE"

(* The requests without an answer are those of the session, about the file *)
(* of the last command; the file itself is asked for once, before any      *)
(* chunk of it comes.                                                      *)
AskedOK ==
  \A s \in Slots : \A i \in 1 .. Len(asked[s]) :
    /\ s = ftp.ctrl
    /\ asked[s][i].cmd # "CONNECT" => asked[s][i].file = name
    /\ asked[s][i].cmd = "RETR" =>
         /\ ftp.data # NoSock /\ sending = None /\ dataCount = 0
         /\ \A j \in 1 .. Len(asked[s]) : asked[s][j].cmd = "RETR" => j = i

(* The sizes announced are those of the files. *)
SizesOK ==
  /\ pc \notin {"closed", "closedFirst"} => ftp.size = 0 \/ ftp.size = Size[name]
  /\ pc = "dispatch" /\ answer.code = "213" => answer.file = name
  /\ fileSize.size > 0 => fileSize.of \in Files /\ fileSize.size = Size[fileSize.of]

(* What was written since the flash was erased is the file of the last     *)
(* command, from its first chunk on, and the count is that of its chunks.  *)
DownloadOK ==
  /\ ftp.data = NoSock => sending = None
  /\ ftp.session # NoSock /\ ftp.data = NoSock => dataCount = 0
  /\ ftp.session # NoSock /\ ftp.handler =>
       /\ dataCount = Len(written)
       /\ \A i \in 1 .. Len(written) : written[i] = <<name, i>>
  /\ sending # None => sending.file = name /\ sending.next = Len(written) + 1

(* The image is the file, but for a last page that was not compared. *)
Image(chunks) ==
  /\ Len(chunks) = fileSize.size
  /\ fileSize.of = name => Len(chunks) = Size[name]
  /\ \A i \in 1 .. Len(chunks) :
       \/ chunks[i] = <<name, i>>
       \/ chunks[i] = <<None, i>> /\ i > (Len(chunks) \div PageChunks) * PageChunks

InstalledOK == pc = "reset" => Image(installed)

Regular == Owned /\ SessionOK /\ AskedOK /\ SizesOK /\ DownloadOK /\ InstalledOK

Undisturbed == ~raced => Regular

(* A power-up, a reset included. *)
LEMMA FreshRegular == (Init => Regular) /\ (Reset => Regular')
<1>1. Init => Regular
  BY DEF Init, InitRam, Regular, Owned, SessionOK, AskedOK, SizesOK, DownloadOK, InstalledOK,
         NoSession
<1>2. Reset => Regular'
  BY DEF Reset, Regular, Owned, SessionOK, AskedOK, SizesOK, DownloadOK, InstalledOK,
         NoSession
<1> QED
  BY <1>1, <1>2

LEMMA StutterRegular == ASSUME Regular, UNCHANGED vars PROVE Regular'
BY DEF Regular, Owned, SessionOK, AskedOK, SizesOK, DownloadOK, InstalledOK, Image, vars, dota,
       image, wire

(* The connection to the centre does not touch the client. *)
LEMMA CentreRegular ==
  ASSUME TypeOK, Regular, pc # "reset", XMIT_Connect \/ XMIT_Stop
  PROVE  Regular'
<1>1. UNCHANGED <<ftp, name, dataCount, fileSize, written, installed, pc, answer, asked, sending>>
  BY DEF XMIT_Connect, XMIT_Stop, dota, image, wire
<1>2. /\ tcp.channel \in [Slots -> Owners \cup {"free"}]
      /\ \A s \in Slots : tcp'.channel[s] = "ctrl" => tcp.channel[s] = "ctrl"
      /\ \A s \in Slots : tcp'.channel[s] = "data" => tcp.channel[s] = "data"
      /\ \A s \in Slots : tcp'.channel[s] = "server" => s = server'
  <2>1. CASE XMIT_Connect
    <3>1. PICK c \in ClientCreate(tcp, "server") : tcp' = c.tcp /\ server' = c.sock
      BY <2>1 DEF XMIT_Connect
    <3>2. /\ c.sock = NoSock => tcp'.channel = tcp.channel
          /\ c.sock # NoSock => tcp'.channel = [tcp.channel EXCEPT ![c.sock] = "server"]
          /\ tcp.channel \in [Slots -> Owners \cup {"free"}]
      <4>1. tcp \in Tables /\ "server" \in Owners
        BY DEF TypeOK, Owners
      <4>2. tcp.channel \in [Slots -> Owners \cup {"free"}]
        BY <4>1 DEF Tables
      <4> QED
        BY <3>1, <4>1, <4>2, CreateTable
    <3>3. server = NoSock /\ \A s \in Slots : tcp.channel[s] # "server"
      BY <2>1, SlotsFinite DEF XMIT_Connect, Regular, Owned
    <3> QED
      BY <3>1, <3>2, <3>3
  <2>2. CASE XMIT_Stop
    <3>1. \A s \in Slots : tcp'.channel[s] = IF s = server THEN "free" ELSE tcp.channel[s]
      BY <2>2, DestroyTable DEF XMIT_Stop, TypeOK
    <3> QED
      BY <3>1 DEF TypeOK, Tables, Regular, Owned
  <2> QED
    BY <2>1, <2>2
<1>3. Owned'
  BY <1>1, <1>2 DEF Regular, Owned
<1>4. SessionOK'
  BY <1>1, <1>2 DEF Regular, SessionOK
<1>5. AskedOK' /\ SizesOK' /\ DownloadOK' /\ InstalledOK'
  BY <1>1 DEF Regular, AskedOK, SizesOK, DownloadOK, InstalledOK
<1> QED
  BY <1>3, <1>4, <1>5 DEF Regular

(* What wip_FTPDisconnected leaves has no channel and no request. *)
LEMMA ClosedTable ==
  ASSUME TypeOK, Regular
  PROVE  /\ \A s \in Slots : Forgotten[s] = <<>>
         /\ \A s \in Slots : BothDestroyed.channel[s] \notin {"ctrl", "data"}
         /\ \A s \in Slots : BothDestroyed.channel[s] = "server" => s = server
<1>1. \A s \in Slots : s # ftp.ctrl => asked[s] = <<>>
  <2> SUFFICES ASSUME NEW s \in Slots, asked[s] # <<>> PROVE s = ftp.ctrl
    OBVIOUS
  <2>1. asked[s] \in Seq(Requests) /\ 1 \in 1 .. Len(asked[s])
    BY DEF TypeOK
  <2> QED
    BY <2>1 DEF Regular, AskedOK
<1> QED
  BY <1>1, DisconnectTyped DEF Regular, Owned

(* The end of a session in one step. *)
LEMMA DisconnectRegular ==
  ASSUME TypeOK, Regular, Disconnect, UNCHANGED server, pc' \in {"idle", "reset"}
  PROVE  Owned' /\ SessionOK' /\ AskedOK' /\ DownloadOK' /\ ftp'.size = 0
<1>1. tcp' = BothDestroyed /\ ftp' = NoSession /\ asked' = Forgotten /\ sending' = None
  BY DEF Disconnect
<1>2. Owned'
  BY <1>1, ClosedTable DEF Owned
<1>3. AskedOK'
  BY <1>1, ClosedTable DEF AskedOK
<1>4. SessionOK' /\ DownloadOK' /\ ftp'.size = 0
  BY <1>1 DEF SessionOK, DownloadOK, NoSession
<1> QED
  BY <1>2, <1>3, <1>4

(* Its first part, of the two. *)
LEMMA BeginsRegular ==
  ASSUME TypeOK, Regular, NEW next \in {"closed", "closedFirst"}, DisconnectBegins(next),
         UNCHANGED <<server, fileSize, installed>>, pc # "reset"
  PROVE  Regular'
<1>1. /\ tcp' = BothDestroyed /\ asked' = Forgotten /\ sending' = None
      /\ pc' \in {"closed", "closedFirst"}
      /\ ftp' = [ftp EXCEPT !.data = NoSock, !.session = NoSock]
  BY DEF DisconnectBegins
<1>2. /\ ftp'.data = NoSock /\ ftp'.session = NoSock /\ ftp'.ctrl = ftp.ctrl
      /\ ftp'.handler = ftp.handler /\ ftp'.ev = ftp.ev /\ ftp'.size = ftp.size
  BY <1>1 DEF TypeOK, Sessions
<1>3. Owned'
  BY <1>1, ClosedTable DEF Owned
<1>4. AskedOK'
  BY <1>1, ClosedTable DEF AskedOK
<1>5. SessionOK'
  BY <1>1, <1>2, ClosedTable DEF Regular, SessionOK
<1>6. SizesOK' /\ DownloadOK'
  BY <1>1, <1>2 DEF Regular, SizesOK, DownloadOK
<1>7. InstalledOK'
  BY <1>1 DEF InstalledOK
<1> QED
  BY <1>3, <1>4, <1>5, <1>6, <1>7 DEF Regular

LEMMA CommandRegular == ASSUME TypeOK, Regular, Command PROVE Regular'
<1>1. pc = "idle" /\ UNCHANGED <<server, dataCount, fileSize, written, installed, answer>>
  BY DEF Command, image
<1>2. CASE DisconnectBegins("closedFirst")
  BY <1>1, <1>2, BeginsRegular
<1>3. CASE ftp.ctrl = NoSock /\ pc' = "check" /\ UNCHANGED <<tcp, ftp, wire>>
  <2>1. ftp.data = NoSock /\ ~ftp.handler /\ ftp.size = 0 /\ ftp.session = NoSock
    BY <1>1, <1>3 DEF Regular, SessionOK
  <2>2. \A s \in Slots : asked[s] = <<>>
    <3>1. Forgotten = asked
      BY <1>3 DEF Forgotten
    <3> QED
      BY <3>1, ClosedTable
  <2>3. Owned' /\ SessionOK' /\ AskedOK'
    BY <1>1, <1>3, <2>1, <2>2 DEF Regular, Owned, SessionOK, AskedOK, wire
  <2>4. SizesOK' /\ DownloadOK' /\ InstalledOK'
    BY <1>1, <1>3, <2>1 DEF Regular, SizesOK, DownloadOK, InstalledOK, wire
  <2> QED
    BY <2>3, <2>4 DEF Regular
<1> QED
  BY <1>2, <1>3 DEF Command

LEMMA EndsRegular == ASSUME TypeOK, Regular, DisconnectEnds PROVE Regular'
<1>1. /\ pc \in {"closed", "closedFirst"} /\ pc' \in {"idle", "check"}
      /\ UNCHANGED <<tcp, server, name, dataCount, fileSize, written, installed, answer, asked,
                     sending>>
  BY DEF DisconnectEnds, dota, image, wire
<1>2. ftp.session = NoSock /\ ftp.data = NoSock
  BY <1>1 DEF Regular, SessionOK
<1>3. ftp' = NoSession
  BY <1>2 DEF DisconnectEnds, NoSession
<1>4. Owned' /\ AskedOK'
  BY <1>1, <1>2, <1>3 DEF Regular, Owned, SessionOK, AskedOK, NoSession
<1>5. SessionOK' /\ SizesOK' /\ DownloadOK' /\ InstalledOK'
  BY <1>1, <1>2, <1>3 DEF Regular, SessionOK, SizesOK, DownloadOK, InstalledOK, NoSession
<1> QED
  BY <1>4, <1>5 DEF Regular

LEMMA CheckRegular == ASSUME TypeOK, Regular, Check PROVE Regular'
BY DEF Check, Regular, Owned, SessionOK, AskedOK, SizesOK, DownloadOK, InstalledOK, dota, image,
       wire

(* A new control channel, from a table without one, is greeted. *)
LEMMA NewSession ==
  ASSUME TypeOK, Regular, NEW t \in Tables, NEW c \in ClientCreate(t, "ctrl"),
         \A s \in Slots : t.channel[s] \notin {"ctrl", "data"}
                          /\ (t.channel[s] = "server" => s = server),
         NEW q \in [Slots -> Seq(Requests)], \A s \in Slots : q[s] = <<>>,
         tcp' = c.tcp, ftp'.ctrl = c.sock, ftp'.data = NoSock,
         asked' = IF c.sock = NoSock THEN q ELSE [q EXCEPT ![c.sock] = <<Greeting>>],
         UNCHANGED server
  PROVE  Owned' /\ AskedOK'
<1>1. /\ c.sock \in Socks
      /\ c.sock = NoSock => c.tcp.channel = t.channel
      /\ c.sock # NoSock => c.sock \in Slots /\ c.tcp.channel = [t.channel EXCEPT ![c.sock] = "ctrl"]
      /\ t.channel \in [Slots -> Owners \cup {"free"}]
  <2>1. "ctrl" \in Owners /\ t.channel \in [Slots -> Owners \cup {"free"}]
    BY DEF Owners, Tables
  <2>2. /\ c.sock \in Socks
        /\ c.sock = NoSock => c.tcp.channel = t.channel
        /\ c.sock # NoSock => /\ c.sock \in Slots \ Valid(t)
                              /\ c.tcp.channel = [t.channel EXCEPT ![c.sock] = "ctrl"]
    BY <2>1, CreateTable
  <2> QED
    BY <2>1, <2>2
<1>2. Owned'
  BY <1>1 DEF Owned
<1>3. AskedOK'
  <2> SUFFICES ASSUME NEW s \in Slots, NEW i \in 1 .. Len(asked'[s])
               PROVE  s = ftp'.ctrl /\ asked'[s][i].cmd = "CONNECT"
    BY DEF AskedOK
  <2>1. CASE c.sock = NoSock
    BY <2>1
  <2>2. CASE c.sock # NoSock
    <3>1. c.sock \in Slots /\ asked' = [q EXCEPT ![c.sock] = <<Greeting>>]
      BY <1>1, <2>2
    <3>2. s = c.sock
      BY <3>1
    <3>3. asked'[s] = <<Greeting>> /\ i = 1
      BY <3>1, <3>2
    <3> QED
      BY <3>2, <3>3 DEF Greeting
  <2> QED
    BY <2>1, <2>2
<1> QED
  BY <1>2, <1>3

LEMMA CreateRegular == ASSUME TypeOK, Regular, Create PROVE Regular'
<1>1. /\ pc = "create"
      /\ UNCHANGED <<server, name, dataCount, fileSize, written, installed, answer, sending>>
  BY DEF Create, dota, image
<1>2. PICK c \in ClientCreate(tcp, "ctrl") :
        /\ tcp' = c.tcp /\ ftp' = [ftp EXCEPT !.ctrl = c.sock] /\ asked' = Greeted(c.sock)
        /\ pc' = IF c.sock = NoSock THEN "idle" ELSE "start"
  BY DEF Create
<1>3. /\ ftp.ctrl = NoSock /\ ftp.data = NoSock /\ ~ftp.handler /\ ftp.size = 0
      /\ ftp.session = NoSock
  BY <1>1 DEF Regular, SessionOK
<1>4. tcp \in Tables /\ c.sock \in Socks
  BY <1>2, CreateTable DEF TypeOK, Owners
<1>5. /\ ftp'.ctrl = c.sock /\ ftp'.data = NoSock /\ ftp'.session = NoSock
      /\ ftp'.size = 0 /\ ~ftp'.handler
  BY <1>2, <1>3 DEF TypeOK, Sessions
<1>6. /\ asked \in [Slots -> Seq(Requests)] /\ \A s \in Slots : asked[s] = <<>>
      /\ asked' = IF c.sock = NoSock THEN asked ELSE [asked EXCEPT ![c.sock] = <<Greeting>>]
  <2>1. Forgotten = asked
    BY <1>3 DEF Forgotten
  <2> QED
    BY <1>2, <1>4, <2>1, ClosedTable, GreetedTyped DEF TypeOK
<1>7. \A s \in Slots : tcp.channel[s] \notin {"ctrl", "data"}
                       /\ (tcp.channel[s] = "server" => s = server)
  BY <1>3, SlotsFinite DEF Regular, Owned
<1>8. Owned' /\ AskedOK'
  BY <1>1, <1>2, <1>4, <1>5, <1>6, <1>7, NewSession
<1>9. SessionOK'
  BY <1>2, <1>5 DEF SessionOK
<1>10. SizesOK' /\ DownloadOK' /\ InstalledOK'
  BY <1>1, <1>2, <1>3, <1>5 DEF Regular, SizesOK, DownloadOK, InstalledOK, NoSession
<1> QED
  BY <1>8, <1>9, <1>10 DEF Regular

LEMMA StartRegular == ASSUME TypeOK, Regular, Start PROVE Regular'
<1>1. /\ pc = "start" /\ pc' = "idle"
      /\ UNCHANGED <<tcp, server, name, fileSize, written, installed, answer, asked, sending>>
  BY DEF Start, image, wire
<1>2. ftp.session = NoSock /\ ftp.ctrl # NoSock /\ ftp.data = NoSock /\ ~ftp.handler
  BY <1>1 DEF Regular, SessionOK
<1>3. ftp' = [ftp EXCEPT !.session = ftp.ctrl] /\ dataCount' = 0
  BY <1>2 DEF Start
<1>4. /\ ftp'.session = ftp.ctrl /\ ftp'.ctrl = ftp.ctrl /\ ftp'.data = ftp.data
      /\ ftp'.handler = ftp.handler /\ ftp'.ev = ftp.ev /\ ftp'.size = ftp.size
  BY <1>3 DEF TypeOK, Sessions
<1>5. Owned' /\ AskedOK'
  BY <1>1, <1>2, <1>3, <1>4 DEF Regular, Owned, AskedOK
<1>6. SessionOK' /\ SizesOK' /\ DownloadOK' /\ InstalledOK'
  BY <1>1, <1>2, <1>3, <1>4 DEF Regular, SessionOK, SizesOK, DownloadOK, InstalledOK
<1> QED
  BY <1>5, <1>6 DEF Regular

(* An answer takes its request off, or turns RETR into the transfer. *)
LEMMA AnswerAsked ==
  ASSUME TypeOK, Regular, CtrlHandler, UNCHANGED <<ftp, name, dataCount>>
  PROVE  /\ AskedOK' /\ ftp.ctrl # NoSock
         /\ answer'.code = "213" => answer'.file = name
         /\ \/ sending' = sending
            \/ /\ sending' = [file |-> name, next |-> 1]
               /\ ftp.data # NoSock /\ dataCount = 0
<1>1. PICK s \in Slots :
        /\ tcp.channel[s] = "ctrl" /\ Len(asked[s]) > 0 /\ asked[s] \in Seq(Requests)
        /\ asked[s][1] \in Requests
        /\ answer'.file = asked[s][1].file
        /\ answer'.code \in Codes(asked[s][1].cmd)
        /\ \/ asked' = asked /\ answer'.code # "150"
           \/ asked' = [asked EXCEPT ![s] = Tail(@)] /\ answer'.code # "150"
           \/ /\ answer'.code = "150"
              /\ asked' = [asked EXCEPT ![s] = <<[asked[s][1] EXCEPT !.cmd = "DATA"]>> \o Tail(@)]
        /\ sending' = IF answer'.code = "150" THEN [file |-> asked[s][1].file, next |-> 1]
                      ELSE sending
  BY CtrlHandlerPicks
<1>2. s = ftp.ctrl /\ ftp.ctrl # NoSock
  BY <1>1, SlotsFinite DEF Regular, Owned
<1>3. asked \in [Slots -> Seq(Requests)]
  BY DEF TypeOK
<1>4. 1 \in 1 .. Len(asked[s])
  BY <1>1
<1>5. /\ asked[s][1].cmd # "CONNECT" => asked[s][1].file = name
      /\ asked[s][1].cmd = "RETR" =>
           /\ ftp.data # NoSock /\ sending = None /\ dataCount = 0
           /\ \A j \in 1 .. Len(asked[s]) : asked[s][j].cmd = "RETR" => j = 1
  BY <1>4 DEF Regular, AskedOK
<1>6. /\ answer'.code = "150" => asked[s][1].cmd = "RETR"
      /\ answer'.code = "213" => asked[s][1].cmd = "SIZE"
  BY <1>1, CodesOf
<1>7. answer'.code = "213" => answer'.file = name
  BY <1>1, <1>5, <1>6
<1>8. \/ sending' = sending /\ answer'.code # "150"
      \/ /\ sending' = [file |-> name, next |-> 1] /\ answer'.code = "150"
         /\ ftp.data # NoSock /\ dataCount = 0
  BY <1>1, <1>5, <1>6
<1>9. AskedOK'
  <2>1. CASE asked' = asked /\ answer'.code # "150"
    <3>1. sending' = sending
      BY <1>1, <2>1
    <3> QED
      BY <2>1, <3>1 DEF Regular, AskedOK
  <2> DEFINE rest == Tail(asked[s])
  <2>2. /\ rest \in Seq(Requests) /\ Len(rest) = Len(asked[s]) - 1
        /\ \A i \in 1 .. Len(rest) : i + 1 \in 1 .. Len(asked[s]) /\ rest[i] = asked[s][i + 1]
    BY <1>1
  <2>3. \A i \in 1 .. Len(rest) :
          /\ rest[i].cmd # "CONNECT" => rest[i].file = name
          /\ rest[i].cmd = "RETR" =>
               /\ ftp.data # NoSock /\ sending = None /\ dataCount = 0
               /\ \A j \in 1 .. Len(rest) : rest[j].cmd = "RETR" => j = i
    <3> SUFFICES ASSUME NEW i \in 1 .. Len(rest)
                 PROVE  /\ rest[i].cmd # "CONNECT" => rest[i].file = name
                        /\ rest[i].cmd = "RETR" =>
                             /\ ftp.data # NoSock /\ sending = None /\ dataCount = 0
                             /\ \A j \in 1 .. Len(rest) : rest[j].cmd = "RETR" => j = i
      OBVIOUS
    <3>1. i + 1 \in 1 .. Len(asked[s]) /\ rest[i] = asked[s][i + 1]
      BY <2>2
    <3>2. /\ rest[i].cmd # "CONNECT" => rest[i].file = name
          /\ rest[i].cmd = "RETR" =>
               /\ ftp.data # NoSock /\ sending = None /\ dataCount = 0
               /\ \A j \in 1 .. Len(asked[s]) : asked[s][j].cmd = "RETR" => j = i + 1
      BY <3>1 DEF Regular, AskedOK
    <3>3. ASSUME rest[i].cmd = "RETR", NEW j \in 1 .. Len(rest), rest[j].cmd = "RETR"
          PROVE  j = i
      <4>1. j + 1 \in 1 .. Len(asked[s]) /\ rest[j] = asked[s][j + 1]
        BY <2>2
      <4>2. j + 1 = i + 1
        BY <3>2, <3>3, <4>1
      <4> QED
        BY <4>2
    <3> QED
      BY <3>2, <3>3
  <2>4. CASE asked' = [asked EXCEPT ![s] = rest] /\ answer'.code # "150"
    <3> SUFFICES ASSUME NEW u \in Slots PROVE
          \A i \in 1 .. Len(asked'[u]) :
            /\ u = ftp.ctrl
            /\ asked'[u][i].cmd # "CONNECT" => asked'[u][i].file = name
            /\ asked'[u][i].cmd = "RETR" =>
                 /\ ftp.data # NoSock /\ sending = None /\ dataCount = 0
                 /\ \A j \in 1 .. Len(asked'[u]) : asked'[u][j].cmd = "RETR" => j = i
      BY <1>8, <2>4 DEF AskedOK
    <3>1. CASE u = s
      <4>1. asked'[u] = rest
        BY <1>3, <2>4, <3>1
      <4> HIDE DEF rest
      <4> QED
        BY <1>2, <2>3, <3>1, <4>1
    <3>2. CASE u # s
      <4>1. asked'[u] = asked[u]
        BY <1>3, <2>4, <3>2
      <4> QED
        BY <4>1 DEF Regular, AskedOK
    <3> QED
      BY <3>1, <3>2
  <2>5. CASE /\ answer'.code = "150"
             /\ asked' = [asked EXCEPT ![s] = <<[asked[s][1] EXCEPT !.cmd = "DATA"]>> \o rest]
    <3> DEFINE head == [asked[s][1] EXCEPT !.cmd = "DATA"]
    <3>1. asked[s][1].cmd = "RETR" /\ asked[s][1].file = name
      BY <1>5, <1>6, <2>5
    <3>2. head.cmd = "DATA" /\ head.file = name /\ head \in Requests
      <4>1. asked[s][1] \in [cmd : Orders, file : Files]
        BY <1>1, <3>1, CodesOf
      <4> QED
        BY <3>1, <4>1 DEF Requests, Orders
    <3> HIDE DEF head
    <3>3. \A i \in 1 .. Len(rest) : rest[i].cmd # "RETR"
      <4> SUFFICES ASSUME NEW i \in 1 .. Len(rest), rest[i].cmd = "RETR" PROVE FALSE
        OBVIOUS
      <4>1. i + 1 \in 1 .. Len(asked[s]) /\ rest[i] = asked[s][i + 1]
        BY <2>2
      <4>2. i + 1 = 1
        BY <1>5, <3>1, <4>1
      <4> QED
        BY <4>2
    <3>4. \A i \in 1 .. Len(<<head>> \o rest) :
            /\ (<<head>> \o rest)[i].cmd # "RETR"
            /\ (<<head>> \o rest)[i].cmd # "CONNECT" => (<<head>> \o rest)[i].file = name
      <4> SUFFICES ASSUME NEW i \in 1 .. Len(<<head>> \o rest)
                   PROVE  /\ (<<head>> \o rest)[i].cmd # "RETR"
                          /\ (<<head>> \o rest)[i].cmd # "CONNECT" =>
                               (<<head>> \o rest)[i].file = name
        OBVIOUS
      <4> HIDE DEF rest
      <4>1. \/ (<<head>> \o rest)[i] = head
            \/ i - 1 \in 1 .. Len(rest) /\ (<<head>> \o rest)[i] = rest[i - 1]
        BY <2>2, <3>2
      <4> QED
        BY <2>3, <3>2, <3>3, <4>1
    <3> SUFFICES ASSUME NEW u \in Slots PROVE
          \A i \in 1 .. Len(asked'[u]) :
            /\ u = ftp.ctrl
            /\ asked'[u][i].cmd # "CONNECT" => asked'[u][i].file = name
            /\ asked'[u][i].cmd # "RETR"
      BY DEF AskedOK
    <3>5. CASE u = s
      <4>1. asked'[u] = <<head>> \o rest
        BY <1>3, <2>5, <3>5 DEF head
      <4> HIDE DEF rest
      <4> QED
        BY <1>2, <3>4, <3>5, <4>1
    <3>6. CASE u # s
      <4>1. asked'[u] = asked[u]
        BY <1>3, <2>5, <3>6
      <4> QED
        BY <1>2, <3>6, <4>1 DEF Regular, AskedOK
    <3> QED
      BY <3>5, <3>6
  <2> QED
    BY <1>1, <2>1, <2>4, <2>5
<1> QED
  BY <1>2, <1>7, <1>8, <1>9

LEMMA CtrlHandlerRegular == ASSUME TypeOK, Regular, CtrlHandler PROVE Regular'
<1>1. /\ pc = "idle" /\ pc' = "dispatch"
      /\ UNCHANGED <<tcp, server, ftp, name, dataCount, fileSize, written, installed>>
  BY DEF CtrlHandler, dota, image
<1>2. /\ AskedOK' /\ ftp.ctrl # NoSock
      /\ answer'.code = "213" => answer'.file = name
      /\ \/ sending' = sending
         \/ /\ sending' = [file |-> name, next |-> 1]
            /\ ftp.data # NoSock /\ dataCount = 0
  BY <1>1, AnswerAsked
<1>3. Owned' /\ SessionOK'
  BY <1>1, <1>2 DEF Regular, Owned, SessionOK
<1>4. SizesOK'
  BY <1>1, <1>2 DEF Regular, SizesOK
<1>5. DownloadOK'
  <2>1. CASE sending' = sending
    BY <1>1, <2>1 DEF Regular, DownloadOK
  <2>2. CASE sending' = [file |-> name, next |-> 1] /\ ftp.data # NoSock /\ dataCount = 0
    <3>1. Len(written) = 0
      BY <2>2 DEF Regular, SessionOK, DownloadOK
    <3> QED
      BY <1>1, <2>2, <3>1 DEF Regular, DownloadOK
  <2> QED
    BY <1>2, <2>1, <2>2
<1>6. InstalledOK'
  BY <1>1 DEF Regular, InstalledOK
<1> QED
  BY <1>2, <1>3, <1>4, <1>5, <1>6 DEF Regular

(* A command of the session goes behind those that wait; RETR goes out     *)
(* only with the data channel it opens.                                    *)
LEMMA SendAsked ==
  ASSUME TypeOK, Regular, pc = "dispatch", NEW cmd \in Orders, Send(cmd),
         ftp'.ctrl = ftp.ctrl, UNCHANGED <<name, dataCount, sending>>,
         \/ cmd # "RETR" /\ ftp'.data = ftp.data
         \/ ftp.data = NoSock /\ ftp'.data # NoSock
  PROVE  AskedOK'
<1>1. asked \in [Slots -> Seq(Requests)]
  BY DEF TypeOK
<1>2. ftp.ctrl # NoSock /\ ftp.session = ftp.ctrl
  BY DEF Regular, SessionOK
<1>3. ftp.data = NoSock =>
        /\ sending = None /\ dataCount = 0
        /\ \A s \in Slots : \A i \in 1 .. Len(asked[s]) : asked[s][i].cmd # "RETR"
  BY <1>2 DEF Regular, DownloadOK, AskedOK
<1>4. CASE asked' = asked
  <2>1. ftp.data # NoSock => ftp'.data # NoSock
    OBVIOUS
  <2> QED
    BY <1>4, <2>1 DEF Regular, AskedOK
<1> DEFINE new == [cmd |-> cmd, file |-> name]
<1>5. CASE /\ ftp.session \in Slots
           /\ asked' = [asked EXCEPT ![ftp.session] = Append(@, new)]
  <2> SUFFICES ASSUME NEW s \in Slots PROVE
        \A i \in 1 .. Len(asked'[s]) :
          /\ s = ftp.ctrl
          /\ asked'[s][i].cmd # "CONNECT" => asked'[s][i].file = name
          /\ asked'[s][i].cmd = "RETR" =>
               /\ ftp'.data # NoSock /\ sending = None /\ dataCount = 0
               /\ \A j \in 1 .. Len(asked'[s]) : asked'[s][j].cmd = "RETR" => j = i
    BY DEF AskedOK
  <2>1. CASE s # ftp.session
    <3>1. asked'[s] = asked[s]
      BY <1>1, <1>5, <2>1
    <3> QED
      BY <1>2, <2>1, <3>1 DEF Regular, AskedOK
  <2>2. CASE s = ftp.session
    <3>1. asked'[s] = Append(asked[s], new) /\ asked[s] \in Seq(Requests)
      BY <1>1, <1>5, <2>2
    <3>2. new.cmd = cmd /\ new.file = name /\ new \in Requests
      BY <1>2, <1>5 DEF Requests, TypeOK, Named, NoSock
    <3> HIDE DEF new
    <3>3. /\ Len(asked'[s]) = Len(asked[s]) + 1
          /\ \A i \in 1 .. Len(asked[s]) : asked'[s][i] = asked[s][i]
          /\ asked'[s][Len(asked[s]) + 1] = new /\ Len(asked[s]) \in Nat
      BY <3>1, <3>2
    <3> DEFINE n == Len(asked[s])
    <3> SUFFICES ASSUME NEW i \in 1 .. n + 1 PROVE
          /\ s = ftp.ctrl
          /\ asked'[s][i].cmd # "CONNECT" => asked'[s][i].file = name
          /\ asked'[s][i].cmd = "RETR" =>
               /\ ftp'.data # NoSock /\ sending = None /\ dataCount = 0
               /\ \A j \in 1 .. n + 1 : asked'[s][j].cmd = "RETR" => j = i
      BY <3>3
    <3>4. CASE i = n + 1
      <4>1. asked'[s][i].cmd = cmd /\ asked'[s][i].file = name
        BY <3>2, <3>3, <3>4
      <4>2. ASSUME cmd = "RETR"
            PROVE  /\ ftp'.data # NoSock /\ sending = None /\ dataCount = 0
                   /\ \A j \in 1 .. n + 1 : asked'[s][j].cmd = "RETR" => j = i
        <5>1. ftp.data = NoSock /\ ftp'.data # NoSock
          BY <4>2
        <5>2. \A j \in 1 .. n : asked'[s][j].cmd # "RETR"
          BY <1>3, <3>3, <5>1
        <5> QED
          BY <1>3, <3>3, <3>4, <5>1, <5>2
      <4> QED
        BY <1>2, <2>2, <4>1, <4>2
    <3>5. CASE i \in 1 .. n
      <4>1. asked'[s][i] = asked[s][i]
        BY <3>3, <3>5
      <4>2. /\ asked[s][i].cmd # "CONNECT" => asked[s][i].file = name
            /\ asked[s][i].cmd = "RETR" =>
                 /\ ftp.data # NoSock /\ sending = None /\ dataCount = 0
                 /\ \A j \in 1 .. n : asked[s][j].cmd = "RETR" => j = i
        BY <3>5 DEF Regular, AskedOK
      <4>3. ASSUME asked[s][i].cmd = "RETR"
            PROVE  \A j \in 1 .. n + 1 : asked'[s][j].cmd = "RETR" => j = i
        <5>1. cmd # "RETR"
          BY <4>2, <4>3
        <5>2. asked'[s][n + 1].cmd # "RETR"
          BY <3>2, <3>3, <5>1
        <5>3. \A j \in 1 .. n : asked'[s][j].cmd = "RETR" => j = i
          BY <3>3, <4>2, <4>3
        <5>4. \A j \in 1 .. n + 1 : j = n + 1 \/ j \in 1 .. n
          BY <3>3
        <5> QED
          BY <5>2, <5>3, <5>4
      <4>4. asked[s][i].cmd = "RETR" => ftp'.data # NoSock
        BY <4>2
      <4> QED
        BY <1>2, <2>2, <4>1, <4>2, <4>3, <4>4
    <3> QED
      BY <3>3, <3>4, <3>5
  <2> QED
    BY <2>1, <2>2
<1> QED
  BY <1>4, <1>5, SendTyped

(* The answers that leave the session as it is, but for a request. *)
LEMMA LogonRegular ==
  ASSUME TypeOK, Regular, Logon \/ Transferred \/ Ignored PROVE Regular'
<1>1. /\ pc = "dispatch" /\ pc' = "idle"
      /\ UNCHANGED <<tcp, server, name, dataCount, fileSize, written, installed, sending>>
      /\ ftp' \in {ftp, [ftp EXCEPT !.ev = "PEER_CLOSE"]}
  BY DEF Logon, Transferred, Ignored, Dispatch, dota, image, wire
<1>2. /\ ftp'.ctrl = ftp.ctrl /\ ftp'.data = ftp.data /\ ftp'.session = ftp.session
      /\ ftp'.size = ftp.size /\ ftp'.handler = ftp.handler /\ ftp'.ev \in {ftp.ev, "PEER_CLOSE"}
  BY <1>1 DEF TypeOK, Sessions
<1>3. AskedOK'
  <2>1. CASE asked' = asked
    BY <1>1, <1>2, <2>1 DEF Regular, AskedOK
  <2>2. ASSUME NEW cmd \in {"USER", "PASS", "TYPE"}, Send(cmd) PROVE AskedOK'
    <3>1. cmd \in Orders /\ cmd # "RETR"
      BY DEF Orders
    <3> QED
      BY <1>1, <1>2, <2>2, <3>1, SendAsked
  <2>3. CASE Logon
    <3>1. answer.code \in {"220", "332", "331", "230"}
      BY <2>3 DEF Logon, Dispatch
    <3>2. \E cmd \in {"USER", "PASS", "TYPE"} : Send(cmd)
      BY <2>3, <3>1 DEF Logon
    <3> QED
      BY <2>2, <3>2
  <2> QED
    BY <2>1, <2>3 DEF Transferred, Ignored, wire
<1>4. Owned' /\ SessionOK'
  BY <1>1, <1>2 DEF Regular, Owned, SessionOK
<1>5. SizesOK' /\ DownloadOK' /\ InstalledOK'
  BY <1>1, <1>2 DEF Regular, SizesOK, DownloadOK, InstalledOK
<1> QED
  BY <1>3, <1>4, <1>5 DEF Regular

(* The announced size is that of the file that was asked for. *)
LEMMA FileSizeRegular == ASSUME TypeOK, Regular, FileSize PROVE Regular'
<1>1. /\ pc = "dispatch" /\ pc' = "idle" /\ answer.code = "213"
      /\ UNCHANGED <<tcp, server, name, dataCount, fileSize, written, installed, sending>>
      /\ ftp' = [ftp EXCEPT !.size = Size[answer.file]]
  BY DEF FileSize, Dispatch, dota, image
<1>2. /\ ftp'.ctrl = ftp.ctrl /\ ftp'.data = ftp.data /\ ftp'.session = ftp.session
      /\ ftp'.size = Size[answer.file] /\ ftp'.handler = ftp.handler /\ ftp'.ev = ftp.ev
  BY <1>1 DEF TypeOK, Sessions
<1>3. AskedOK'
  BY <1>1, <1>2, SendAsked DEF FileSize, Orders
<1>4. answer.file = name /\ ftp.ctrl # NoSock
  BY <1>1 DEF Regular, SizesOK, SessionOK
<1>5. Owned' /\ SessionOK'
  BY <1>1, <1>2, <1>4 DEF Regular, Owned, SessionOK
<1>6. SizesOK' /\ DownloadOK' /\ InstalledOK'
  BY <1>1, <1>2, <1>4 DEF Regular, SizesOK, DownloadOK, InstalledOK
<1> QED
  BY <1>3, <1>5, <1>6 DEF Regular

(* The flash is erased for a new session, which has no data channel yet.   *)
LEMMA OpenRegular == ASSUME TypeOK, Regular, Open PROVE Regular'
<1>1. /\ pc = "dispatch" /\ pc' = "idle"
      /\ UNCHANGED <<server, name, dataCount, fileSize, installed>>
  BY DEF Open, Dispatch, dota
<1>2. ftp.ctrl # NoSock /\ ftp.session = ftp.ctrl
  BY <1>1 DEF Regular, SessionOK
<1>3. CASE ftp.ev # "DONE"
  <2>1. UNCHANGED <<tcp, ftp, asked, sending, written>>
    BY <1>3 DEF Open, wire
  <2>2. Owned' /\ SessionOK' /\ AskedOK'
    BY <1>1, <2>1 DEF Regular, Owned, SessionOK, AskedOK
  <2>3. SizesOK' /\ DownloadOK' /\ InstalledOK'
    BY <1>1, <2>1 DEF Regular, SizesOK, DownloadOK, InstalledOK
  <2> QED
    BY <2>2, <2>3 DEF Regular
<1>4. CASE ftp.ev = "DONE"
  <2>1. ~ftp.handler /\ ftp.data = NoSock /\ sending = None /\ dataCount = 0
    BY <1>2, <1>4 DEF Regular, SessionOK, DownloadOK
  <2>2. written' = <<>>
    BY <1>4 DEF Open
  <2>3. CASE /\ ftp' = [ftp EXCEPT !.ev = "OPEN", !.handler = TRUE, !.size = 0]
             /\ Send("SIZE") /\ UNCHANGED <<tcp, sending>>
    <3>1. /\ ftp'.ctrl = ftp.ctrl /\ ftp'.data = ftp.data /\ ftp'.session = ftp.session
          /\ ftp'.size = 0 /\ ftp'.ev = "OPEN" /\ ftp'.handler
      BY <2>3 DEF TypeOK, Sessions
    <3>2. AskedOK'
      BY <1>1, <2>3, <3>1, SendAsked DEF Orders
    <3>3. Owned' /\ SessionOK'
      BY <1>1, <1>2, <2>1, <2>3, <3>1 DEF Regular, Owned, SessionOK
    <3>4. SizesOK' /\ DownloadOK' /\ InstalledOK'
      BY <1>1, <2>1, <2>2, <2>3, <3>1 DEF Regular, SizesOK, DownloadOK, InstalledOK
    <3> QED
      BY <3>2, <3>3, <3>4 DEF Regular
  <2>4. CASE Disconnect
    <3>1. Owned' /\ SessionOK' /\ AskedOK' /\ DownloadOK' /\ ftp'.size = 0
      BY <1>1, <2>4, DisconnectRegular
    <3>2. SizesOK' /\ InstalledOK'
      BY <1>1, <3>1 DEF Regular, SizesOK, InstalledOK
    <3> QED
      BY <3>1, <3>2 DEF Regular
  <2> QED
    BY <1>4, <2>3, <2>4 DEF Open
<1> QED
  BY <1>3, <1>4

LEMMA PassiveRegular == ASSUME TypeOK, Regular, Passive PROVE Regular'
<1>1. /\ pc = "dispatch" /\ pc' = "idle"
      /\ UNCHANGED <<server, name, dataCount, fileSize, written, installed, sending>>
  BY DEF Passive, Dispatch, dota, image
<1>2. ftp.ctrl # NoSock /\ ftp.session = ftp.ctrl
  BY <1>1 DEF Regular, SessionOK
<1>3. CASE UNCHANGED <<tcp, ftp, asked>>
  <2>1. Owned' /\ SessionOK' /\ AskedOK'
    BY <1>1, <1>3 DEF Regular, Owned, SessionOK, AskedOK
  <2>2. SizesOK' /\ DownloadOK' /\ InstalledOK'
    BY <1>1, <1>3 DEF Regular, SizesOK, DownloadOK, InstalledOK
  <2> QED
    BY <2>1, <2>2 DEF Regular
<1>4. CASE ftp.data = NoSock /\ ftp.handler
  <2>1. PICK c \in ClientCreate(tcp, "data") :
          /\ tcp' = c.tcp /\ ftp' = [ftp EXCEPT !.data = c.sock]
          /\ IF c.sock = NoSock THEN UNCHANGED asked ELSE Send("RETR")
    BY <1>4 DEF Passive
  <2>2. /\ ftp'.ctrl = ftp.ctrl /\ ftp'.data = c.sock /\ ftp'.session = ftp.session
        /\ ftp'.size = ftp.size /\ ftp'.handler = ftp.handler /\ ftp'.ev = ftp.ev
    BY <2>1 DEF TypeOK, Sessions
  <2>3. AskedOK'
    <3>1. CASE c.sock = NoSock
      BY <1>1, <1>4, <2>1, <2>2, <3>1 DEF Regular, AskedOK
    <3>2. CASE c.sock # NoSock
      BY <1>1, <1>4, <2>1, <2>2, <3>2, SendAsked DEF Orders
    <3> QED
      BY <3>1, <3>2
  <2>4. tcp \in Tables /\ "data" \in Owners /\ tcp.channel \in [Slots -> Owners \cup {"free"}]
    BY DEF TypeOK, Owners, Tables
  <2>5. /\ c.sock = NoSock => tcp'.channel = tcp.channel
        /\ c.sock # NoSock => /\ c.sock \in Slots \ Valid(tcp)
                              /\ tcp'.channel = [tcp.channel EXCEPT ![c.sock] = "data"]
    BY <2>1, <2>4, CreateTable
  <2>6. \A s \in Slots : tcp.channel[s] # "data"
    BY <1>4, SlotsFinite DEF Regular, Owned
  <2>7. Owned' /\ \A s \in Slots : tcp'.channel[s] = "ctrl" => tcp.channel[s] = "ctrl"
    BY <1>1, <2>2, <2>4, <2>5, <2>6 DEF Regular, Owned
  <2>8. SessionOK'
    BY <1>1, <1>2, <1>4, <2>2 DEF Regular, SessionOK
  <2>9. SizesOK' /\ DownloadOK' /\ InstalledOK'
    BY <1>1, <1>2, <1>4, <2>2 DEF Regular, SizesOK, DownloadOK, InstalledOK
  <2> QED
    BY <2>3, <2>7, <2>8, <2>9 DEF Regular
<1> QED
  BY <1>3, <1>4 DEF Passive

LEMMA RefusalRegular == ASSUME TypeOK, Regular, Refusal PROVE Regular'
<1>1. pc = "dispatch" /\ DisconnectBegins("closed") /\ UNCHANGED <<server, fileSize, installed>>
  BY DEF Refusal, Dispatch, dota, image
<1> QED
  BY <1>1, BeginsRegular

(* What a chunk finds: the session it belongs to, counted so far. *)
LEMMA ReceivedRegular ==
  ASSUME TypeOK, Regular, Received
  PROVE  /\ pc = "idle" /\ ftp.data # NoSock /\ ftp.handler
         /\ ftp.session = ftp.ctrl /\ ftp.ctrl # NoSock
         /\ Len(written') = dataCount + 1 /\ dataCount = Len(written)
         /\ sending.file = name /\ sending.next = dataCount + 1
         /\ \A i \in 1 .. dataCount + 1 : written'[i] = <<name, i>>
         /\ \A s \in Slots : \A i \in 1 .. Len(asked[s]) : asked[s][i].cmd # "RETR"
<1>1. pc = "idle" /\ ftp.data # NoSock /\ sending # None
  BY DEF Received
<1>2. ftp.handler /\ ftp.session = ftp.ctrl /\ ftp.ctrl # NoSock
  BY <1>1 DEF Regular, SessionOK
<1>3. /\ dataCount = Len(written) /\ sending.file = name /\ sending.next = Len(written) + 1
      /\ \A i \in 1 .. Len(written) : written[i] = <<name, i>>
  BY <1>1, <1>2 DEF Regular, DownloadOK
<1>4. /\ Len(written') = dataCount + 1
      /\ written'[dataCount + 1] = <<name, dataCount + 1>>
      /\ \A i \in 1 .. dataCount : written'[i] = written[i]
  BY <1>3, ReceivedTyped
<1>5. \A i \in 1 .. dataCount + 1 : i = dataCount + 1 \/ i \in 1 .. dataCount
  BY DEF TypeOK
<1>6. \A i \in 1 .. dataCount + 1 : written'[i] = <<name, i>>
  BY <1>3, <1>4, <1>5
<1>7. \A s \in Slots : \A i \in 1 .. Len(asked[s]) : asked[s][i].cmd # "RETR"
  BY <1>1 DEF Regular, AskedOK
<1> QED
  BY <1>1, <1>2, <1>3, <1>4, <1>6, <1>7

(* The size that counts is that of the first file since start-up. *)
LEMMA TotalRegular ==
  ASSUME TypeOK, Regular, pc = "idle", ftp.ctrl # NoSock
  PROVE  Total.size > 0 => /\ Total.of \in Files /\ Total.size = Size[Total.of]
                           /\ Total.of = name => Total.size = Size[name]
<1>1. name \in Files
  BY DEF TypeOK, Named
<1>2. /\ ftp.size = 0 \/ ftp.size = Size[name]
      /\ fileSize.size > 0 => fileSize.of \in Files /\ fileSize.size = Size[fileSize.of]
  BY DEF Regular, SizesOK
<1>3. CASE fileSize.size > 0
  BY <1>2, <1>3 DEF Total
<1>4. CASE ~(fileSize.size > 0)
  <2>1. Total.size = ftp.size /\ Total.of = name
    BY <1>4 DEF Total
  <2> QED
    BY <1>1, <1>2, <2>1 DEF TypeOK, Sessions
<1> QED
  BY <1>3, <1>4

LEMMA CompareFailsRegular == ASSUME TypeOK, Regular, CompareFails PROVE Regular'
<1>1. /\ Received /\ Disconnect
      /\ UNCHANGED <<server, name, fileSize, installed, pc, answer>>
  BY DEF CompareFails
<1>2. pc = "idle"
  BY <1>1, ReceivedRegular
<1>3. Owned' /\ SessionOK' /\ AskedOK' /\ DownloadOK' /\ ftp'.size = 0
  BY <1>1, <1>2, DisconnectRegular
<1>4. SizesOK' /\ InstalledOK'
  BY <1>1, <1>2, <1>3 DEF Regular, SizesOK, InstalledOK
<1> QED
  BY <1>3, <1>4 DEF Regular

LEMMA MoreRegular == ASSUME TypeOK, Regular, More PROVE Regular'
<1>1. /\ Received /\ fileSize' = Total /\ dataCount' = dataCount + 1
      /\ sending' = [sending EXCEPT !.next = @ + 1]
      /\ UNCHANGED <<tcp, server, ftp, name, installed, pc, answer, asked>>
  BY DEF More
<1>2. /\ pc = "idle" /\ ftp.data # NoSock /\ ftp.handler
      /\ ftp.session = ftp.ctrl /\ ftp.ctrl # NoSock
      /\ Len(written') = dataCount + 1 /\ dataCount = Len(written)
      /\ sending.file = name /\ sending.next = dataCount + 1
      /\ \A i \in 1 .. dataCount + 1 : written'[i] = <<name, i>>
      /\ \A s \in Slots : \A i \in 1 .. Len(asked[s]) : asked[s][i].cmd # "RETR"
  BY <1>1, ReceivedRegular
<1>3. sending \in [file : Files, next : Nat]
  BY <1>1, ReceivedTyped
<1>4. sending'.file = name /\ sending'.next = dataCount + 2
  <2>1. sending'.file = sending.file /\ sending'.next = sending.next + 1
    BY <1>1, <1>3
  <2> QED
    BY <1>2, <2>1 DEF TypeOK
<1>5. Owned' /\ SessionOK'
  BY <1>1 DEF Regular, Owned, SessionOK
<1>6. AskedOK'
  BY <1>1, <1>2 DEF Regular, AskedOK
<1>7. SizesOK'
  <2>1. fileSize'.size > 0 => fileSize'.of \in Files /\ fileSize'.size = Size[fileSize'.of]
    BY <1>1, <1>2, TotalRegular
  <2> QED
    BY <1>1, <2>1 DEF Regular, SizesOK
<1>8. DownloadOK'
  <2>1. dataCount' = Len(written') /\ sending'.next = Len(written') + 1
    BY <1>1, <1>2, <1>4 DEF TypeOK
  <2>2. \A i \in 1 .. Len(written') : written'[i] = <<name, i>>
    BY <1>2
  <2> QED
    BY <1>1, <1>2, <1>4, <2>1, <2>2 DEF DownloadOK
<1>9. InstalledOK'
  <2>1. pc' # "reset"
    BY <1>1, <1>2
  <2> QED
    BY <2>1 DEF InstalledOK
<1> QED
  BY <1>5, <1>6, <1>7, <1>8, <1>9 DEF Regular

(* The last page is what it was, or it is not. *)
LEMMA FinalisedImage ==
  ASSUME NEW chunks \in Seq(Chunks), NEW bad \in BOOLEAN
  PROVE  /\ Len(Finalised(chunks, bad)) = Len(chunks)
         /\ \A i \in 1 .. Len(chunks) :
              \/ Finalised(chunks, bad)[i] = chunks[i]
              \/ /\ Finalised(chunks, bad)[i] = <<None, i>>
                 /\ i > (Len(chunks) \div PageChunks) * PageChunks
<1> DEFINE full == (Len(chunks) \div PageChunks) * PageChunks
<1>1. Finalised(chunks, bad) =
        [i \in 1 .. Len(chunks) |-> IF bad /\ i > full THEN <<None, i>> ELSE chunks[i]]
  BY DEF Finalised
<1> HIDE DEF full
<1>2. Len(Finalised(chunks, bad)) = Len(chunks)
  BY <1>1
<1>3. \A i \in 1 .. Len(chunks) :
        \/ Finalised(chunks, bad)[i] = chunks[i]
        \/ Finalised(chunks, bad)[i] = <<None, i>> /\ i > full
  BY <1>1
<1> QED
  BY <1>2, <1>3 DEF full

LEMMA FinishedRegular == ASSUME TypeOK, Regular, Finished PROVE Regular'
<1>1. /\ Received /\ Disconnect /\ fileSize' = Total /\ dataCount + 1 = Total.size
      /\ UNCHANGED <<server, name, answer>>
      /\ pc' \in {pc, "reset"}
  BY DEF Finished
<1>2. /\ pc = "idle" /\ ftp.ctrl # NoSock /\ Len(written') = dataCount + 1
      /\ \A i \in 1 .. dataCount + 1 : written'[i] = <<name, i>>
  BY <1>1, ReceivedRegular
<1>3. Owned' /\ SessionOK' /\ AskedOK' /\ DownloadOK' /\ ftp'.size = 0
  BY <1>1, <1>2, DisconnectRegular
<1>4. /\ fileSize'.size > 0 /\ fileSize'.of \in Files /\ fileSize'.size = Size[fileSize'.of]
      /\ fileSize'.of = name => fileSize'.size = Size[name]
  BY <1>1, <1>2, TotalRegular DEF TypeOK
<1>5. SizesOK'
  BY <1>1, <1>2, <1>3, <1>4 DEF SizesOK
<1>6. InstalledOK'
  <2>1. CASE UNCHANGED pc
    BY <1>2, <2>1 DEF InstalledOK
  <2>2. ASSUME NEW bad \in BOOLEAN, installed' = Finalised(written', bad), pc' = "reset"
        PROVE  InstalledOK'
    <3>1. written' \in Seq(Chunks)
      BY <1>1, ReceivedTyped
    <3>2. /\ Len(installed') = Len(written')
          /\ \A i \in 1 .. Len(written') :
               \/ installed'[i] = written'[i]
               \/ /\ installed'[i] = <<None, i>>
                  /\ i > (Len(written') \div PageChunks) * PageChunks
      BY <2>2, <3>1, FinalisedImage
    <3>3. Len(installed') = fileSize'.size
      BY <1>1, <1>2, <3>2
    <3>4. \A i \in 1 .. Len(installed') :
            \/ installed'[i] = <<name, i>>
            \/ /\ installed'[i] = <<None, i>>
               /\ i > (Len(installed') \div PageChunks) * PageChunks
      BY <1>2, <3>2
    <3> QED
      BY <1>1, <1>4, <2>2, <3>3, <3>4 DEF InstalledOK, Image
  <2> QED
    BY <2>1, <2>2 DEF Finished
<1> QED
  BY <1>3, <1>5, <1>6 DEF Regular

(* The timer between two orders of the worker begins a session anew. *)
LEMMA ReconnectRegular ==
  ASSUME TypeOK, Regular, pc = "idle", timers > 0, Reconnect, NoResponse PROVE Regular'
<1>1. UNCHANGED <<server, name, fileSize, written, installed, pc, answer>> /\ dataCount' = 0
  BY DEF NoResponse, Reconnect, image
<1> DEFINE t == IF ftp.ctrl = NoSock THEN tcp ELSE BothDestroyed
           open == IF ftp.ctrl = NoSock THEN ftp ELSE NoSession
<1>2. PICK c \in ClientCreate(t, "ctrl") :
        /\ tcp' = c.tcp
        /\ ftp' = [open EXCEPT !.ctrl = c.sock, !.session = IF @ = NoSock THEN c.sock ELSE @]
        /\ asked' = IF c.sock = NoSock THEN Forgotten
                    ELSE [Forgotten EXCEPT ![c.sock] = <<Greeting>>]
  BY DEF Reconnect, Greeting
<1>3. t \in Tables
  BY DisconnectTyped DEF TypeOK
<1>4. \A s \in Slots : t.channel[s] \notin {"ctrl", "data"}
                       /\ (t.channel[s] = "server" => s = server)
  <2>1. CASE ftp.ctrl = NoSock
    <3>1. ftp.data = NoSock
      BY <2>1 DEF Regular, SessionOK
    <3> QED
      BY <2>1, <3>1, SlotsFinite DEF Regular, Owned
  <2>2. CASE ftp.ctrl # NoSock
    BY <2>2, ClosedTable
  <2> QED
    BY <2>1, <2>2
<1>5. Forgotten \in [Slots -> Seq(Requests)] /\ \A s \in Slots : Forgotten[s] = <<>>
  BY ClosedTable, DisconnectTyped
<1>6. /\ open \in Sessions /\ open.data = NoSock /\ open.session = NoSock
      /\ ~open.handler /\ open.size = 0
  <2>1. CASE ftp.ctrl = NoSock
    BY <2>1 DEF Regular, SessionOK, TypeOK
  <2>2. CASE ftp.ctrl # NoSock
    BY <2>2, NoSessionTyped DEF NoSession
  <2> QED
    BY <2>1, <2>2
<1> HIDE DEF t, open
<1>7. /\ ftp'.ctrl = c.sock /\ ftp'.session = c.sock /\ ftp'.data = NoSock
      /\ ~ftp'.handler /\ ftp'.size = 0
  BY <1>2, <1>6 DEF Sessions
<1>8. Owned' /\ AskedOK'
  BY <1>1, <1>2, <1>3, <1>4, <1>5, <1>7, NewSession
<1>9. sending' = None
  BY DEF Reconnect, Regular, SessionOK, DownloadOK
<1>10. SessionOK'
  BY <1>1, <1>7 DEF SessionOK
<1>11. SizesOK' /\ DownloadOK' /\ InstalledOK'
  BY <1>1, <1>7, <1>9 DEF Regular, SizesOK, DownloadOK, InstalledOK, Image
<1> QED
  BY <1>8, <1>10, <1>11 DEF Regular
-----------------------------------------------------------------------------
LEMMA InitUndisturbed == Init => Undisturbed
BY FreshRegular DEF Undisturbed

LEMMA NextUndisturbed == ASSUME TypeOK, Undisturbed, [Next]_vars PROVE Undisturbed'
<1>1. CASE Reset
  BY <1>1, FreshRegular DEF Undisturbed
<1>2. CASE UNCHANGED vars
  <2>1. raced' = raced
    BY <1>2 DEF vars, ghosts
  <2> QED
    BY <1>2, <2>1, StutterRegular DEF Undisturbed
<1>3. CASE pc # "reset" /\ NoResponse
  <2> SUFFICES ASSUME ~raced' PROVE Regular'
    BY DEF Undisturbed
  <2>1. CASE Reconnect
    <3>1. ~raced /\ pc = "idle" /\ timers > 0
      BY <1>3, <2>1 DEF Reconnect, NoResponse
    <3> QED
      BY <1>3, <2>1, <3>1, ReconnectRegular DEF Undisturbed
  <2>2. CASE UNCHANGED <<tcp, ftp, dataCount, wire, raced>>
    <3>1. UNCHANGED <<tcp, server, ftp, name, dataCount, fileSize, written, installed, pc, answer,
                      asked, sending, raced>>
      BY <1>3, <2>2 DEF NoResponse, image, wire
    <3>2. Owned' /\ SessionOK' /\ AskedOK'
      BY <3>1 DEF Undisturbed, Regular, Owned, SessionOK, AskedOK
    <3>3. SizesOK' /\ DownloadOK' /\ InstalledOK'
      BY <3>1 DEF Undisturbed, Regular, SizesOK, DownloadOK, InstalledOK, Image
    <3> QED
      BY <3>2, <3>3 DEF Regular
  <2> QED
    BY <1>3, <2>1, <2>2 DEF NoResponse
<1>4. CASE /\ \/ pc # "reset" /\ (XMIT_Connect \/ XMIT_Stop)
              \/ Command \/ DisconnectEnds \/ Check \/ Create \/ Start
              \/ CtrlHandler \/ Logon \/ Open \/ FileSize \/ Passive \/ Transferred \/ Refusal
              \/ Ignored \/ CompareFails \/ More \/ Finished
  <2>1. raced' = raced
    BY <1>4 DEF XMIT_Connect, XMIT_Stop, Command, DisconnectEnds, Check, Create, Start,
       CtrlHandler, Logon, Open, FileSize, Passive, Transferred, Refusal, Ignored, CompareFails,
       More, Finished, ghosts
  <2>2. Regular => Regular'
    BY <1>4, CentreRegular, CommandRegular, EndsRegular, CheckRegular, CreateRegular,
       StartRegular, CtrlHandlerRegular, LogonRegular, OpenRegular, FileSizeRegular,
       PassiveRegular, RefusalRegular, CompareFailsRegular, MoreRegular, FinishedRegular
  <2> QED
    BY <2>1, <2>2 DEF Undisturbed
<1> QED
  BY <1>1, <1>2, <1>3, <1>4, NextCases

(***************************************************************************)
(* The image that is made the one to boot is the file of the last command, *)
(* as long as its announced size, but for a last page that is not full.    *)
(***************************************************************************)
THEOREM ImageIsTheFile == Spec => []InstallsTheFile
<1>1. Init => TypeOK /\ Undisturbed
  BY InitTypes, InitUndisturbed
<1>2. TypeOK /\ Undisturbed /\ [Next]_vars => (TypeOK /\ Undisturbed)'
  BY NextTypes, NextUndisturbed
<1>3. TypeOK /\ Undisturbed => InstallsTheFile
  BY DEF Undisturbed, Regular, InstalledOK, Image, InstallsTheFile
<1> QED
  BY <1>1, <1>2, <1>3, PTL DEF Spec

(***************************************************************************)
(* The number by which a client is refused is that of the channels in use, *)
(* until a tcp_connect fails, and every one of these has its owner, until  *)
(* the no-response timer comes between two steps of the worker.            *)
(***************************************************************************)
THEOREM ChannelsHaveOwners == Spec => []ChannelsAccounted
<1>1. Init => TypeOK /\ Counted /\ Undisturbed
  BY InitTypes, InitCounted, InitUndisturbed
<1>2. TypeOK /\ Counted /\ Undisturbed /\ [Next]_vars => (TypeOK /\ Counted /\ Undisturbed)'
  BY NextTypes, NextCounted, NextUndisturbed
<1>3. TypeOK /\ Counted /\ Undisturbed => ChannelsAccounted
  <2> SUFFICES ASSUME TypeOK, Counted, Undisturbed PROVE ChannelsAccounted
    OBVIOUS
  <2>1. ASSUME NEW s \in Valid(tcp) PROVE s \in Slots /\ tcp.channel[s] \in Owners
    BY DEF Valid, TypeOK, Tables
  <2>2. ASSUME ~raced, NEW s \in Valid(tcp)
        PROVE  \/ tcp.channel[s] = "server" /\ s = server
               \/ tcp.channel[s] = "ctrl" /\ s = ftp.ctrl
               \/ tcp.channel[s] = "data" /\ s = ftp.data
    BY <2>1, <2>2 DEF Undisturbed, Regular, Owned, Owners
  <2> QED
    BY <2>2 DEF Counted, ChannelsAccounted
<1> QED
  BY <1>1, <1>2, <1>3, PTL DEF Spec
=============================================================================
