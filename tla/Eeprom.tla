-------------------------------- MODULE Eeprom --------------------------------
(***************************************************************************)
(* The parameter storage: objects in pages of the internal flash           *)
(* (tiza_flash_eeprom_port.c over tiza_flash_eeprom.c).  A step is at most *)
(* one flash operation, so that a reset can come between any two, or in    *)
(* the middle of an erase.  A page's header says whether it is in use, its *)
(* first half-words name the object, its length and its CRC; the CRC is    *)
(* right when the contents are those of the value it was computed from.    *)
(* Pages count from 1; a base address of 0 is that of no page.  Any        *)
(* operation of the flash may fail, and what the code does then is         *)
(* modelled where it asks; where it does not ask, a ghost variable,        *)
(* spoilt, names the objects of which nothing can be promised any more.    *)
(***************************************************************************)
EXTENDS Integers

CONSTANTS Objects,  \* the object IDs
          IdZero,   \* the object whose ID is 0, as the header RECEIVE_DATA is
          Values,   \* what the writers write
          Writers,  \* the tasks that call FLASH_WriteData
          Above,    \* Above[w]: the writers whose task has a higher priority
          NPages,   \* EEPROM_PAGE_NUMBER
          Words,    \* half-words of an object
          Faults,   \* bound: operations of the flash that fail
          Absent,   \* an object that has no value
          Spoilt,   \* an object whose value is not promised
          Blank,    \* erased flash
          Mixed     \* flash that is neither erased nor what was written

ASSUME EepromAssumption ==
  /\ IdZero \in Objects
  /\ Above \in [Writers -> SUBSET Writers]
  /\ NPages \in Nat \ {0} /\ Words \in Nat \ {0} /\ Faults \in Nat
  /\ Blank \notin Objects \cup Values /\ Mixed \notin Objects \cup Values
  /\ Blank # Mixed /\ "boot" \notin Writers
  /\ Absent \notin Values \cup Writers \cup [id : Objects, value : Values]
  /\ Spoilt \notin Values \cup {Absent}

Pages   == 1 .. NPages
NoPage  == 0
Procs   == Writers \cup {"boot"}
Headers == {"ERASED", "VALID", "RECEIVE", "JUNK"}

\* A page whose half-words after the header (object ID, length, CRC, data) all
\* read c.
Uniform(h, c) == [header |-> h, id |-> c, length |-> c, crc |-> c, data |-> [i \in 1 .. Words |-> c]]

VARIABLES
  flash,     \* the pages
  status,    \* eeprom.PageStatus
  writeIdx,  \* eeprom.WritePageIndex
  obj,       \* FlashObjects: whether Length is set, and MemoryBaseAddr
  found,     \* NbrofObjects # 0, as long as the start-up may ask
  sem,       \* the task that holds OS_EventFlashProt, or Absent
  pc,        \* the step each task is at
  ret,       \* where EEPROM_FormatPage returns to
  page,      \* the page the task is at
  call,      \* the object and the value of the task's call
  word,      \* the half-words it has programmed
  result,    \* what its last call returned; FALSE while it is in one
  faults,    \* operations of the flash that failed
  spoilt     \* the objects a failure or a second writer was not noticed for

boots  == <<status, writeIdx, obj, found, sem>>
locals == <<ret, page, call, word, result>>
vars   == <<flash, boots, pc, locals, faults, spoilt>>

\* What the RAM holds after a reset: the statuses are zeroes, as the header of a
\* page in use is.
NoStatus == [p \in Pages |-> "RECEIVE"]
NoObject == [length |-> FALSE, base |-> NoPage]
AtStart  == [pc   |-> [t \in Procs |-> IF t = "boot" THEN "headers" ELSE "idle"],
             page |-> [t \in Procs |-> IF t = "boot" THEN 1 ELSE NoPage],
             ret  |-> [t \in Procs |-> "idle"]]

Init ==
  /\ flash = [p \in Pages |-> Uniform("ERASED", Blank)]
  /\ status = NoStatus /\ writeIdx = 1
  /\ obj = [o \in Objects |-> NoObject] /\ found = FALSE
  /\ sem = Absent
  /\ pc = AtStart.pc /\ ret = AtStart.ret /\ page = AtStart.page
  /\ call = [w \in Writers |-> Absent] /\ word = [w \in Writers |-> 0]
  /\ result = [w \in Writers |-> FALSE]
  /\ faults = 0 /\ spoilt = {}

\* The contents a scan at start-up accepts: a length and the CRC of the data.
Whole(p) ==
  /\ flash[p].length = "len"
  /\ flash[p].crc \in Values
  /\ \A i \in 1 .. Words : flash[p].data[i] = flash[p].crc

\* The flash half-word that held c after v was programmed.
Programmed(c, v) == IF c \in {Blank, v} THEN v ELSE Mixed

\* An operation of the flash fails and is reported as failed.  A half-word that
\* held c still does, or holds neither.
Fails      == faults < Faults /\ faults' = faults + 1
Failed(c)  == {c, Mixed}
\* An erase, which was tried twice, left the page as it was, erased, or with any
\* header over contents that are neither.
Torn       == {Uniform("ERASED", Blank)} \cup {Uniform(h, Mixed) : h \in Headers}
---------------------------------------------------------------------------
\* A task runs while those above it have no call or wait for the semaphore.
Blocked(w) == pc[w] \in {"pendErase", "pend"} /\ sem # Absent
CanRun(t) ==
  t \in Writers =>
    /\ pc["boot"] = "up"
    /\ \A u \in Above[t] : pc[u] = "idle" \/ Blocked(u)

At(t, step)   == CanRun(t) /\ pc[t] = step
GoTo(t, step) == pc' = [pc EXCEPT ![t] = step]
\* EEPROM_FormatPage(p), then on at the step back.
Format(t, p, back) ==
  /\ GoTo(t, "erase")
  /\ page' = [page EXCEPT ![t] = p]
  /\ ret' = [ret EXCEPT ![t] = back]

Erase(t) ==
  /\ At(t, "erase")
  /\ flash' = [flash EXCEPT ![page[t]] = Uniform("ERASED", Blank)]
  /\ status' = [status EXCEPT ![page[t]] = "ERASED"]
  /\ GoTo(t, "mark")
  /\ UNCHANGED <<writeIdx, obj, found, sem, locals, faults, spoilt>>

\* The page a loop goes on with.
PageAfter(t) == IF ret[t] = "clear" THEN NoPage ELSE page[t] + 1

\* EEPROM_IfInit and EEPROM_FormatAllPages return the error, which ends the
\* start-up; the scan and FLASH_EraseObject do not ask.
AfterFail(t) == IF ret[t] \in {"headers", "formatAll"} THEN "up" ELSE ret[t]

\* Whom it spoils: a start-up that ends before it has read the pages, every
\* object; an object that is taken out of the table, itself.
SpoiltBy(t) ==
  CASE ret[t] = "headers" -> Objects
    [] ret[t] = "scan"    -> Objects \cap {flash[page[t]].id}
    [] ret[t] = "clear"   -> {call[t].id}
    [] OTHER              -> {}

EraseFails(t) ==
  /\ At(t, "erase") /\ Fails
  /\ \E c \in Torn \cup {flash[page[t]]} : flash' = [flash EXCEPT ![page[t]] = c]
  /\ GoTo(t, AfterFail(t))
  /\ page' = [page EXCEPT ![t] = PageAfter(t)]
  /\ spoilt' = spoilt \cup SpoiltBy(t)
  /\ UNCHANGED <<boots, ret, call, word, result>>

Mark(t) ==
  /\ At(t, "mark")
  /\ flash' = [flash EXCEPT ![page[t]].header = "VALID"]
  /\ status' = [status EXCEPT ![page[t]] = "VALID"]
  /\ GoTo(t, ret[t])
  /\ page' = [page EXCEPT ![t] = PageAfter(t)]
  /\ UNCHANGED <<writeIdx, obj, found, sem, ret, call, word, result, faults, spoilt>>

MarkFails(t) ==
  /\ At(t, "mark") /\ Fails
  /\ \E h \in {"ERASED", "JUNK"} : flash' = [flash EXCEPT ![page[t]].header = h]
  /\ GoTo(t, AfterFail(t))
  /\ page' = [page EXCEPT ![t] = PageAfter(t)]
  /\ spoilt' = IF ret[t] = "headers" THEN Objects ELSE spoilt
  /\ UNCHANGED <<boots, ret, call, word, result>>
---------------------------------------------------------------------------
(* Start-up, before the tasks run.                                         *)

\* EEPROM_IfInit: a page with an unknown header is formatted.
IfInit ==
  /\ pc["boot"] = "headers"
  /\ IF page["boot"] > NPages
     THEN GoTo("boot", "scan") /\ page' = [page EXCEPT !["boot"] = 1] /\ UNCHANGED <<status, ret>>
     ELSE LET p == page["boot"] IN
          /\ status' = [status EXCEPT ![p] = flash[p].header]
          /\ IF flash[p].header = "JUNK"
             THEN Format("boot", p, "headers")
             ELSE page' = [page EXCEPT !["boot"] = p + 1] /\ UNCHANGED <<pc, ret>>
  /\ UNCHANGED <<flash, writeIdx, obj, found, sem, call, word, result, faults, spoilt>>

StartUpEnds ==
  /\ GoTo("boot", "up")
  /\ page' = [page EXCEPT !["boot"] = NoPage]
  /\ ret' = [ret EXCEPT !["boot"] = "idle"]

\* FLASH_LowlLevelIfInit: a page in use gives an object its contents, or is
\* formatted.  Mutant: the CRC is not compared.
AcceptedAny(p) == flash[p].id \in Objects
Accepted(p)    == flash[p].id \in Objects /\ Whole(p)

LowlLevelIfInit ==
  /\ pc["boot"] = "scan"
  /\ IF page["boot"] > NPages
     THEN /\ IF found
             THEN StartUpEnds
             ELSE GoTo("boot", "formatAll") /\ page' = [page EXCEPT !["boot"] = 1] /\ UNCHANGED ret
          /\ found' = FALSE
          /\ UNCHANGED obj
     ELSE LET p == page["boot"]
              o == flash[p].id
          IN IF status[p] # "RECEIVE"
             THEN page' = [page EXCEPT !["boot"] = p + 1] /\ UNCHANGED <<obj, found, pc, ret>>
             ELSE IF Accepted(p)
             THEN /\ obj' = [obj EXCEPT ![o] = [length |-> TRUE, base |-> p]]
                  /\ found' = TRUE
                  /\ page' = [page EXCEPT !["boot"] = p + 1]
                  /\ UNCHANGED <<pc, ret>>
             ELSE /\ obj' = IF o \in Objects
                            THEN [obj EXCEPT ![o] = NoObject]
                            ELSE obj
                  /\ Format("boot", p, "scan")
                  /\ UNCHANGED found
  /\ UNCHANGED <<flash, status, writeIdx, sem, call, word, result, faults, spoilt>>

\* Without an object all pages are formatted.
FormatAllPages ==
  /\ pc["boot"] = "formatAll"
  /\ IF page["boot"] > NPages
     THEN StartUpEnds
     ELSE Format("boot", page["boot"], "formatAll")
  /\ UNCHANGED <<flash, boots, call, word, result, faults, spoilt>>
---------------------------------------------------------------------------
(* FLASH_WriteData.                                                        *)

\* Nothing keeps two tasks from writing one object: the semaphore is given back in
\* the middle of a call.
OtherCalls(w) == {call[u].id : u \in {x \in Writers \ {w} : call[x] # Absent}}

Call(w) ==
  /\ At(w, "idle")
  /\ \E o \in Objects, v \in Values :
       /\ call' = [call EXCEPT ![w] = [id |-> o, value |-> v]]
       /\ spoilt' = IF o \in OtherCalls(w) THEN spoilt \cup {o} ELSE spoilt
  /\ result' = [result EXCEPT ![w] = FALSE]
  /\ GoTo(w, "check")
  /\ UNCHANGED <<flash, boots, ret, page, word, faults>>

\* An object that has a length is erased first.
Check(w) ==
  /\ At(w, "check")
  /\ GoTo(w, IF obj[call[w].id].length THEN "pendErase" ELSE "pend")
  /\ UNCHANGED <<flash, boots, locals, faults, spoilt>>

\* FLASH_EraseObject: the page at the object's base address is formatted when
\* its ID is the object's.  At address 0, where another task's erase has put the
\* entry, the ID is read where page 1 has its header, and what is formatted then
\* is page 1; of an erased page nothing is read, and the ID is what the stack has.
PageOf(o) == IF obj[o].base = NoPage THEN 1 ELSE obj[o].base
IdIs(o) ==
  CASE status[PageOf(o)] = "ERASED" -> BOOLEAN
    [] obj[o].base = NoPage /\ status[1] # "ERASED" ->
         IF flash[1].header = "JUNK" THEN BOOLEAN ELSE {flash[1].header = "RECEIVE" /\ o = IdZero}
    [] OTHER -> {flash[PageOf(o)].id = o}

EraseObject(w) ==
  /\ At(w, "pendErase") /\ sem = Absent
  /\ sem' = w
  /\ LET o == call[w].id IN
       \E same \in IdIs(o) :
         /\ IF same
            THEN Format(w, PageOf(o), "clear")
            ELSE GoTo(w, "clear") /\ UNCHANGED <<page, ret>>
         /\ spoilt' = IF same /\ obj[o].base = NoPage THEN Objects ELSE spoilt
  /\ UNCHANGED <<flash, status, writeIdx, obj, found, call, word, result, faults>>

EraseObjectEnds(w) ==
  /\ At(w, "clear")
  /\ obj' = [obj EXCEPT ![call[w].id] = NoObject]
  /\ sem' = Absent
  /\ GoTo(w, "pend")
  /\ UNCHANGED <<flash, status, writeIdx, found, locals, faults, spoilt>>

\* The call ends, its caller is told how.
Return(w, success) ==
  /\ result' = [result EXCEPT ![w] = success]
  /\ GoTo(w, "idle")
  /\ call' = [call EXCEPT ![w] = Absent]
  /\ page' = [page EXCEPT ![w] = NoPage]
  /\ word' = [word EXCEPT ![w] = 0]
  /\ ret' = [ret EXCEPT ![w] = "idle"]
  /\ sem' = Absent

Protect(w) ==
  /\ At(w, "pend") /\ sem = Absent
  /\ sem' = w
  /\ GoTo(w, "allocate")
  /\ UNCHANGED <<flash, status, writeIdx, obj, found, locals, faults, spoilt>>

\* EEPROM_FindValidPage: the first free page, round from WritePageIndex.
Round(i) == ((writeIdx - 1 + i) % NPages) + 1
FirstFree ==
  {Round(i) : i \in {j \in 0 .. NPages - 1 :
     /\ status[Round(j)] \in {"VALID", "ERASED"}
     /\ \A k \in 0 .. j - 1 : status[Round(k)] \notin {"VALID", "ERASED"}}}

Allocate(w) ==
  /\ At(w, "allocate")
  /\ LET o == call[w].id IN
       IF obj[o].length \/ obj[o].base # NoPage
       THEN /\ GoTo(w, "data")
            /\ page' = [page EXCEPT ![w] = obj[o].base]
            /\ UNCHANGED <<writeIdx, sem, ret, call, word, result>>
       ELSE \/ \E p \in FirstFree :
                 /\ writeIdx' = p + 1
                 /\ page' = [page EXCEPT ![w] = p]
                 /\ GoTo(w, "header")
                 /\ UNCHANGED <<sem, ret, call, word, result>>
            \/ /\ FirstFree = {}
               /\ writeIdx' = 1
               /\ Return(w, FALSE)
  /\ UNCHANGED <<flash, status, obj, found, faults, spoilt>>

\* EEPROM_WriteVariable of the ID: first the page is taken into use, ...
WriteHeader(w) ==
  /\ At(w, "header")
  /\ flash' = [flash EXCEPT ![page[w]].header = "RECEIVE"]
  /\ status' = [status EXCEPT ![page[w]] = "RECEIVE"]
  /\ GoTo(w, "id")
  /\ UNCHANGED <<writeIdx, obj, found, sem, locals, faults, spoilt>>

HeaderFails(w) ==
  /\ At(w, "header") /\ Fails
  /\ \E h \in {flash[page[w]].header, "JUNK"} : flash' = [flash EXCEPT ![page[w]].header = h]
  /\ Return(w, FALSE)
  /\ UNCHANGED <<status, writeIdx, obj, found, spoilt>>

\* ... then the half-word is programmed, if it is erased.
WriteId(w) ==
  /\ At(w, "id")
  /\ IF flash[page[w]].id = Blank
     THEN /\ flash' = [flash EXCEPT ![page[w]].id = call[w].id]
          /\ obj' = [obj EXCEPT ![call[w].id] = [length |-> FALSE, base |-> page[w]]]
          /\ GoTo(w, "data")
          /\ UNCHANGED <<sem, locals>>
     ELSE Return(w, FALSE) /\ UNCHANGED <<flash, obj>>
  /\ UNCHANGED <<status, writeIdx, found, faults, spoilt>>

IdFails(w) ==
  /\ At(w, "id") /\ flash[page[w]].id = Blank /\ Fails
  /\ \E c \in Failed(Blank) : flash' = [flash EXCEPT ![page[w]].id = c]
  /\ Return(w, FALSE)
  /\ UNCHANGED <<status, writeIdx, obj, found, spoilt>>

\* EEPROM_WriteData: a half-word is programmed and read back; the call fails
\* when the programming does, when it reads otherwise, or when the page is not
\* in use.  Mutant: it is not read back.
WriteDataUnread(w) ==
  /\ At(w, "data")
  /\ LET i == word[w] + 1
         p == page[w]
         c == Programmed(flash[p].data[i], call[w].value)
     IN /\ flash' = [flash EXCEPT ![p].data[i] = c]
        /\ word' = [word EXCEPT ![w] = i]
        /\ GoTo(w, IF i = Words THEN "length" ELSE "data")
        /\ UNCHANGED <<sem, ret, page, call, result>>
  /\ UNCHANGED <<status, writeIdx, obj, found, faults, spoilt>>

WriteData(w) ==
  /\ At(w, "data")
  /\ LET i == word[w] + 1
         p == page[w]
         c == Programmed(flash[p].data[i], call[w].value)
     IN IF status[p] # "RECEIVE"
        THEN Return(w, FALSE) /\ UNCHANGED flash
        ELSE /\ flash' = [flash EXCEPT ![p].data[i] = c]
             /\ IF c # call[w].value
                THEN Return(w, FALSE)
                ELSE /\ word' = [word EXCEPT ![w] = i]
                     /\ GoTo(w, IF i = Words THEN "length" ELSE "data")
                     /\ UNCHANGED <<sem, ret, page, call, result>>
  /\ UNCHANGED <<status, writeIdx, obj, found, faults, spoilt>>

DataFails(w) ==
  /\ At(w, "data") /\ status[page[w]] = "RECEIVE" /\ Fails
  /\ LET i == word[w] + 1 IN
       \E c \in Failed(flash[page[w]].data[i]) : flash' = [flash EXCEPT ![page[w]].data[i] = c]
  /\ Return(w, FALSE)
  /\ UNCHANGED <<status, writeIdx, obj, found, spoilt>>

\* Length is set, and written to the page, and then the CRC.  Nobody asks whether
\* these two were written: the caller is told that the object is.
WriteLength(w) ==
  /\ At(w, "length")
  /\ obj' = [obj EXCEPT ![call[w].id].length = TRUE]
  /\ flash' = [flash EXCEPT ![page[w]].length = IF @ = Blank THEN "len" ELSE @]
  /\ GoTo(w, "crc")
  /\ UNCHANGED <<status, writeIdx, found, sem, locals, faults, spoilt>>

LengthFails(w) ==
  /\ At(w, "length") /\ flash[page[w]].length = Blank /\ Fails
  /\ obj' = [obj EXCEPT ![call[w].id].length = TRUE]
  /\ \E c \in Failed(Blank) : flash' = [flash EXCEPT ![page[w]].length = c]
  /\ GoTo(w, "crc")
  /\ spoilt' = spoilt \cup {call[w].id}
  /\ UNCHANGED <<status, writeIdx, found, sem, locals>>

WriteCrc(w) ==
  /\ At(w, "crc")
  /\ flash' = [flash EXCEPT ![page[w]].crc = IF @ = Blank THEN call[w].value ELSE @]
  /\ Return(w, TRUE)
  /\ UNCHANGED <<status, writeIdx, obj, found, faults, spoilt>>

CrcFails(w) ==
  /\ At(w, "crc") /\ flash[page[w]].crc = Blank /\ Fails
  /\ \E c \in Failed(Blank) : flash' = [flash EXCEPT ![page[w]].crc = c]
  /\ Return(w, TRUE)
  /\ spoilt' = spoilt \cup {call[w].id}
  /\ UNCHANGED <<status, writeIdx, obj, found>>
---------------------------------------------------------------------------
(***************************************************************************)
(* The supply fails or the processor is reset, at any time.  An erase that *)
(* is under way leaves the page as one that fails does.                    *)
(***************************************************************************)
Reset ==
  /\ \/ UNCHANGED flash
     \/ \E t \in Procs, c \in Torn :
          /\ pc[t] = "erase"
          /\ flash' = [flash EXCEPT ![page[t]] = c]
  /\ status' = NoStatus /\ writeIdx' = 1
  /\ obj' = [o \in Objects |-> NoObject] /\ found' = FALSE
  /\ sem' = Absent
  /\ pc' = AtStart.pc /\ ret' = AtStart.ret /\ page' = AtStart.page
  /\ call' = [w \in Writers |-> Absent] /\ word' = [w \in Writers |-> 0]
  /\ result' = [w \in Writers |-> FALSE]
  /\ UNCHANGED <<faults, spoilt>>

Boot     == IfInit \/ LowlLevelIfInit \/ FormatAllPages
Write(w) == \/ Call(w) \/ Check(w) \/ EraseObject(w) \/ EraseObjectEnds(w) \/ Protect(w)
            \/ Allocate(w) \/ WriteHeader(w) \/ WriteId(w) \/ WriteData(w)
            \/ WriteLength(w) \/ WriteCrc(w)
            \/ HeaderFails(w) \/ IdFails(w) \/ DataFails(w) \/ LengthFails(w) \/ CrcFails(w)

Next ==
  \/ Boot
  \/ \E t \in Procs : Erase(t) \/ Mark(t) \/ EraseFails(t) \/ MarkFails(t)
  \/ \E w \in Writers : Write(w)
  \/ Reset

Spec == Init /\ [][Next]_vars
---------------------------------------------------------------------------
\* What a restart finds: the value of each object.
PagesOf(o) == {p \in Pages : flash[p].header = "RECEIVE" /\ flash[p].id = o /\ Whole(p)}
Stored == [o \in Objects |->
             IF PagesOf(o) = {} THEN Absent ELSE flash[CHOOSE p \in PagesOf(o) : TRUE].crc]

\* A restart finds what the running system has: the page of every object with
\* a length and of no other, and never two pages for one object.  An object
\* that is being written is excepted, but not from the last.  Whatever fails, and
\* whoever writes: only the objects whose erase, length or CRC failed unnoticed, or
\* that two tasks wrote at once, may be lost, and all of them after a start-up
\* that failed.
RestartFindsTheSame ==
  \A o \in Objects \ spoilt :
    /\ \A p, q \in Pages :
         {p, q} \subseteq {r \in Pages : flash[r].header = "RECEIVE" /\ flash[r].id = o} => p = q
    /\ pc["boot"] = "up" /\ (\A w \in Writers : call[w] # Absent => call[w].id # o) =>
         PagesOf(o) = IF obj[o].length THEN {obj[o].base} ELSE {}

\* The storage keeps its promise, with resets between any two operations of
\* the flash and whichever of them fail: a write touches its own object only,
\* whose value is the old one, none, or the new one, and the new one once the
\* caller is told so, until something happens to the object that no one notices.
Promised == [o \in Objects |-> IF o \in spoilt THEN Spoilt ELSE Stored[o]]
Store == INSTANCE ObjectStore WITH stored <- Promised, writing <- call
StoreRefined == Store!Spec
=============================================================================
