---------------------------- MODULE Storage_proofs ----------------------------
(***************************************************************************)
(* The storage and what is built on it.  First Eeprom, for any number of   *)
(* tasks, objects, pages, half-words and faults, with resets between any   *)
(* two operations of the flash and in the middle of an erase, and with any *)
(* of these operations failing: its pages are the store ObjectStore        *)
(* describes, but for the objects that are spoilt.                         *)
(* Then Params, over such a store: the parameters of the vehicle survive,  *)
(* for every set of settings and any number of supply failures.            *)
(***************************************************************************)
EXTENDS Eeprom, Params, TLAPS

(***************************************************************************)
(* Part I: Eeprom.  Two invariants: BaseInv, of the types and the steps,   *)
(* holds always, CoreInv as long as not every object is spoilt.  A step of *)
(* a writer, which has the semaphore, disturbs its own object and one page *)
(* that is its own or nobody's; what CoreInv says of the others stays.     *)
(***************************************************************************)
Page  == [header : Headers, id : Objects \cup {Blank, Mixed}, length : {"len", Blank, Mixed},
          crc : Values \cup {Blank, Mixed}, data : [1 .. Words -> Values \cup {Blank, Mixed}]]
Calls == [id : Objects, value : Values]
WriteSteps == {"check", "pendErase", "erase", "mark", "clear", "pend", "allocate", "header",
               "id", "data", "length", "crc"}
Steps == WriteSteps \cup {"idle", "headers", "scan", "formatAll", "up"}
Backs == {"idle", "clear", "headers", "scan", "formatAll"}
Entry == [length : BOOLEAN, base : 0 .. NPages]

FlashTypeOK ==
  /\ flash \in [Pages -> Page] /\ status \in [Pages -> Headers]
  /\ writeIdx \in Nat
  /\ obj \in [Objects -> Entry]
  /\ found \in BOOLEAN /\ faults \in Nat /\ spoilt \in SUBSET Objects
  /\ pc \in [Procs -> Steps] /\ ret \in [Procs -> Backs] /\ page \in [Procs -> Nat]
  /\ call \in [Writers -> Calls \cup {Absent}]
  /\ word \in [Writers -> 0 .. Words] /\ result \in [Writers -> BOOLEAN]

(* The loop of the start-up that runs, an erase in it included. *)
Phase == IF pc["boot"] \in {"erase", "mark"} THEN ret["boot"] ELSE pc["boot"]

PhaseOK ==
  /\ Phase \in {"headers", "scan", "formatAll", "up"}
  /\ Phase # "up" => page["boot"] >= 1 /\ \A w \in Writers : pc[w] = "idle"

(* A task is in a call of FLASH_WriteData or idle, and knows what it       *)
(* writes, and how far it is.                                              *)
CallTyped(w) ==
  /\ pc[w] \in WriteSteps \cup {"idle"}
  /\ pc[w] = "idle" <=> call[w] = Absent
  /\ pc[w] \notin {"data", "length", "crc"} => word[w] = 0
  /\ pc[w] = "data" => word[w] < Words
  /\ pc[w] \in {"length", "crc"} => word[w] = Words
  /\ pc[w] \in {"erase", "mark"} => ret[w] = "clear"
  /\ pc[w] \in {"header", "id"} => page[w] \in Pages

(* The part of a call that the semaphore protects. *)
Protected == WriteSteps \ {"check", "pendErase", "pend"}
SemOK     == \A w \in Writers : pc[w] \in Protected => sem = w

(* What holds at any time, spoilt or not. *)
BaseInv == FlashTypeOK /\ PhaseOK /\ SemOK /\ \A w \in Writers : CallTyped(w)

(* The objects that are not spoilt, and the pages with the name of one.    *)
Sound   == Objects \ spoilt
Held(o) == {p \in Pages : flash[p].id = o}
AllOf(p, c) ==
  /\ flash[p].id = c /\ flash[p].length = c /\ flash[p].crc = c
  /\ \A i \in 1 .. Words : flash[p].data[i] = c

(* The page of an object is in use, in the RAM's view as well; any other   *)
(* page is erased, or something has spoilt the place of its ID.            *)
PageOK(p) ==
  IF flash[p].id \in Objects
  THEN flash[p].header = "RECEIVE" /\ status[p] = "RECEIVE"
  ELSE flash[p].id = Mixed \/ AllOf(p, Blank)
PagesOK == \A p \in Pages : PageOK(p)

(* A sound object has one page, and one writer. *)
Single(o) == \A p, q \in Held(o) : p = q
OnePage   == \A o \in Sound : Single(o)
OneWriter == \A o \in Sound : \A u, w \in Writers :
               call[u] # Absent /\ call[w] # Absent /\ call[u].id = o /\ call[w].id = o => u = w

(* The entry of an object is that of one of its pages, but while the page  *)
(* is erased and the entry not yet cleared.                                *)
Leaving(o) == \E w \in Writers : pc[w] \in {"mark", "clear"} /\ call[w].id = o
TableAt(o) ==
  /\ obj[o].length => obj[o].base # NoPage
  /\ obj[o].base # NoPage /\ ~Leaving(o) => flash[obj[o].base].id = o
TableOK == \A o \in Objects : TableAt(o)

(* The entry of a sound object says what the flash holds of it; without a  *)
(* length it has a page that waits for one, or none.                       *)
EntryOK(o) ==
  IF obj[o].base = NoPage
  THEN Held(o) = {}
  ELSE IF obj[o].length
  THEN Whole(obj[o].base)
  ELSE flash[obj[o].base].length = Blank /\ flash[obj[o].base].crc = Blank

(* That is so while the tasks run, but for an object a call is about to    *)
(* take out of the table or to put into it.                                *)
Moving(o) == \E w \in Writers : pc[w] \in {"mark", "clear", "crc"} /\ call[w].id = o
TasksOK   == Phase = "up" => \A o \in Sound : ~Moving(o) => EntryOK(o)

(* The start-up, before it has reached page n: what it saw is in the table. *)
ScannedTo(n) ==
  /\ \A o \in Objects : obj[o].base # NoPage => found /\ obj[o].base < n
  /\ \A o \in Sound : obj[o].base # NoPage => obj[o].length /\ Whole(obj[o].base)
  /\ \A p \in Pages : p < n /\ flash[p].id \in Sound => obj[flash[p].id].base = p

NothingFound == ~found /\ \A o \in Objects : obj[o].base = NoPage

(* Erased by t, and not yet marked. *)
FreshPage(t) == page[t] \in Pages /\ AllOf(page[t], Blank)

BootOK ==
  /\ Phase = "headers" => NothingFound
  /\ Phase = "scan" => ScannedTo(page["boot"])
  /\ Phase = "formatAll" => NothingFound /\ \A p \in Pages : flash[p].id \notin Sound
  /\ pc["boot"] = "erase" =>
       page["boot"] \in Pages /\ ~(flash[page["boot"]].id \in Sound /\ Whole(page["boot"]))
  /\ pc["boot"] = "mark" => FreshPage("boot")

(* The call of w at each of its steps. *)
Wrote(w, n) == \A i \in 1 .. n : flash[page[w]].data[i] = call[w].value

CallOK(w) ==
  LET o == call[w].id
      p == page[w]
  IN
  pc[w] # "idle" =>
    /\ pc[w] \in {"erase", "data", "length", "crc"} => p \in Pages /\ p = obj[o].base
    /\ pc[w] = "mark" => FreshPage(w)
    /\ pc[w] \in {"header", "id"} => obj[o].base = NoPage /\ flash[p].id \notin Objects
    /\ pc[w] = "id" => flash[p].header = "RECEIVE" /\ status[p] = "RECEIVE"

SoundCallOK(w) ==
  LET o == call[w].id
      p == page[w]
  IN
  pc[w] # "idle" /\ o \in Sound =>
    /\ pc[w] \in {"pendErase", "erase"} => obj[o].length
    /\ pc[w] \in {"mark", "clear"} => Held(o) = {}
    /\ pc[w] \in {"pend", "allocate", "header", "id", "data", "length"} => ~obj[o].length
    /\ pc[w] \in {"data", "length", "crc"} => Wrote(w, word[w])
    /\ pc[w] = "crc" => obj[o].length /\ flash[p].length = "len" /\ flash[p].crc = Blank

(* What holds as long as not every object is spoilt. *)
CoreInv ==
  /\ PagesOK /\ OnePage /\ OneWriter /\ TableOK /\ TasksOK /\ BootOK
  /\ \A w \in Writers : CallOK(w) /\ SoundCallOK(w)

FlashInv == BaseInv /\ (spoilt # Objects => CoreInv)

(* The steps, one by one; those of a call. *)
WriterStep(w) ==
  \/ Call(w) \/ Check(w) \/ EraseObject(w) \/ EraseObjectEnds(w) \/ Protect(w)
  \/ Allocate(w) \/ WriteHeader(w) \/ WriteId(w) \/ WriteData(w) \/ WriteLength(w) \/ WriteCrc(w)
  \/ HeaderFails(w) \/ IdFails(w) \/ DataFails(w) \/ LengthFails(w) \/ CrcFails(w)
  \/ Erase(w) \/ Mark(w) \/ EraseFails(w) \/ MarkFails(w)
BootStep ==
  \/ IfInit \/ LowlLevelIfInit \/ FormatAllPages
  \/ Erase("boot") \/ Mark("boot") \/ EraseFails("boot") \/ MarkFails("boot")

LEMMA FlashActions ==
  ASSUME [Next]_vars
  PROVE  BootStep \/ (\E w \in Writers : WriterStep(w)) \/ Reset \/ UNCHANGED vars
<1>1. ASSUME NEW t \in Procs, Erase(t) \/ Mark(t) \/ EraseFails(t) \/ MarkFails(t)
      PROVE  BootStep \/ \E w \in Writers : WriterStep(w)
  BY <1>1 DEF Procs, BootStep, WriterStep
<1>2. Boot => BootStep
  BY DEF Boot, BootStep
<1>3. \A w \in Writers : Write(w) => WriterStep(w)
  BY DEF Write, WriterStep
<1> QED
  BY <1>1, <1>2, <1>3 DEF Next

(* The pages FindValidPage looks at are pages of the storage. *)
LEMMA FirstFreeIsFree ==
  ASSUME FlashTypeOK, NEW p \in FirstFree
  PROVE  p \in Pages /\ status[p] \in {"VALID", "ERASED"}
<1>1. PICK i \in 0 .. NPages - 1 : p = Round(i) /\ status[Round(i)] \in {"VALID", "ERASED"}
  BY DEF FirstFree
<1>2. writeIdx - 1 + i \in Int
  BY <1>1 DEF FlashTypeOK
<1>3. Round(i) \in Pages
  BY <1>2, EepromAssumption DEF Round, Pages
<1> QED
  BY <1>1, <1>3

(* What an erase makes of a page is one. *)
LEMMA UniformIsPage ==
  ASSUME NEW h \in Headers, NEW c \in {Blank, Mixed}
  PROVE  Uniform(h, c) \in Page
BY DEF Uniform, Page

LEMMA TornIsPage == Torn \subseteq Page
BY UniformIsPage DEF Torn, Headers

LEMMA InitTypes == Init => FlashTypeOK
<1> SUFFICES ASSUME Init PROVE FlashTypeOK
  OBVIOUS
<1>1. flash \in [Pages -> Page]
  BY UniformIsPage DEF Init, Headers
<1>2. status \in [Pages -> Headers] /\ writeIdx \in Nat
  BY DEF Init, NoStatus, Headers
<1>3. obj \in [Objects -> Entry]
  BY EepromAssumption DEF Init, NoObject, NoPage, Entry
<1>4. pc \in [Procs -> Steps] /\ ret \in [Procs -> Backs] /\ page \in [Procs -> Nat]
  BY DEF Init, AtStart, NoPage, Steps, Backs
<1>5. /\ call \in [Writers -> Calls \cup {Absent}] /\ word \in [Writers -> 0 .. Words]
      /\ faults \in Nat /\ spoilt \in SUBSET Objects
  BY EepromAssumption DEF Init
<1>6. result \in [Writers -> BOOLEAN] /\ found \in BOOLEAN
  BY Zenon DEF Init
<1> QED
  BY <1>1, <1>2, <1>3, <1>4, <1>5, <1>6 DEF FlashTypeOK

(* EEPROM_FormatPage, called by any task, and a return from FLASH_WriteData. *)
LEMMA FormatTypes ==
  ASSUME FlashTypeOK, NEW t \in Procs, NEW p \in Nat, NEW back \in Backs, Format(t, p, back)
  PROVE  pc' \in [Procs -> Steps] /\ ret' \in [Procs -> Backs] /\ page' \in [Procs -> Nat]
BY DEF FlashTypeOK, Format, GoTo, WriteSteps, Steps

LEMMA ReturnTypes ==
  ASSUME FlashTypeOK, NEW w \in Writers, NEW b \in BOOLEAN, Return(w, b)
  PROVE  /\ pc' \in [Procs -> Steps] /\ ret' \in [Procs -> Backs] /\ page' \in [Procs -> Nat]
         /\ call' \in [Writers -> Calls \cup {Absent}] /\ word' \in [Writers -> 0 .. Words]
         /\ result' \in [Writers -> BOOLEAN]
<1>1. result' \in [Writers -> BOOLEAN]
  BY Zenon DEF Return, FlashTypeOK
<1>2. pc' \in [Procs -> Steps] /\ ret' \in [Procs -> Backs] /\ page' \in [Procs -> Nat]
  BY DEF Return, FlashTypeOK, GoTo, Steps, Backs, NoPage
<1>3. call' \in [Writers -> Calls \cup {Absent}] /\ word' \in [Writers -> 0 .. Words]
  BY EepromAssumption DEF Return, FlashTypeOK
<1> QED
  BY <1>1, <1>2, <1>3

LEMMA ReturnTyped ==
  ASSUME FlashTypeOK, NEW w \in Writers, Return(w, TRUE) \/ Return(w, FALSE), flash' \in [Pages -> Page],
         faults' \in Nat, spoilt' \in SUBSET Objects, UNCHANGED <<status, writeIdx, obj, found>>
  PROVE  FlashTypeOK'
<1>1. /\ pc' \in [Procs -> Steps] /\ ret' \in [Procs -> Backs] /\ page' \in [Procs -> Nat]
      /\ call' \in [Writers -> Calls \cup {Absent}] /\ word' \in [Writers -> 0 .. Words]
      /\ result' \in [Writers -> BOOLEAN]
  <2>1. CASE Return(w, TRUE)
    BY <2>1, ReturnTypes
  <2>2. CASE Return(w, FALSE)
    BY <2>2, ReturnTypes
  <2> QED
    BY <2>1, <2>2
<1> QED
  BY <1>1 DEF FlashTypeOK

(* A page in which something is programmed is still one. *)
LEMMA PageUpdate ==
  ASSUME FlashTypeOK, NEW k, NEW g, flash' = [flash EXCEPT ![k] = g], k \in Pages => g \in Page
  PROVE  flash' \in [Pages -> Page]
BY DEF FlashTypeOK

LEMMA HalfWordIsPage ==
  ASSUME FlashTypeOK, NEW k \in Pages
  PROVE  /\ flash[k] \in Page
         /\ \A h \in Headers : [flash[k] EXCEPT !.header = h] \in Page
         /\ \A c \in Objects \cup {Blank, Mixed} : [flash[k] EXCEPT !.id = c] \in Page
         /\ \A c \in {"len", Blank, Mixed} : [flash[k] EXCEPT !.length = c] \in Page
         /\ \A c \in Values \cup {Blank, Mixed} : [flash[k] EXCEPT !.crc = c] \in Page
         /\ \A i \in 1 .. Words, c \in Values \cup {Blank, Mixed} :
              [flash[k] EXCEPT !.data[i] = c] \in Page
<1>1. flash[k] \in Page
  BY DEF FlashTypeOK
<1> QED
  BY <1>1 DEF Page

(* A task that is in a call has an object and a value. *)
LEMMA InCall ==
  ASSUME FlashTypeOK, NEW w \in Writers, CallTyped(w), pc[w] # "idle"
  PROVE  /\ call[w] \in Calls /\ call[w] # Absent
         /\ call[w].id \in Objects /\ call[w].value \in Values
BY DEF CallTyped, FlashTypeOK, Calls

(* An operation that fails. *)
LEMMA FaultCounted == FlashTypeOK /\ Fails => faults' \in Nat
BY DEF FlashTypeOK, Fails

LEMMA BootTypes ==
  ASSUME FlashTypeOK, IfInit \/ LowlLevelIfInit \/ FormatAllPages
  PROVE  FlashTypeOK'
<1>0. "boot" \in Procs /\ page["boot"] \in Nat
  BY DEF Procs, FlashTypeOK
<1>1. /\ UNCHANGED <<flash, writeIdx, call, word, result, faults, spoilt>>
      /\ status' \in [Pages -> Headers]
      /\ found' \in BOOLEAN
  <2>1. CASE IfInit
    <3>1. \A p \in Pages : flash[p].header \in Headers
      BY DEF FlashTypeOK, Page
    <3> QED
      BY <2>1, <3>1 DEF IfInit, FlashTypeOK
  <2>2. CASE LowlLevelIfInit
    BY <2>2 DEF LowlLevelIfInit, FlashTypeOK
  <2>3. CASE FormatAllPages
    BY <2>3 DEF FormatAllPages, FlashTypeOK, boots
  <2> QED
    BY <2>1, <2>2, <2>3
<1>2. pc' \in [Procs -> Steps] /\ ret' \in [Procs -> Backs] /\ page' \in [Procs -> Nat]
  <2>1. StartUpEnds => pc' \in [Procs -> Steps] /\ ret' \in [Procs -> Backs] /\ page' \in [Procs -> Nat]
    <3> SUFFICES ASSUME StartUpEnds
                 PROVE  pc' \in [Procs -> Steps] /\ ret' \in [Procs -> Backs] /\ page' \in [Procs -> Nat]
      OBVIOUS
    <3>1. pc' \in [Procs -> Steps]
      BY DEF StartUpEnds, FlashTypeOK, GoTo, Steps
    <3>2. ret' \in [Procs -> Backs] /\ page' \in [Procs -> Nat]
      BY DEF StartUpEnds, FlashTypeOK, Backs, NoPage
    <3> QED
      BY <3>1, <3>2
  <2>2. CASE IfInit
    BY <1>0, <2>2, FormatTypes DEF IfInit, FlashTypeOK, GoTo, Steps, Backs
  <2>3. CASE LowlLevelIfInit
    BY <1>0, <2>1, <2>3, FormatTypes DEF LowlLevelIfInit, FlashTypeOK, GoTo, Steps, Backs
  <2>4. CASE FormatAllPages
    BY <1>0, <2>1, <2>4, FormatTypes DEF FormatAllPages, FlashTypeOK, GoTo, Steps, Backs
  <2> QED
    BY <2>2, <2>3, <2>4
<1>3. obj' \in [Objects -> Entry]
  <2>1. CASE LowlLevelIfInit
    <3>1. NoObject \in Entry
      BY EepromAssumption DEF NoObject, NoPage, Entry
    <3>2. page["boot"] <= NPages => [length |-> TRUE, base |-> page["boot"]] \in Entry
      BY <1>0, EepromAssumption DEF Entry
    <3>3. \/ obj' = obj
          \/ page["boot"] <= NPages
             /\ \E o \in Objects : obj' = [obj EXCEPT ![o] = [length |-> TRUE, base |-> page["boot"]]]
          \/ \E o \in Objects : obj' = [obj EXCEPT ![o] = NoObject]
      BY <1>0, <2>1, EepromAssumption DEF LowlLevelIfInit, Accepted
    <3> QED
      BY <3>1, <3>2, <3>3 DEF FlashTypeOK
  <2>2. CASE IfInit \/ FormatAllPages
    BY <2>2 DEF IfInit, FormatAllPages, boots, FlashTypeOK
  <2> QED
    BY <2>1, <2>2
<1> QED
  BY <1>1, <1>2, <1>3 DEF FlashTypeOK

LEMMA EraseTypes ==
  ASSUME FlashTypeOK, NEW t \in Procs, Erase(t) \/ Mark(t) \/ EraseFails(t) \/ MarkFails(t),
         t \in Writers => call[t] \in Calls, t = "boot" => ret[t] # "clear"
  PROVE  FlashTypeOK'
<1>1. flash' \in [Pages -> Page]
  <2>1. CASE Erase(t)
    BY <2>1, UniformIsPage, PageUpdate DEF Erase, Headers
  <2>2. CASE Mark(t) \/ MarkFails(t)
    <3>1. PICK h \in Headers : flash' = [flash EXCEPT ![page[t]].header = h]
      BY <2>2 DEF Mark, MarkFails, Headers
    <3>2. flash' = [flash EXCEPT ![page[t]] = [flash[page[t]] EXCEPT !.header = h]]
      BY <3>1
    <3> QED
      BY <3>2, HalfWordIsPage, PageUpdate
  <2>3. CASE EraseFails(t)
    BY <2>3, TornIsPage, HalfWordIsPage, PageUpdate DEF EraseFails
  <2> QED
    BY <2>1, <2>2, <2>3
<1>2. status' \in [Pages -> Headers]
  BY DEF Erase, Mark, EraseFails, MarkFails, FlashTypeOK, Headers, boots
<1>3. pc' \in [Procs -> Steps]
  <2>1. ret[t] \in Steps /\ AfterFail(t) \in Steps
    BY DEF FlashTypeOK, Backs, Steps, WriteSteps, AfterFail
  <2> QED
    BY <2>1 DEF Erase, Mark, EraseFails, MarkFails, FlashTypeOK, GoTo, WriteSteps, Steps
<1>4. page' \in [Procs -> Nat]
  <2>1. PageAfter(t) \in Nat
    BY DEF FlashTypeOK, PageAfter, NoPage
  <2> QED
    BY <2>1 DEF Erase, Mark, EraseFails, MarkFails, FlashTypeOK, locals
<1>5. spoilt' \in SUBSET Objects
  <2>1. SpoiltBy(t) \subseteq Objects
    <3>1. ret[t] = "clear" => call[t].id \in Objects
      BY DEF Procs, Calls
    <3> QED
      BY <3>1 DEF SpoiltBy
  <2> QED
    BY <2>1 DEF Erase, Mark, EraseFails, MarkFails, FlashTypeOK
<1>6. faults' \in Nat
  BY DEF Erase, Mark, EraseFails, MarkFails, FlashTypeOK, Fails
<1>7. UNCHANGED <<writeIdx, obj, found, ret, call, word, result>>
  BY DEF Erase, Mark, EraseFails, MarkFails, locals, boots
<1> QED
  BY <1>1, <1>2, <1>3, <1>4, <1>5, <1>6, <1>7 DEF FlashTypeOK

(* Each step of a call, one by one. *)
LEMMA ProgramTypes ==
  ASSUME FlashTypeOK, NEW w \in Writers, CallTyped(w),
         \/ WriteHeader(w) \/ HeaderFails(w) \/ WriteId(w) \/ IdFails(w) \/ WriteData(w) \/ DataFails(w)
         \/ WriteLength(w) \/ LengthFails(w) \/ WriteCrc(w) \/ CrcFails(w)
  PROVE  flash' \in [Pages -> Page]
<1>1. pc[w] \in {"header", "id", "data", "length", "crc"}
  BY DEF WriteHeader, HeaderFails, WriteId, IdFails, WriteData, DataFails, WriteLength, LengthFails,
         WriteCrc, CrcFails, At
<1>2. call[w].id \in Objects /\ call[w].value \in Values
  BY <1>1, InCall
<1>3. CASE WriteHeader(w) \/ HeaderFails(w)
  <2>1. PICK h : /\ page[w] \in Pages => h \in Headers
                 /\ flash' = [flash EXCEPT ![page[w]].header = h]
    <3>1. page[w] \in Pages => flash[page[w]].header \in Headers
      BY HalfWordIsPage DEF Page
    <3>2. \E h \in {"RECEIVE", flash[page[w]].header, "JUNK"} : flash' = [flash EXCEPT ![page[w]].header = h]
      BY <1>3 DEF WriteHeader, HeaderFails
    <3> QED
      BY <3>1, <3>2 DEF Headers
  <2>2. flash' = [flash EXCEPT ![page[w]] = [flash[page[w]] EXCEPT !.header = h]]
    BY <2>1
  <2> QED
    BY <2>1, <2>2, HalfWordIsPage, PageUpdate
<1>4. CASE WriteId(w) \/ IdFails(w)
  <2>1. CASE UNCHANGED flash
    BY <2>1 DEF FlashTypeOK
  <2>2. CASE \E c \in Objects \cup {Blank, Mixed} : flash' = [flash EXCEPT ![page[w]].id = c]
    <3>1. PICK c \in Objects \cup {Blank, Mixed} : flash' = [flash EXCEPT ![page[w]].id = c]
      BY <2>2
    <3>2. flash' = [flash EXCEPT ![page[w]] = [flash[page[w]] EXCEPT !.id = c]]
      BY <3>1
    <3> QED
      BY <3>2, HalfWordIsPage, PageUpdate
  <2> QED
    BY <1>2, <1>4, <2>1, <2>2 DEF WriteId, IdFails, Failed
<1>5. CASE WriteData(w) \/ DataFails(w)
  <2>0. word[w] + 1 \in 1 .. Words
    <3>1. pc[w] = "data" /\ word[w] \in 0 .. Words
      BY <1>5 DEF WriteData, DataFails, At, FlashTypeOK
    <3> QED
      BY <3>1, EepromAssumption DEF CallTyped
  <2>1. PICK c : \/ UNCHANGED flash
                 \/ /\ flash' = [flash EXCEPT ![page[w]].data[word[w] + 1] = c]
                    /\ \/ c = Programmed(flash[page[w]].data[word[w] + 1], call[w].value)
                       \/ c \in Failed(flash[page[w]].data[word[w] + 1])
    BY <1>5 DEF WriteData, DataFails
  <2>2. page[w] \in Pages => flash[page[w]].data[word[w] + 1] \in Values \cup {Blank, Mixed}
    BY <2>0, HalfWordIsPage DEF Page
  <2>3. CASE UNCHANGED flash
    BY <2>3 DEF FlashTypeOK
  <2>4. CASE ~UNCHANGED flash
    <3>1. page[w] \in Pages => c \in Values \cup {Blank, Mixed}
      BY <1>2, <2>1, <2>2, <2>4 DEF Programmed, Failed
    <3>2. flash' = [flash EXCEPT ![page[w]] = [flash[page[w]] EXCEPT !.data[word[w] + 1] = c]]
      BY <2>1, <2>4
    <3> QED
      BY <2>0, <3>1, <3>2, HalfWordIsPage, PageUpdate
  <2> QED
    BY <2>3, <2>4
<1>6. CASE WriteLength(w) \/ LengthFails(w)
  <2>1. PICK c : /\ page[w] \in Pages => c \in {"len", Blank, Mixed}
                 /\ flash' = [flash EXCEPT ![page[w]].length = c]
    BY <1>6, HalfWordIsPage DEF WriteLength, LengthFails, Failed, Page
  <2>2. flash' = [flash EXCEPT ![page[w]] = [flash[page[w]] EXCEPT !.length = c]]
    BY <2>1
  <2> QED
    BY <2>1, <2>2, HalfWordIsPage, PageUpdate
<1>7. CASE WriteCrc(w) \/ CrcFails(w)
  <2>1. PICK c : /\ page[w] \in Pages => c \in Values \cup {Blank, Mixed}
                 /\ flash' = [flash EXCEPT ![page[w]].crc = c]
    BY <1>2, <1>7, HalfWordIsPage DEF WriteCrc, CrcFails, Failed, Page
  <2>2. flash' = [flash EXCEPT ![page[w]] = [flash[page[w]] EXCEPT !.crc = c]]
    BY <2>1
  <2> QED
    BY <2>1, <2>2, HalfWordIsPage, PageUpdate
<1> QED
  BY <1>3, <1>4, <1>5, <1>6, <1>7

LEMMA WriteTypes ==
  ASSUME FlashTypeOK, NEW w \in Writers, CallTyped(w), WriterStep(w)
  PROVE  FlashTypeOK'
<1>0. w \in Procs /\ page[w] \in Nat /\ word[w] \in 0 .. Words
  BY DEF Procs, FlashTypeOK
<1>1. CASE Call(w)
  <2>1. call' \in [Writers -> Calls \cup {Absent}] /\ spoilt' \in SUBSET Objects
    BY <1>1 DEF Call, FlashTypeOK, Calls
  <2>2. pc' \in [Procs -> Steps]
    BY <1>1 DEF Call, FlashTypeOK, GoTo, WriteSteps, Steps
  <2>3. result' \in [Writers -> BOOLEAN]
    BY <1>1, Zenon DEF Call, FlashTypeOK
  <2> QED
    BY <1>1, <2>1, <2>2, <2>3 DEF Call, FlashTypeOK, boots
<1>2. CASE Check(w) \/ Protect(w)
  <2>1. pc' \in [Procs -> Steps]
    BY <1>2 DEF Check, Protect, FlashTypeOK, GoTo, WriteSteps, Steps
  <2> QED
    BY <1>2, <2>1 DEF Check, Protect, FlashTypeOK, boots, locals
<1>3. CASE EraseObject(w)
  <2>0. call[w].id \in Objects
    BY <1>3, InCall DEF EraseObject, At
  <2>1. PICK same : /\ IF same THEN Format(w, PageOf(call[w].id), "clear")
                               ELSE GoTo(w, "clear") /\ UNCHANGED <<page, ret>>
                    /\ spoilt' = IF same /\ obj[call[w].id].base = NoPage THEN Objects ELSE spoilt
    BY <1>3 DEF EraseObject
  <2>2. PageOf(call[w].id) \in Nat
    BY <2>0, EepromAssumption DEF FlashTypeOK, PageOf, Entry
  <2>3. pc' \in [Procs -> Steps] /\ page' \in [Procs -> Nat] /\ ret' \in [Procs -> Backs]
    <3>1. CASE same
      BY <1>0, <2>1, <2>2, <3>1, FormatTypes DEF Backs
    <3>2. CASE ~same
      BY <2>1, <3>2 DEF FlashTypeOK, GoTo, WriteSteps, Steps
    <3> QED
      BY <3>1, <3>2
  <2> QED
    BY <1>3, <2>1, <2>3 DEF EraseObject, FlashTypeOK
<1>4. CASE EraseObjectEnds(w)
  <2>1. NoObject \in Entry
    BY EepromAssumption DEF NoObject, NoPage, Entry
  <2>2. obj' \in [Objects -> Entry] /\ pc' \in [Procs -> Steps]
    BY <1>4, <2>1 DEF EraseObjectEnds, FlashTypeOK, GoTo, WriteSteps, Steps
  <2> QED
    BY <1>4, <2>2 DEF EraseObjectEnds, FlashTypeOK, locals
<1>5. CASE Allocate(w)
  <2>1. CASE \E p \in FirstFree : writeIdx' = p + 1 /\ page' = [page EXCEPT ![w] = p] /\ GoTo(w, "header")
                                  /\ UNCHANGED <<sem, ret, call, word, result>>
    <3>1. PICK p \in FirstFree : writeIdx' = p + 1 /\ page' = [page EXCEPT ![w] = p] /\ GoTo(w, "header")
                                 /\ UNCHANGED <<sem, ret, call, word, result>>
      BY <2>1
    <3>2. p \in Nat
      BY FirstFreeIsFree, EepromAssumption DEF Pages
    <3>3. page' \in [Procs -> Nat]
      BY <3>1, <3>2 DEF FlashTypeOK
    <3>5. writeIdx' \in Nat
      BY <3>1, <3>2
    <3>4. pc' \in [Procs -> Steps]
      BY <3>1 DEF FlashTypeOK, GoTo, WriteSteps, Steps
    <3> QED
      BY <1>5, <3>1, <3>3, <3>4, <3>5 DEF Allocate, FlashTypeOK
  <2>2. CASE writeIdx' = 1 /\ Return(w, FALSE)
    BY <1>5, <2>2, ReturnTypes DEF Allocate, FlashTypeOK
  <2>3. CASE /\ GoTo(w, "data") /\ page' = [page EXCEPT ![w] = obj[call[w].id].base]
             /\ UNCHANGED <<writeIdx, sem, ret, call, word, result>>
    <3>1. call[w].id \in Objects
      BY <1>5, InCall DEF Allocate, At
    <3>2. obj[call[w].id].base \in Nat
      BY <3>1, EepromAssumption DEF FlashTypeOK, Entry
    <3>3. page' \in [Procs -> Nat]
      BY <2>3, <3>2 DEF FlashTypeOK
    <3>4. pc' \in [Procs -> Steps]
      BY <2>3 DEF FlashTypeOK, GoTo, WriteSteps, Steps
    <3> QED
      BY <1>5, <2>3, <3>3, <3>4 DEF Allocate, FlashTypeOK
  <2> QED
    BY <1>5, <2>1, <2>2, <2>3 DEF Allocate
<1>6. CASE WriteHeader(w)
  <2>1. status' \in [Pages -> Headers] /\ pc' \in [Procs -> Steps]
    BY <1>6 DEF WriteHeader, FlashTypeOK, Headers, GoTo, WriteSteps, Steps
  <2> QED
    BY <1>6, <2>1, ProgramTypes DEF WriteHeader, FlashTypeOK, locals
<1>7. CASE WriteId(w)
  <2>1. CASE Return(w, FALSE) /\ UNCHANGED <<flash, obj>>
    BY <1>7, <2>1, ReturnTypes DEF WriteId, FlashTypeOK
  <2>2. CASE /\ obj' = [obj EXCEPT ![call[w].id] = [length |-> FALSE, base |-> page[w]]]
             /\ GoTo(w, "data")
             /\ UNCHANGED <<sem, locals>>
    <3>1. page[w] \in Pages
      BY <1>7 DEF WriteId, At, CallTyped
    <3>2. [length |-> FALSE, base |-> page[w]] \in Entry
      BY <3>1, EepromAssumption DEF Pages, Entry
    <3>3. obj' \in [Objects -> Entry] /\ pc' \in [Procs -> Steps]
      BY <2>2, <3>2 DEF FlashTypeOK, GoTo, WriteSteps, Steps
    <3> QED
      BY <1>7, <2>2, <3>3, ProgramTypes DEF WriteId, FlashTypeOK, locals
  <2> QED
    BY <1>7, <2>1, <2>2 DEF WriteId
<1>8. CASE WriteData(w)
  <2>1. word[w] + 1 \in 0 .. Words
    BY <1>0, <1>8, EepromAssumption DEF WriteData, At, CallTyped
  <2>2. CASE Return(w, FALSE)
    BY <1>8, <2>2, ReturnTypes, ProgramTypes DEF WriteData, FlashTypeOK
  <2>3. CASE /\ word' = [word EXCEPT ![w] = word[w] + 1]
             /\ GoTo(w, "length") \/ GoTo(w, "data")
             /\ UNCHANGED <<sem, ret, page, call, result>>
    <3>1. pc' \in [Procs -> Steps]
      BY <2>3 DEF FlashTypeOK, GoTo, WriteSteps, Steps
    <3>2. word' \in [Writers -> 0 .. Words]
      BY <2>1, <2>3 DEF FlashTypeOK
    <3> QED
      BY <1>8, <2>3, <3>1, <3>2, ProgramTypes DEF WriteData, FlashTypeOK
  <2> QED
    BY <1>8, <2>2, <2>3 DEF WriteData
<1>9. CASE WriteLength(w) \/ LengthFails(w)
  <2>1. obj' \in [Objects -> Entry]
    <3>1. obj' = [obj EXCEPT ![call[w].id] = [@ EXCEPT !.length = TRUE]]
      BY <1>9 DEF WriteLength, LengthFails
    <3>2. \A e \in Entry : [e EXCEPT !.length = TRUE] \in Entry
      BY DEF Entry
    <3> QED
      BY <3>1, <3>2 DEF FlashTypeOK
  <2>2. pc' \in [Procs -> Steps] /\ faults' \in Nat
    BY <1>9 DEF WriteLength, LengthFails, FlashTypeOK, GoTo, WriteSteps, Steps, Fails
  <2>3. spoilt' \in SUBSET Objects
    <3>1. call[w].id \in Objects
      BY <1>9, InCall DEF WriteLength, LengthFails, At
    <3> QED
      BY <1>9, <3>1 DEF WriteLength, LengthFails, FlashTypeOK
  <2> QED
    BY <1>9, <2>1, <2>2, <2>3, ProgramTypes DEF WriteLength, LengthFails, FlashTypeOK, locals
<1>10. CASE WriteCrc(w) \/ CrcFails(w)
  <2>1. spoilt' \in SUBSET Objects
    <3>1. call[w].id \in Objects
      BY <1>10, InCall DEF WriteCrc, CrcFails, At
    <3> QED
      BY <1>10, <3>1 DEF WriteCrc, CrcFails, FlashTypeOK
  <2>2. faults' \in Nat
    <3>1. UNCHANGED faults \/ Fails
      BY <1>10, Zenon DEF WriteCrc, CrcFails
    <3> QED
      BY <3>1, FaultCounted DEF FlashTypeOK
  <2>3. Return(w, TRUE) /\ UNCHANGED <<status, writeIdx, obj, found>>
    BY <1>10 DEF WriteCrc, CrcFails
  <2>4. flash' \in [Pages -> Page]
    BY <1>10, ProgramTypes
  <2> QED
    BY <2>1, <2>2, <2>3, <2>4, ReturnTyped
<1>11. CASE HeaderFails(w) \/ IdFails(w) \/ DataFails(w)
  <2>2. faults' \in Nat
    BY <1>11, FaultCounted DEF HeaderFails, IdFails, DataFails
  <2>3. Return(w, FALSE) /\ UNCHANGED <<status, writeIdx, obj, found, spoilt>>
    BY <1>11 DEF HeaderFails, IdFails, DataFails
  <2>4. flash' \in [Pages -> Page]
    BY <1>11, ProgramTypes
  <2>1. spoilt' \in SUBSET Objects
    BY <2>3 DEF FlashTypeOK
  <2> QED
    BY <2>1, <2>2, <2>3, <2>4, ReturnTyped
<1>12. CASE Erase(w) \/ Mark(w) \/ EraseFails(w) \/ MarkFails(w)
  <2>1. call[w] \in Calls
    BY <1>12, InCall DEF Erase, Mark, EraseFails, MarkFails, At
  <2>2. w # "boot"
    BY EepromAssumption
  <2> QED
    BY <1>0, <1>12, <2>1, <2>2, EraseTypes
<1> QED
  BY <1>1, <1>2, <1>3, <1>4, <1>5, <1>6, <1>7, <1>8, <1>9, <1>10, <1>11, <1>12 DEF WriterStep

LEMMA ResetTypes == ASSUME FlashTypeOK, Reset PROVE FlashTypeOK'
<1>1. flash' \in [Pages -> Page]
  BY TornIsPage DEF Reset, FlashTypeOK
<1>2. status' \in [Pages -> Headers] /\ writeIdx' \in Nat
  BY DEF Reset, NoStatus, Headers
<1>3. obj' \in [Objects -> Entry]
  BY EepromAssumption DEF Reset, NoObject, NoPage, Entry
<1>4. pc' \in [Procs -> Steps] /\ ret' \in [Procs -> Backs] /\ page' \in [Procs -> Nat]
  BY DEF Reset, AtStart, NoPage, Steps, Backs
<1>5. /\ call' \in [Writers -> Calls \cup {Absent}] /\ word' \in [Writers -> 0 .. Words]
      /\ faults' \in Nat /\ spoilt' \in SUBSET Objects
  BY EepromAssumption DEF Reset, FlashTypeOK
<1>6. result' \in [Writers -> BOOLEAN] /\ found' \in BOOLEAN
  BY Zenon DEF Reset
<1> QED
  BY <1>1, <1>2, <1>3, <1>4, <1>5, <1>6 DEF FlashTypeOK

(* A step of a task moves no other task. *)
OthersStay(t) ==
  /\ \A u \in Procs \ {t} : pc'[u] = pc[u] /\ page'[u] = page[u] /\ ret'[u] = ret[u]
  /\ \A u \in Writers \ {t} : call'[u] = call[u] /\ word'[u] = word[u]

LEMMA OtherTasks ==
  ASSUME FlashTypeOK, NEW w \in Writers, WriterStep(w)
  PROVE  OthersStay(w)
<1>1. \E s : pc' = [pc EXCEPT ![w] = s]
  BY Zenon DEF WriterStep, Call, Check, EraseObject, EraseObjectEnds, Protect, Allocate, WriteHeader, WriteId,
         WriteData, WriteLength, WriteCrc, HeaderFails, IdFails, DataFails, LengthFails, CrcFails,
         Erase, Mark, EraseFails, MarkFails, GoTo, Format, Return
<1>2. UNCHANGED page \/ \E n : page' = [page EXCEPT ![w] = n]
  BY Zenon DEF WriterStep, Call, Check, EraseObject, EraseObjectEnds, Protect, Allocate, WriteHeader, WriteId,
         WriteData, WriteLength, WriteCrc, HeaderFails, IdFails, DataFails, LengthFails, CrcFails,
         Erase, Mark, EraseFails, MarkFails, Format, Return, locals
<1>3. UNCHANGED ret \/ \E b : ret' = [ret EXCEPT ![w] = b]
  BY Zenon DEF WriterStep, Call, Check, EraseObject, EraseObjectEnds, Protect, Allocate, WriteHeader, WriteId,
         WriteData, WriteLength, WriteCrc, HeaderFails, IdFails, DataFails, LengthFails, CrcFails,
         Erase, Mark, EraseFails, MarkFails, Format, Return, locals
<1>4. UNCHANGED call \/ \E c : call' = [call EXCEPT ![w] = c]
  BY Zenon DEF WriterStep, Call, Check, EraseObject, EraseObjectEnds, Protect, Allocate, WriteHeader, WriteId,
         WriteData, WriteLength, WriteCrc, HeaderFails, IdFails, DataFails, LengthFails, CrcFails,
         Erase, Mark, EraseFails, MarkFails, Return, locals
<1>5. UNCHANGED word \/ \E n : word' = [word EXCEPT ![w] = n]
  BY Zenon DEF WriterStep, Call, Check, EraseObject, EraseObjectEnds, Protect, Allocate, WriteHeader, WriteId,
         WriteData, WriteLength, WriteCrc, HeaderFails, IdFails, DataFails, LengthFails, CrcFails,
         Erase, Mark, EraseFails, MarkFails, Return, locals
<1> QED
  BY <1>1, <1>2, <1>3, <1>4, <1>5 DEF OthersStay, FlashTypeOK

LEMMA ReturnEnds ==
  ASSUME FlashTypeOK, NEW w \in Writers, NEW b, Return(w, b)
  PROVE  pc'[w] = "idle" /\ call'[w] = Absent /\ word'[w] = 0
BY DEF Return, GoTo, FlashTypeOK, Procs

(* A task knows where it is in its call. *)
LEMMA CallTypedKept ==
  ASSUME FlashTypeOK, NEW w \in Writers, CallTyped(w), WriterStep(w)
  PROVE  CallTyped(w)'
<1>0. w \in Procs /\ pc \in [Procs -> Steps] /\ word[w] \in 0 .. Words /\ word \in [Writers -> 0 .. Words]
      /\ page \in [Procs -> Nat] /\ ret \in [Procs -> Backs] /\ call \in [Writers -> Calls \cup {Absent}]
  BY DEF FlashTypeOK, Procs
<1>1. CASE Return(w, TRUE) \/ Return(w, FALSE)
  BY <1>1, ReturnEnds DEF CallTyped
<1>2. CASE Call(w)
  <2>1. pc'[w] = "check" /\ call'[w] \in [id : Objects, value : Values] /\ word'[w] = 0
    BY <1>0, <1>2 DEF Call, GoTo, At, CallTyped
  <2>2. call'[w] # Absent
    BY <2>1, EepromAssumption
  <2> QED
    BY <2>1, <2>2 DEF CallTyped, WriteSteps
<1>3. ASSUME call[w] # Absent, call'[w] = call[w], word'[w] = 0,
             \/ pc'[w] \in {"check", "pendErase", "clear", "pend", "allocate"}
             \/ pc'[w] = "data"
             \/ pc'[w] \in {"erase", "mark"} /\ ret'[w] = "clear"
             \/ pc'[w] \in {"header", "id"} /\ page'[w] \in Pages
      PROVE  CallTyped(w)'
  BY <1>3, EepromAssumption DEF CallTyped, WriteSteps
<1>4. CASE ~Call(w) /\ ~Return(w, TRUE) /\ ~Return(w, FALSE)
  <2>1. pc[w] # "idle" /\ call[w] # Absent
    BY <1>4 DEF WriterStep, Check, EraseObject, EraseObjectEnds, Protect, Allocate, WriteHeader, WriteId,
         WriteData, WriteLength, WriteCrc, HeaderFails, IdFails, DataFails, LengthFails, CrcFails,
         Erase, Mark, EraseFails, MarkFails, At, CallTyped
  <2>2. CASE Check(w) \/ EraseObjectEnds(w) \/ Protect(w)
    <3>1. call'[w] = call[w] /\ word'[w] = 0
      BY <2>2 DEF Check, EraseObjectEnds, Protect, locals, At, CallTyped
    <3>2. pc'[w] \in {"pendErase", "pend", "allocate"}
      BY <1>0, <2>2 DEF Check, EraseObjectEnds, Protect, GoTo
    <3> QED
      BY <1>3, <2>1, <3>1, <3>2
  <2>3. CASE EraseObject(w)
    <3>1. call'[w] = call[w] /\ word'[w] = 0
      BY <2>3 DEF EraseObject, At, CallTyped
    <3>2. pc'[w] = "clear" \/ (pc'[w] = "erase" /\ ret'[w] = "clear")
      BY <1>0, <2>3 DEF EraseObject, GoTo, Format
    <3> QED
      BY <1>3, <2>1, <3>1, <3>2
  <2>4. CASE Allocate(w)
    <3>1. call'[w] = call[w] /\ word'[w] = 0
      BY <1>4, <2>4 DEF Allocate, At, CallTyped
    <3>2. pc'[w] = "data" \/ (pc'[w] = "header" /\ page'[w] \in Pages)
      BY <1>0, <1>4, <2>4, FirstFreeIsFree DEF Allocate, GoTo
    <3> QED
      BY <1>3, <2>1, <3>1, <3>2
  <2>5. CASE WriteHeader(w) \/ WriteId(w)
    <3>1. call'[w] = call[w] /\ word'[w] = 0 /\ page'[w] \in Pages
      BY <1>4, <2>5 DEF WriteHeader, WriteId, At, CallTyped, locals
    <3>2. pc'[w] \in {"id", "data"}
      BY <1>0, <1>4, <2>5 DEF WriteHeader, WriteId, GoTo
    <3> QED
      BY <1>3, <2>1, <3>1, <3>2
  <2>6. CASE WriteData(w)
    <3>1. word[w] < Words /\ call'[w] = call[w] /\ word'[w] = word[w] + 1
          /\ pc'[w] = IF word[w] + 1 = Words THEN "length" ELSE "data"
      BY <1>0, <1>4, <2>6 DEF WriteData, At, CallTyped, GoTo
    <3> QED
      BY <1>0, <2>1, <3>1, EepromAssumption DEF CallTyped, WriteSteps
  <2>7. CASE WriteLength(w) \/ LengthFails(w)
    <3>1. call'[w] = call[w] /\ word'[w] = Words /\ pc'[w] = "crc"
      BY <1>0, <2>7 DEF WriteLength, LengthFails, At, CallTyped, locals, GoTo
    <3> QED
      BY <2>1, <3>1 DEF CallTyped, WriteSteps
  <2>8. CASE Erase(w) \/ Mark(w) \/ EraseFails(w) \/ MarkFails(w)
    <3>1. call'[w] = call[w] /\ word'[w] = 0 /\ ret'[w] = "clear" /\ ret[w] = "clear"
      BY <2>8 DEF Erase, Mark, EraseFails, MarkFails, At, CallTyped, locals
    <3>2. pc'[w] \in {"mark", "clear"}
      BY <1>0, <2>8, <3>1 DEF Erase, Mark, EraseFails, MarkFails, GoTo, AfterFail
    <3> QED
      BY <1>3, <2>1, <3>1, <3>2
  <2> QED
    BY <1>4, <2>2, <2>3, <2>4, <2>5, <2>6, <2>7, <2>8
       DEF WriterStep, HeaderFails, IdFails, DataFails, WriteCrc, CrcFails
<1> QED
  BY <1>1, <1>2, <1>4

(* The tasks run only when the start-up is over. *)
LEMMA StepRuns ==
  ASSUME FlashTypeOK, NEW w \in Writers, WriterStep(w)
  PROVE  /\ pc["boot"] = "up" /\ pc'["boot"] = "up" /\ Phase = "up" /\ Phase' = "up"
         /\ page'["boot"] = page["boot"]
<1>1. pc["boot"] = "up"
  BY DEF WriterStep, Call, Check, EraseObject, EraseObjectEnds, Protect, Allocate, WriteHeader, WriteId,
         WriteData, WriteLength, WriteCrc, HeaderFails, IdFails, DataFails, LengthFails, CrcFails,
         Erase, Mark, EraseFails, MarkFails, At, CanRun
<1>2. "boot" \in Procs \ {w}
  BY EepromAssumption DEF Procs
<1>3. pc'["boot"] = "up" /\ page'["boot"] = page["boot"]
  BY <1>1, <1>2, OtherTasks DEF OthersStay
<1> QED
  BY <1>1, <1>3 DEF Phase

(* While a task holds the semaphore, or nobody does, no other is in the    *)
(* part that it protects; so every step but the first two of a call        *)
(* excludes the others.                                                    *)
Alone(w) == \A u \in Writers \ {w} : pc[u] \notin Protected /\ pc'[u] \notin Protected

LEMMA StepAlone ==
  ASSUME BaseInv, NEW w \in Writers, WriterStep(w), ~Call(w), ~Check(w)
  PROVE  Alone(w)
<1>1. pc[w] \in Protected \/ sem = Absent
  BY DEF WriterStep, EraseObject, EraseObjectEnds, Protect, Allocate, WriteHeader, WriteId,
         WriteData, WriteLength, WriteCrc, HeaderFails, IdFails, DataFails, LengthFails, CrcFails,
         Erase, Mark, EraseFails, MarkFails, At, Protected, WriteSteps
<1>2. ASSUME NEW u \in Writers \ {w} PROVE pc[u] \notin Protected
  BY <1>1, EepromAssumption DEF BaseInv, SemOK
<1>3. \A u \in Writers \ {w} : pc'[u] = pc[u]
  BY OtherTasks DEF OthersStay, BaseInv, Procs
<1> QED
  BY <1>2, <1>3 DEF Alone

LEMMA SemKept ==
  ASSUME BaseInv, NEW w \in Writers, WriterStep(w)
  PROVE  SemOK'
<1>1. w \in Procs /\ pc \in [Procs -> Steps] /\ FlashTypeOK
  BY DEF BaseInv, FlashTypeOK, Procs
<1>2. sem' = w \/ pc'[w] \notin Protected
  <2>1. CASE Call(w) \/ Check(w) \/ EraseObjectEnds(w)
    BY <1>1, <2>1 DEF Call, Check, EraseObjectEnds, GoTo, Protected
  <2>2. CASE EraseObject(w) \/ Protect(w)
    BY <2>2 DEF EraseObject, Protect
  <2>3. CASE pc[w] \in Protected /\ ~EraseObjectEnds(w) /\ ~Call(w) /\ ~Check(w)
    <3>1. sem = w
      BY <2>3 DEF BaseInv, SemOK
    <3>2. UNCHANGED sem \/ Return(w, TRUE) \/ Return(w, FALSE)
      BY <2>3 DEF WriterStep, Allocate, WriteHeader, WriteId,
         WriteData, WriteLength, WriteCrc, HeaderFails, IdFails, DataFails, LengthFails, CrcFails,
         Erase, Mark, EraseFails, MarkFails, boots, EraseObject, Protect, At, Protected
    <3>3. Return(w, TRUE) \/ Return(w, FALSE) => pc'[w] = "idle"
      BY <1>1, ReturnEnds
    <3> QED
      BY <3>1, <3>2, <3>3 DEF Protected, WriteSteps
  <2> QED
    BY <2>1, <2>2, <2>3 DEF WriterStep, Allocate, WriteHeader, WriteId,
         WriteData, WriteLength, WriteCrc, HeaderFails, IdFails, DataFails, LengthFails, CrcFails,
         Erase, Mark, EraseFails, MarkFails, At, Protected, WriteSteps
<1>3. ASSUME NEW u \in Writers, u # w, pc'[u] \in Protected PROVE sem' = u
  <2>1. Call(w) \/ Check(w)
    BY <1>3, StepAlone DEF Alone
  <2>2. UNCHANGED sem
    BY <2>1 DEF Call, Check, boots
  <2>3. pc'[u] = pc[u]
    BY <1>1, <1>3, OtherTasks DEF OthersStay, Procs
  <2> QED
    BY <1>3, <2>2, <2>3 DEF BaseInv, SemOK
<1> QED
  BY <1>2, <1>3 DEF SemOK

LEMMA WriterBase ==
  ASSUME BaseInv, NEW w \in Writers, WriterStep(w)
  PROVE  BaseInv'
<1>1. FlashTypeOK'
  BY WriteTypes DEF BaseInv
<1>2. PhaseOK'
  BY StepRuns DEF BaseInv, PhaseOK
<1>3. ASSUME NEW u \in Writers PROVE CallTyped(u)'
  <2>1. CASE u = w
    BY <2>1, CallTypedKept DEF BaseInv
  <2>2. CASE u # w
    BY <2>2, OtherTasks DEF OthersStay, BaseInv, CallTyped, Procs
  <2> QED
    BY <2>1, <2>2
<1> QED
  BY <1>1, <1>2, <1>3, SemKept DEF BaseInv

(* The start-up runs before the tasks do: none of them is in a call. *)
NoCalls == \A w \in Writers : pc[w] = "idle" /\ call[w] = Absent /\ word[w] = 0

LEMMA BootAlone ==
  ASSUME BaseInv, BootStep
  PROVE  Phase \in {"headers", "scan", "formatAll"} /\ page["boot"] >= 1 /\ NoCalls
<1>1. FlashTypeOK /\ "boot" \in Procs
  BY DEF BaseInv, Procs
<1>2. pc["boot"] \in {"headers", "scan", "formatAll", "erase", "mark"}
  BY DEF BootStep, IfInit, LowlLevelIfInit, FormatAllPages, Erase, Mark, EraseFails, MarkFails, At
<1>3. Phase # "up"
  BY <1>1, <1>2 DEF Phase, FlashTypeOK, Backs
<1>4. page["boot"] >= 1 /\ Phase \in {"headers", "scan", "formatAll"} /\ \A w \in Writers : pc[w] = "idle"
  BY <1>3 DEF BaseInv, PhaseOK
<1> QED
  BY <1>4 DEF BaseInv, CallTyped, NoCalls

LEMMA BootStays ==
  ASSUME BaseInv, BootStep
  PROVE  NoCalls' /\ UNCHANGED <<writeIdx, sem, call, word, result>>
<1>1. \E s : pc' = [pc EXCEPT !["boot"] = s] \/ UNCHANGED pc
  BY Zenon DEF BootStep, IfInit, LowlLevelIfInit, FormatAllPages, StartUpEnds, Erase, Mark, EraseFails, MarkFails,
         GoTo, Format
<1>2. UNCHANGED <<writeIdx, sem, call, word, result>>
  BY DEF BootStep, IfInit, LowlLevelIfInit, FormatAllPages, Erase, Mark, EraseFails, MarkFails, boots, locals
<1>3. \A w \in Writers : w # "boot" /\ w \in Procs
  BY EepromAssumption DEF Procs
<1> QED
  BY <1>1, <1>2, <1>3, BootAlone DEF NoCalls, BaseInv, FlashTypeOK

LEMMA BootPhase ==
  ASSUME BaseInv, BootStep
  PROVE  /\ Phase' \in {"headers", "scan", "formatAll", "up"}
         /\ Phase' # "up" => page'["boot"] >= 1
<1>0. /\ "boot" \in Procs /\ pc \in [Procs -> Steps] /\ ret \in [Procs -> Backs] /\ page \in [Procs -> Nat]
      /\ page["boot"] \in Nat /\ page["boot"] >= 1 /\ Phase \in {"headers", "scan", "formatAll"}
  BY BootAlone DEF BaseInv, FlashTypeOK, Procs
<1>1. CASE IfInit
  <2>1. \/ pc'["boot"] = "scan" /\ page'["boot"] = 1
        \/ pc'["boot"] = "erase" /\ ret'["boot"] = "headers" /\ page'["boot"] = page["boot"]
        \/ pc'["boot"] = "headers" /\ page'["boot"] = page["boot"] + 1
    BY <1>0, <1>1 DEF IfInit, GoTo, Format
  <2> QED
    BY <1>0, <2>1 DEF Phase
<1>2. CASE LowlLevelIfInit
  <2>1. \/ pc'["boot"] = "up"
        \/ pc'["boot"] = "formatAll" /\ page'["boot"] = 1
        \/ pc'["boot"] = "erase" /\ ret'["boot"] = "scan" /\ page'["boot"] = page["boot"]
        \/ pc'["boot"] = "scan" /\ page'["boot"] = page["boot"] + 1
    BY <1>0, <1>2 DEF LowlLevelIfInit, GoTo, Format, StartUpEnds
  <2> QED
    BY <1>0, <2>1 DEF Phase
<1>3. CASE FormatAllPages
  <2>1. \/ pc'["boot"] = "up"
        \/ pc'["boot"] = "erase" /\ ret'["boot"] = "formatAll" /\ page'["boot"] = page["boot"]
    BY <1>0, <1>3 DEF FormatAllPages, GoTo, Format, StartUpEnds
  <2> QED
    BY <1>0, <2>1 DEF Phase
<1>4. CASE Erase("boot") \/ Mark("boot") \/ EraseFails("boot") \/ MarkFails("boot")
  <2>1. pc["boot"] \in {"erase", "mark"} /\ ret["boot"] \in {"headers", "scan", "formatAll"}
        /\ PageAfter("boot") = page["boot"] + 1 /\ AfterFail("boot") \in {"scan", "up"}
    BY <1>0, <1>4 DEF Erase, Mark, EraseFails, MarkFails, At, Phase, PageAfter, AfterFail
  <2>2. ret'["boot"] = ret["boot"]
    BY <1>4 DEF Erase, Mark, EraseFails, MarkFails, locals
  <2>3. \/ pc'["boot"] = "mark" /\ page'["boot"] = page["boot"]
        \/ pc'["boot"] \in {ret["boot"], AfterFail("boot")} /\ page'["boot"] = page["boot"] + 1
    BY <1>0, <1>4, <2>1 DEF Erase, Mark, EraseFails, MarkFails, GoTo, locals
  <2> QED
    BY <1>0, <2>1, <2>2, <2>3 DEF Phase
<1> QED
  BY <1>1, <1>2, <1>3, <1>4 DEF BootStep

LEMMA BootBase ==
  ASSUME BaseInv, BootStep
  PROVE  BaseInv'
<1>0. "boot" \in Procs /\ FlashTypeOK /\ "boot" \notin Writers
  BY EepromAssumption DEF BaseInv, Procs
<1>1. FlashTypeOK'
  <2>1. ASSUME Erase("boot") \/ Mark("boot") \/ EraseFails("boot") \/ MarkFails("boot") PROVE FlashTypeOK'
    <3>1. pc["boot"] \in {"erase", "mark"}
      BY <2>1 DEF Erase, Mark, EraseFails, MarkFails, At
    <3>2. ret["boot"] # "clear"
      BY <3>1, BootAlone DEF Phase
    <3> QED
      BY <1>0, <2>1, <3>2, EraseTypes
  <2> QED
    BY <1>0, <2>1, BootTypes DEF BootStep
<1>2. PhaseOK' /\ SemOK' /\ \A w \in Writers : CallTyped(w)'
  BY BootPhase, BootStays DEF PhaseOK, SemOK, NoCalls, CallTyped, Protected, WriteSteps
<1> QED
  BY <1>1, <1>2 DEF BaseInv

(* The states a reset leads to are like the initial one. *)
AtReset ==
  /\ pc = AtStart.pc /\ page = AtStart.page /\ ret = AtStart.ret
  /\ call = [w \in Writers |-> Absent] /\ word = [w \in Writers |-> 0]
  /\ status = NoStatus /\ obj = [o \in Objects |-> NoObject] /\ found = FALSE
StartOK == PhaseOK /\ SemOK /\ NoCalls /\ pc["boot"] = "headers" /\ \A w \in Writers : CallTyped(w)

LEMMA FreshStart == AtReset => StartOK
<1> SUFFICES ASSUME AtReset PROVE StartOK
  OBVIOUS
<1>1. "boot" \in Procs /\ \A w \in Writers : w \in Procs /\ w # "boot"
  BY EepromAssumption DEF Procs
<1>2. pc["boot"] = "headers" /\ page["boot"] = 1 /\ \A w \in Writers : pc[w] = "idle"
  BY <1>1 DEF AtReset, AtStart
<1>3. NoCalls
  BY <1>2 DEF NoCalls, AtReset
<1> QED
  BY <1>2, <1>3 DEF StartOK, PhaseOK, Phase, SemOK, NoCalls, CallTyped, Protected, WriteSteps

LEMMA ResetStarts == Reset => AtReset'
BY DEF Reset, AtReset, AtStart

LEMMA FreshBase == (Init => BaseInv) /\ (BaseInv /\ Reset => BaseInv')
<1>1. Init => BaseInv
  BY InitTypes, FreshStart DEF Init, AtReset, StartOK, BaseInv
<1>2. AtReset' => StartOK'
  BY FreshStart, PTL
<1> QED
  BY <1>1, <1>2, ResetStarts, ResetTypes DEF StartOK, BaseInv

LEMMA BaseNext == BaseInv /\ [Next]_vars => BaseInv'
<1>1. ASSUME BaseInv, UNCHANGED vars PROVE BaseInv'
  <2>1. FlashTypeOK'
    BY <1>1 DEF BaseInv, FlashTypeOK, vars, boots, locals
  <2> QED
    BY <1>1, <2>1 DEF BaseInv, PhaseOK, Phase, SemOK, CallTyped, vars, boots, locals
<1> QED
  BY <1>1, FlashActions, WriterBase, BootBase, FreshBase

(* Nothing is ever promised again of an object that is spoilt. *)
LEMMA SpoiltGrows ==
  ASSUME BaseInv, BaseInv', [Next]_vars
  PROVE  spoilt \subseteq spoilt'
<1>1. spoilt' \subseteq Objects /\ spoilt \subseteq Objects
  BY DEF BaseInv, FlashTypeOK
<1>2. ASSUME NEW t, Erase(t) \/ Mark(t) \/ EraseFails(t) \/ MarkFails(t) PROVE spoilt \subseteq spoilt'
  BY <1>1, <1>2 DEF Erase, Mark, EraseFails, MarkFails
<1>3. Boot => spoilt \subseteq spoilt'
  BY DEF Boot, IfInit, LowlLevelIfInit, FormatAllPages
<1>4. ASSUME NEW w \in Writers, Write(w) PROVE spoilt \subseteq spoilt'
  BY <1>1, <1>4 DEF Write, Call, Check, EraseObject, EraseObjectEnds, Protect, Allocate, WriteHeader, WriteId,
         WriteData, WriteLength, WriteCrc, HeaderFails, IdFails, DataFails, LengthFails, CrcFails
<1> QED
  BY <1>2, <1>3, <1>4 DEF Next, Reset, vars

(* The object a task is writing, called own below, and the others.  What   *)
(* the flash and the table hold of own at each step of the call:           *)
OwnOK(w, own) ==
  /\ obj[own].length => obj[own].base # NoPage
  /\ obj[own].base # NoPage /\ pc[w] \notin {"mark", "clear"} => flash[obj[own].base].id = own
  /\ own \in Sound => Single(own) /\ (pc[w] \notin {"mark", "clear", "crc"} => EntryOK(own))

(* A step of the call writes to page k, which is own's or nobody's, and to *)
(* own's entry only.                                                       *)
Writes(k, own) ==
  /\ \A p \in Pages : p # k => flash'[p] = flash[p] /\ status'[p] = status[p]
  /\ k \in Pages => /\ flash[k].id \notin Objects \ {own}
                    /\ flash'[k].id \notin Objects \ {own}
                    /\ PageOK(k)'
  /\ \A o \in Objects : o # own => obj'[o] = obj[o]

LEMMA OwnBefore ==
  ASSUME BaseInv, CoreInv, NEW w \in Writers, Alone(w), pc[w] # "idle"
  PROVE  /\ call[w].id \in Objects /\ OwnOK(w, call[w].id)
         /\ \A o \in Objects : o # call[w].id => ~Moving(o) /\ ~Leaving(o)
<1>1. call[w].id \in Objects
  BY InCall DEF BaseInv
<1>2. \A u \in Writers : u # w => pc[u] \notin {"mark", "clear", "crc"}
  BY DEF Alone, Protected, WriteSteps
<1>3. \A o \in Objects : o # call[w].id => ~Moving(o) /\ ~Leaving(o)
  BY <1>2 DEF Moving, Leaving
<1>4. pc[w] \notin {"mark", "clear"} => \A o \in Objects : ~Leaving(o)
  BY <1>2 DEF Leaving
<1>5. pc[w] \notin {"mark", "clear", "crc"} => \A o \in Objects : ~Moving(o)
  BY <1>2 DEF Moving
<1>6. Phase = "up"
  BY DEF BaseInv, PhaseOK
<1> QED
  BY <1>1, <1>3, <1>4, <1>5, <1>6 DEF OwnOK, CoreInv, TableOK, TableAt, OnePage, TasksOK

(* What that leaves of the other objects. *)
LEMMA OthersKept ==
  ASSUME BaseInv, CoreInv, NEW k, NEW own, Writes(k, own), NEW o \in Objects, o # own
  PROVE  /\ Held(o)' = Held(o)
         /\ obj[o].base # NoPage /\ flash[obj[o].base].id = o => flash'[obj[o].base] = flash[obj[o].base]
         /\ Single(o) => Single(o)'
         /\ EntryOK(o) /\ (obj[o].base # NoPage => flash[obj[o].base].id = o) => EntryOK(o)'
<1>1. Held(o)' = Held(o)
  BY DEF Held, Writes
<1>2. obj[o].base # NoPage => obj[o].base \in Pages
  BY EepromAssumption DEF BaseInv, FlashTypeOK, Entry, NoPage, Pages
<1>3. obj[o].base # NoPage /\ flash[obj[o].base].id = o => flash'[obj[o].base] = flash[obj[o].base]
  BY <1>2 DEF Writes
<1>4. obj'[o] = obj[o]
  BY DEF Writes
<1>5. Single(o) => Single(o)'
  BY <1>1 DEF Single
<1>6. EntryOK(o) /\ (obj[o].base # NoPage => flash[obj[o].base].id = o) => EntryOK(o)'
  BY <1>1, <1>3, <1>4 DEF EntryOK, Whole
<1> QED
  BY <1>1, <1>3, <1>5, <1>6

(* So a step of a call has only to look after what is its own. *)
LEMMA WriterKeeps ==
  ASSUME BaseInv, CoreInv, BaseInv', spoilt \subseteq spoilt',
         NEW w \in Writers, WriterStep(w), ~Call(w), ~Check(w),
         pc[w] # "idle", call'[w] \in {call[w], Absent},
         NEW k, NEW own, own = call[w].id, Writes(k, own),
         OwnOK(w, own)', CallOK(w)', SoundCallOK(w)'
  PROVE  CoreInv'
<1>0. Alone(w) /\ OthersStay(w) /\ FlashTypeOK /\ FlashTypeOK'
  BY StepAlone, OtherTasks DEF BaseInv
<1>1. /\ own \in Objects
      /\ \A o \in Objects : o # own => ~Moving(o) /\ ~Leaving(o)
  BY <1>0, OwnBefore
<1>2. PagesOK'
  BY DEF Writes, CoreInv, PagesOK, PageOK, AllOf
<1>3. Sound' \subseteq Sound
  BY DEF Sound
<1>4. OnePage'
  <2>1. ASSUME NEW o \in Sound' PROVE Single(o)'
    <3>1. o \in Objects /\ o \in Sound
      BY <1>3 DEF Sound
    <3>2. CASE o = own
      BY <3>2 DEF OwnOK
    <3>3. CASE o # own
      BY <3>1, <3>3, OthersKept DEF CoreInv, OnePage
    <3> QED
      BY <3>2, <3>3
  <2> QED
    BY <2>1 DEF OnePage
<1>5. ASSUME NEW u \in Writers PROVE call'[u] = call[u] \/ call'[u] = Absent
  BY <1>0 DEF OthersStay
<1>6. OneWriter'
  BY <1>3, <1>5 DEF CoreInv, OneWriter
<1>7. \A u \in Writers : u # w => pc'[u] \notin {"mark", "clear", "crc"}
  BY <1>0 DEF Alone, Protected, WriteSteps
<1>8. pc'[w] \in {"mark", "clear", "crc"} => call'[w].id = own
  <2>1. pc'[w] \in {"mark", "clear", "crc"} => call'[w] # Absent
    BY DEF BaseInv, CallTyped
  <2> QED
    BY <2>1
<1>9. ASSUME NEW o \in Objects, o # own PROVE obj[o].base # NoPage => flash[obj[o].base].id = o
  BY <1>1, <1>9 DEF CoreInv, TableOK, TableAt
<1>10. ASSUME NEW o \in Objects PROVE TableAt(o)'
  <2>1. CASE o = own
    BY <1>8, <2>1 DEF OwnOK, TableAt, Leaving
  <2>2. CASE o # own
    <3>1. obj'[o] = obj[o]
      BY <2>2 DEF Writes
    <3>2. obj[o].base # NoPage => flash'[obj[o].base].id = o
      BY <1>9, <2>2, OthersKept
    <3> QED
      BY <3>1, <3>2 DEF TableAt, CoreInv, TableOK
  <2> QED
    BY <2>1, <2>2
<1>11. TasksOK'
  <2>1. Phase = "up"
    BY StepRuns, <1>0
  <2>2. ASSUME NEW o \in Sound', ~Moving(o)' PROVE EntryOK(o)'
    <3>1. o \in Objects /\ o \in Sound
      BY <1>3 DEF Sound
    <3>2. CASE o = own
      BY <1>8, <2>2, <3>1, <3>2 DEF OwnOK, Moving
    <3>3. CASE o # own
      BY <1>1, <1>9, <2>1, <3>1, <3>3, OthersKept DEF CoreInv, TasksOK
    <3> QED
      BY <3>2, <3>3
  <2> QED
    BY <2>2 DEF TasksOK
<1>12. BootOK'
  BY <1>0, StepRuns DEF BootOK
<1>13. ASSUME NEW u \in Writers, u # w PROVE CallOK(u)' /\ SoundCallOK(u)'
  <2>1. pc'[u] = pc[u] /\ call'[u] = call[u] /\ u \in Procs
    BY <1>0, <1>13 DEF OthersStay, Procs
  <2>2. pc[u] \in {"idle", "check", "pendErase", "pend"}
    BY <1>0, <1>13 DEF Alone, Protected, BaseInv, CallTyped
  <2>3. CallOK(u)'
    BY <2>1, <2>2 DEF CallOK
  <2>4. SoundCallOK(u)'
    <3>1. CASE pc[u] \in {"idle", "check"}
      BY <2>1, <3>1 DEF SoundCallOK
    <3>2. CASE pc[u] \in {"pendErase", "pend"} /\ call[u].id \in Sound
      <4>1. call[u] # Absent /\ call[w] # Absent
        BY <3>2 DEF BaseInv, CallTyped
      <4>2. call[u].id # own
        BY <1>13, <3>2, <4>1 DEF CoreInv, OneWriter
      <4>3. obj'[call[u].id] = obj[call[u].id]
        BY <3>2, <4>2 DEF Writes, Sound
      <4> QED
        BY <2>1, <3>2, <4>3 DEF SoundCallOK, CoreInv
    <3>3. CASE call[u].id \notin Sound
      BY <1>3, <2>1, <3>3 DEF SoundCallOK
    <3> QED
      BY <2>2, <3>1, <3>2, <3>3
  <2> QED
    BY <2>3, <2>4
<1> QED
  BY <1>2, <1>4, <1>6, <1>10, <1>11, <1>12, <1>13 DEF CoreInv, TableOK

(* What programming a part of page k leaves. *)
LEMMA PartWritten ==
  ASSUME FlashTypeOK, NEW k \in Pages, NEW c
  PROVE  /\ flash' = [flash EXCEPT ![k].header = c] =>
              /\ \A p \in Pages : p # k => flash'[p] = flash[p]
              /\ flash'[k].header = c /\ flash'[k].id = flash[k].id /\ flash'[k].length = flash[k].length
              /\ flash'[k].crc = flash[k].crc /\ flash'[k].data = flash[k].data
         /\ flash' = [flash EXCEPT ![k].id = c] =>
              /\ \A p \in Pages : p # k => flash'[p] = flash[p]
              /\ flash'[k].id = c /\ flash'[k].header = flash[k].header /\ flash'[k].length = flash[k].length
              /\ flash'[k].crc = flash[k].crc /\ flash'[k].data = flash[k].data
         /\ flash' = [flash EXCEPT ![k].length = c] =>
              /\ \A p \in Pages : p # k => flash'[p] = flash[p]
              /\ flash'[k].length = c /\ flash'[k].header = flash[k].header /\ flash'[k].id = flash[k].id
              /\ flash'[k].crc = flash[k].crc /\ flash'[k].data = flash[k].data
         /\ flash' = [flash EXCEPT ![k].crc = c] =>
              /\ \A p \in Pages : p # k => flash'[p] = flash[p]
              /\ flash'[k].crc = c /\ flash'[k].header = flash[k].header /\ flash'[k].id = flash[k].id
              /\ flash'[k].length = flash[k].length /\ flash'[k].data = flash[k].data
BY DEF FlashTypeOK, Page

(* What an erase leaves of a page that it does not finish. *)
LEMMA TornIs ==
  ASSUME NEW c \in Torn
  PROVE  /\ c.id \in {Blank, Mixed} /\ c.id \notin Objects
         /\ c.id = Blank => c = Uniform("ERASED", Blank)
<1>1. /\ \A h : Uniform(h, Mixed).id = Mixed
      /\ Uniform("ERASED", Blank).id = Blank
  BY DEF Uniform
<1> QED
  BY <1>1, EepromAssumption DEF Torn

LEMMA UniformIs ==
  /\ Uniform("ERASED", Blank).id = Blank /\ Uniform("ERASED", Blank).length = Blank
  /\ Uniform("ERASED", Blank).crc = Blank /\ Uniform("ERASED", Blank).header = "ERASED"
  /\ \A i \in 1 .. Words : Uniform("ERASED", Blank).data[i] = Blank
BY DEF Uniform

(* The first two steps of a call write nothing. *)
LEMMA QuietKeeps ==
  ASSUME BaseInv, CoreInv, BaseInv', spoilt \subseteq spoilt', NEW w \in Writers, WriterStep(w),
         UNCHANGED <<flash, status, obj>>, pc[w] \in {"idle", "check"},
         pc'[w] \in {"check", "pendErase", "pend"}, OneWriter', SoundCallOK(w)'
  PROVE  CoreInv'
<1>0. OthersStay(w)
  BY OtherTasks DEF BaseInv
<1>1. Sound' \subseteq Sound
  BY DEF Sound
<1>2. PagesOK' /\ OnePage'
  BY <1>1 DEF CoreInv, PagesOK, PageOK, AllOf, OnePage, Single, Held
<1>3. ASSUME NEW u \in Writers, u # w PROVE pc'[u] = pc[u] /\ call'[u] = call[u] /\ page'[u] = page[u] /\ word'[u] = word[u]
  BY <1>0, <1>3 DEF OthersStay, Procs
<1>4. \A o : (Moving(o)' <=> Moving(o)) /\ (Leaving(o)' <=> Leaving(o))
  BY <1>3 DEF Moving, Leaving
<1>5. TableOK'
  BY <1>4 DEF CoreInv, TableOK, TableAt
<1>6. ASSUME NEW o \in Objects, EntryOK(o) PROVE EntryOK(o)'
  BY <1>6 DEF EntryOK, Held, Whole
<1>7. TasksOK' /\ BootOK'
  <2>1. Phase = "up" /\ pc'["boot"] = "up" /\ Phase' = "up"
    BY StepRuns DEF BaseInv
  <2>2. TasksOK'
    BY <1>1, <1>4, <1>6, <2>1 DEF CoreInv, TasksOK, Sound
  <2> QED
    BY <2>1, <2>2 DEF BootOK
<1>8. CallOK(w)'
  BY DEF CallOK
<1>9. ASSUME NEW u \in Writers, u # w PROVE CallOK(u)' /\ SoundCallOK(u)'
  <2>1. CallOK(u)'
    BY <1>3, <1>9 DEF CoreInv, CallOK, FreshPage, AllOf
  <2>2. SoundCallOK(u)'
    BY <1>1, <1>3, <1>9 DEF CoreInv, SoundCallOK, Wrote, Held
  <2> QED
    BY <2>1, <2>2
<1> QED
  BY <1>2, <1>5, <1>7, <1>8, <1>9 DEF CoreInv

LEMMA CallKeeps ==
  ASSUME BaseInv, CoreInv, BaseInv', spoilt \subseteq spoilt', NEW w \in Writers, Call(w) \/ Check(w)
  PROVE  CoreInv'
<1>0. w \in Procs /\ pc \in [Procs -> Steps] /\ call \in [Writers -> Calls \cup {Absent}] /\ WriterStep(w)
  BY DEF BaseInv, FlashTypeOK, Procs, WriterStep
<1>1. Sound' \subseteq Sound
  BY DEF Sound
<1>2. CASE Call(w)
  <2>1. PICK o \in Objects, v \in Values :
          /\ call' = [call EXCEPT ![w] = [id |-> o, value |-> v]]
          /\ spoilt' = IF o \in OtherCalls(w) THEN spoilt \cup {o} ELSE spoilt
    BY <1>2 DEF Call
  <2>2. pc[w] = "idle" /\ pc'[w] = "check" /\ call'[w].id = o /\ UNCHANGED <<flash, status, obj>>
    BY <1>0, <1>2, <2>1 DEF Call, At, GoTo, boots
  <2>3. \A u \in Writers : u # w => call'[u] = call[u]
    BY <1>0, <2>1
  <2>4. \A u \in Writers : u # w /\ call[u] # Absent /\ call[u].id \in Sound' => call[u].id # o
    BY <2>1 DEF OtherCalls, Sound
  <2>5. OneWriter'
    BY <1>1, <2>2, <2>3, <2>4 DEF CoreInv, OneWriter
  <2>6. SoundCallOK(w)'
    BY <2>2 DEF SoundCallOK
  <2> QED
    BY <1>0, <2>2, <2>5, <2>6, QuietKeeps
<1>3. CASE Check(w)
  <2>1. /\ pc[w] = "check" /\ UNCHANGED <<flash, status, obj, call, spoilt>>
        /\ pc'[w] = IF obj[call[w].id].length THEN "pendErase" ELSE "pend"
    BY <1>0, <1>3 DEF Check, At, GoTo, boots, locals
  <2>2. OneWriter'
    BY <1>1, <2>1 DEF CoreInv, OneWriter
  <2>3. SoundCallOK(w)'
    BY <2>1 DEF SoundCallOK
  <2> QED
    BY <1>0, <2>1, <2>2, <2>3, QuietKeeps
<1> QED
  BY <1>2, <1>3

(* A step that takes or gives back the semaphore and writes nothing. *)
LEMMA NothingWritten ==
  ASSUME BaseInv, CoreInv, BaseInv', spoilt \subseteq spoilt', NEW w \in Writers, WriterStep(w),
         pc[w] \in {"pendErase", "pend", "allocate"}, UNCHANGED <<flash, status, obj>>,
         call'[w] \in {call[w], Absent}, CallOK(w)', SoundCallOK(w)'
  PROVE  CoreInv'
<1> DEFINE own == call[w].id
<1>1. ~Call(w) /\ ~Check(w)
  BY DEF Call, Check, At
<1>2. own \in Objects /\ OwnOK(w, own)
  BY <1>1, StepAlone, OwnBefore
<1>3. PICK o : o = own
  OBVIOUS
<1>4. OwnOK(w, o)'
  BY <1>2, <1>3 DEF OwnOK, Sound, Single, EntryOK, Held, Whole
<1>5. Writes(NoPage, o)
  BY EepromAssumption DEF Writes, NoPage, Pages
<1> QED
  BY <1>1, <1>3, <1>4, <1>5, WriterKeeps

LEMMA IdleOK ==
  ASSUME BaseInv, NEW w \in Writers, NEW b, Return(w, b)
  PROVE  CallOK(w)' /\ SoundCallOK(w)' /\ call'[w] = Absent /\ pc'[w] = "idle"
BY ReturnEnds DEF BaseInv, CallOK, SoundCallOK

(* The ID of a page in use is read as it is. *)
LEMMA IdRead ==
  ASSUME BaseInv, CoreInv, NEW o \in Objects, obj[o].base # NoPage, flash[obj[o].base].id = o
  PROVE  IdIs(o) = {TRUE} /\ PageOf(o) = obj[o].base /\ obj[o].base \in Pages
<1>1. obj[o].base \in Pages
  BY EepromAssumption DEF BaseInv, FlashTypeOK, Entry, NoPage, Pages
<1>2. status[obj[o].base] = "RECEIVE"
  BY <1>1 DEF CoreInv, PagesOK, PageOK
<1> QED
  BY <1>1, <1>2 DEF IdIs, PageOf

LEMMA EraseObjectKeeps ==
  ASSUME BaseInv, CoreInv, BaseInv', spoilt \subseteq spoilt', spoilt' # Objects,
         NEW w \in Writers, EraseObject(w)
  PROVE  CoreInv'
<1>0. WriterStep(w) /\ w \in Procs /\ pc \in [Procs -> Steps] /\ page \in [Procs -> Nat]
  BY DEF WriterStep, BaseInv, FlashTypeOK, Procs
<1>1. PICK own : own = call[w].id
  OBVIOUS
<1>2. PICK same \in IdIs(own) :
        /\ IF same THEN Format(w, PageOf(own), "clear") ELSE GoTo(w, "clear") /\ UNCHANGED <<page, ret>>
        /\ spoilt' = IF same /\ obj[own].base = NoPage THEN Objects ELSE spoilt
  BY <1>1 DEF EraseObject
<1>3. pc[w] = "pendErase" /\ UNCHANGED <<flash, status, obj, call>>
  BY DEF EraseObject, At
<1>4. own \in Objects /\ OwnOK(w, own)
  <2>1. ~Call(w) /\ ~Check(w)
    BY <1>3 DEF Call, Check, At
  <2> QED
    BY <1>0, <1>1, <1>3, <2>1, StepAlone, OwnBefore
<1>5. CASE same
  <2>1. pc'[w] = "erase" /\ page'[w] = PageOf(own)
    BY <1>0, <1>2, <1>5 DEF Format, GoTo
  <2>2. obj[own].base # NoPage
    BY <1>2, <1>5
  <2>3. flash[obj[own].base].id = own
    BY <1>3, <1>4, <2>2 DEF OwnOK
  <2>4. CallOK(w)'
    BY <1>1, <1>3, <1>4, <2>1, <2>2, <2>3, IdRead DEF CallOK
  <2>5. SoundCallOK(w)'
    BY <1>1, <1>3, <2>1 DEF SoundCallOK, CoreInv, Sound
  <2> QED
    BY <1>0, <1>3, <2>4, <2>5, NothingWritten
<1>6. CASE ~same
  <2>1. pc'[w] = "clear"
    BY <1>0, <1>2, <1>6 DEF GoTo
  <2>2. own \notin Sound
    <3> SUFFICES ASSUME own \in Sound PROVE FALSE
      OBVIOUS
    <3>1. obj[own].length
      BY <1>1, <1>3 DEF CoreInv, SoundCallOK
    <3>2. obj[own].base # NoPage /\ flash[obj[own].base].id = own
      BY <1>3, <1>4, <3>1 DEF OwnOK
    <3>3. IdIs(own) = {TRUE}
      BY <1>4, <3>2, IdRead
    <3>4. same \in {TRUE}
      BY <3>3, Zenon
    <3> QED
      BY <1>6, <3>4, Zenon
  <2>3. CallOK(w)' /\ SoundCallOK(w)'
    BY <1>1, <1>3, <2>1, <2>2 DEF CallOK, SoundCallOK, Sound
  <2> QED
    BY <1>0, <1>3, <2>3, NothingWritten
<1> QED
  BY <1>5, <1>6

LEMMA ProtectKeeps ==
  ASSUME BaseInv, CoreInv, BaseInv', spoilt \subseteq spoilt', NEW w \in Writers, Protect(w)
  PROVE  CoreInv'
<1>0. WriterStep(w) /\ w \in Procs /\ pc \in [Procs -> Steps]
  BY DEF WriterStep, BaseInv, FlashTypeOK, Procs
<1>1. pc[w] = "pend" /\ pc'[w] = "allocate" /\ UNCHANGED <<flash, status, obj, call, spoilt>>
  BY <1>0 DEF Protect, At, GoTo, locals
<1>2. CallOK(w)' /\ SoundCallOK(w)'
  BY <1>1 DEF CallOK, SoundCallOK, CoreInv, Sound
<1> QED
  BY <1>0, <1>1, <1>2, NothingWritten

LEMMA AllocateKeeps ==
  ASSUME BaseInv, CoreInv, BaseInv', spoilt \subseteq spoilt', NEW w \in Writers, Allocate(w)
  PROVE  CoreInv'
<1>0. WriterStep(w) /\ w \in Procs /\ pc \in [Procs -> Steps] /\ page \in [Procs -> Nat] /\ FlashTypeOK
  BY DEF WriterStep, BaseInv, FlashTypeOK, Procs
<1>1. PICK own : own = call[w].id
  OBVIOUS
<1>2. pc[w] = "allocate" /\ UNCHANGED <<flash, status, obj, spoilt>>
  BY DEF Allocate, At
<1>3. own \in Objects /\ OwnOK(w, own) /\ word[w] = 0
  <2>1. ~Call(w) /\ ~Check(w)
    BY <1>2 DEF Call, Check, At
  <2> QED
    BY <1>0, <1>1, <1>2, <2>1, StepAlone, OwnBefore DEF BaseInv, CallTyped
<1>4. CASE Return(w, FALSE)
  BY <1>0, <1>2, <1>4, IdleOK, NothingWritten
<1>5. CASE /\ obj[own].length \/ obj[own].base # NoPage
           /\ GoTo(w, "data") /\ page' = [page EXCEPT ![w] = obj[own].base] /\ UNCHANGED <<call, word>>
  <2>1. pc'[w] = "data" /\ page'[w] = obj[own].base
    BY <1>0, <1>5 DEF GoTo
  <2>2. obj[own].base \in Pages
    BY <1>0, <1>3, <1>5, EepromAssumption DEF OwnOK, FlashTypeOK, Entry, NoPage, Pages
  <2>3. CallOK(w)'
    BY <1>1, <1>2, <1>5, <2>1, <2>2 DEF CallOK
  <2>4. SoundCallOK(w)'
    BY <1>1, <1>2, <1>3, <1>5, <2>1 DEF SoundCallOK, CoreInv, Sound, Wrote
  <2> QED
    BY <1>0, <1>2, <1>5, <2>3, <2>4, NothingWritten
<1>6. CASE /\ ~(obj[own].length \/ obj[own].base # NoPage)
           /\ \E p \in FirstFree : page' = [page EXCEPT ![w] = p] /\ GoTo(w, "header")
           /\ UNCHANGED <<call, word>>
  <2>1. pc'[w] = "header" /\ page'[w] \in FirstFree
    BY <1>0, <1>6 DEF GoTo
  <2>2. flash[page'[w]].id \notin Objects
    <3>1. page'[w] \in Pages /\ status[page'[w]] # "RECEIVE"
      BY <1>0, <2>1, FirstFreeIsFree
    <3> QED
      BY <3>1 DEF CoreInv, PagesOK, PageOK
  <2>3. CallOK(w)'
    BY <1>1, <1>2, <1>6, <2>1, <2>2 DEF CallOK
  <2>4. SoundCallOK(w)'
    BY <1>1, <1>2, <1>6, <2>1 DEF SoundCallOK, Sound
  <2> QED
    BY <1>0, <1>2, <1>6, <2>3, <2>4, NothingWritten
<1> QED
  BY <1>1, <1>4, <1>5, <1>6 DEF Allocate

(* FLASH_EraseObject. *)
LEMMA EraseKeeps ==
  ASSUME BaseInv, CoreInv, BaseInv', spoilt \subseteq spoilt', NEW w \in Writers, Erase(w) \/ EraseFails(w)
  PROVE  CoreInv'
<1>0. WriterStep(w) /\ w \in Procs /\ pc \in [Procs -> Steps] /\ page \in [Procs -> Nat] /\ FlashTypeOK
      /\ flash \in [Pages -> Page] /\ status \in [Pages -> Headers]
  BY DEF WriterStep, BaseInv, FlashTypeOK, Procs
<1>1. PICK own, k : own = call[w].id /\ k = page[w]
  OBVIOUS
<1>2. pc[w] = "erase" /\ UNCHANGED <<obj, call>> /\ ~Call(w) /\ ~Check(w) /\ ret[w] = "clear"
  BY DEF Erase, EraseFails, At, boots, locals, Call, Check, BaseInv, CallTyped
<1>3. own \in Objects /\ OwnOK(w, own)
  BY <1>0, <1>1, <1>2, StepAlone, OwnBefore
<1>4. k \in Pages /\ k = obj[own].base
  BY <1>1, <1>2 DEF CoreInv, CallOK
<1>5. flash[k].id = own
  BY <1>2, <1>3, <1>4, EepromAssumption DEF OwnOK, Pages, NoPage
<1>6. PICK c : flash' = [flash EXCEPT ![k] = c] /\ c \in Torn \cup {flash[k]}
  BY <1>1 DEF Erase, EraseFails, Torn
<1>7. (\A p \in Pages : p # k => flash'[p] = flash[p]) /\ flash'[k] = c
  BY <1>0, <1>4, <1>6
<1>8. c.id \in {own, Blank, Mixed}
  BY <1>5, <1>6, TornIs
<1>9. CASE Erase(w)
  <2>1. c = Uniform("ERASED", Blank) /\ status' = [status EXCEPT ![k] = "ERASED"]
        /\ pc'[w] = "mark" /\ page'[w] = k /\ spoilt' = spoilt
    BY <1>0, <1>1, <1>4, <1>6, <1>7, <1>9 DEF Erase, GoTo, locals
  <2>2. AllOf(k, Blank)' /\ flash'[k].id = Blank
    BY <1>7, <2>1, UniformIs DEF AllOf
  <2>3. Blank \notin Objects
    BY EepromAssumption
  <2>4. Writes(k, own)
    BY <1>0, <1>2, <1>5, <1>7, <2>1, <2>2, <2>3 DEF Writes, PageOK
  <2>5. own \in Sound => Held(own)' = {}
    BY <1>3, <1>4, <1>5, <1>7, <2>2, <2>3 DEF OwnOK, Single, Held
  <2>6. OwnOK(w, own)'
    BY <1>2, <1>3, <2>1, <2>5 DEF OwnOK, Single, Sound
  <2>7. CallOK(w)'
    BY <1>4, <2>1, <2>2 DEF CallOK, FreshPage
  <2>8. SoundCallOK(w)'
    BY <1>1, <1>2, <2>1, <2>5 DEF SoundCallOK, Sound
  <2> QED
    BY <1>0, <1>1, <1>2, <2>4, <2>6, <2>7, <2>8, WriterKeeps
<1>10. CASE EraseFails(w)
  <2>1. pc'[w] = "clear" /\ spoilt' = spoilt \cup {own} /\ UNCHANGED status
    BY <1>0, <1>1, <1>2, <1>10 DEF EraseFails, GoTo, AfterFail, SpoiltBy, boots
  <2>2. own \notin Sound'
    BY <2>1 DEF Sound
  <2>3. PageOK(k)'
    <3>1. CASE c = flash[k]
      BY <1>4, <1>7, <2>1, <3>1 DEF CoreInv, PagesOK, PageOK, AllOf
    <3>2. CASE c \in Torn
      BY <1>7, <3>2, TornIs, UniformIs DEF PageOK, AllOf
    <3> QED
      BY <1>6, <3>1, <3>2
  <2>4. Writes(k, own)
    BY <1>2, <1>5, <1>7, <1>8, <2>1, <2>3, EepromAssumption DEF Writes
  <2>5. OwnOK(w, own)'
    BY <1>2, <1>3, <2>1, <2>2 DEF OwnOK
  <2>6. CallOK(w)' /\ SoundCallOK(w)'
    BY <1>1, <1>2, <2>1, <2>2 DEF CallOK, SoundCallOK
  <2> QED
    BY <1>0, <1>1, <1>2, <2>4, <2>5, <2>6, WriterKeeps
<1> QED
  BY <1>9, <1>10

LEMMA MarkKeeps ==
  ASSUME BaseInv, CoreInv, BaseInv', spoilt \subseteq spoilt', NEW w \in Writers, Mark(w) \/ MarkFails(w)
  PROVE  CoreInv'
<1>0. WriterStep(w) /\ w \in Procs /\ pc \in [Procs -> Steps] /\ page \in [Procs -> Nat] /\ FlashTypeOK
      /\ status \in [Pages -> Headers]
  BY DEF WriterStep, BaseInv, FlashTypeOK, Procs
<1>1. PICK own, k : own = call[w].id /\ k = page[w]
  OBVIOUS
<1>2. pc[w] = "mark" /\ UNCHANGED <<obj, call, spoilt>> /\ ~Call(w) /\ ~Check(w) /\ ret[w] = "clear"
  BY DEF Mark, MarkFails, At, boots, locals, Call, Check, BaseInv, CallTyped
<1>3. own \in Objects /\ OwnOK(w, own)
  BY <1>0, <1>1, <1>2, StepAlone, OwnBefore
<1>4. k \in Pages /\ AllOf(k, Blank)
  BY <1>1, <1>2 DEF CoreInv, CallOK, FreshPage
<1>5. PICK h : flash' = [flash EXCEPT ![k].header = h]
  BY <1>1 DEF Mark, MarkFails
<1>6. /\ \A p \in Pages : p # k => flash'[p] = flash[p] /\ status'[p] = status[p]
      /\ flash'[k].id = flash[k].id /\ flash'[k].length = flash[k].length
      /\ flash'[k].crc = flash[k].crc /\ flash'[k].data = flash[k].data
  BY <1>0, <1>1, <1>4, <1>5, PartWritten DEF Mark, MarkFails, boots
<1>7. pc'[w] = "clear"
  BY <1>0, <1>2 DEF Mark, MarkFails, GoTo, AfterFail
<1>8. AllOf(k, Blank)'
  BY <1>4, <1>6 DEF AllOf
<1>9. Writes(k, own)
  BY <1>2, <1>4, <1>6, <1>8, EepromAssumption DEF Writes, PageOK, AllOf
<1>10. Held(own)' = Held(own)
  BY <1>6 DEF Held
<1>11. OwnOK(w, own)'
  BY <1>2, <1>3, <1>7, <1>10 DEF OwnOK, Single, Sound
<1>12. CallOK(w)'
  BY <1>7 DEF CallOK
<1>13. SoundCallOK(w)'
  BY <1>1, <1>2, <1>7, <1>10 DEF SoundCallOK, CoreInv, Sound
<1> QED
  BY <1>0, <1>1, <1>2, <1>9, <1>11, <1>12, <1>13, WriterKeeps

LEMMA EraseObjectEndsKeeps ==
  ASSUME BaseInv, CoreInv, BaseInv', spoilt \subseteq spoilt', NEW w \in Writers, EraseObjectEnds(w)
  PROVE  CoreInv'
<1>0. WriterStep(w) /\ w \in Procs /\ pc \in [Procs -> Steps] /\ FlashTypeOK /\ obj \in [Objects -> Entry]
  BY DEF WriterStep, BaseInv, FlashTypeOK, Procs
<1>1. PICK own : own = call[w].id
  OBVIOUS
<1>2. pc[w] = "clear" /\ pc'[w] = "pend" /\ UNCHANGED <<flash, status, call, spoilt>> /\ ~Call(w) /\ ~Check(w)
  BY <1>0 DEF EraseObjectEnds, At, GoTo, locals, Call, Check
<1>3. own \in Objects /\ OwnOK(w, own)
  BY <1>0, <1>1, <1>2, StepAlone, OwnBefore
<1>4. obj'[own] = NoObject /\ \A o \in Objects : o # own => obj'[o] = obj[o]
  BY <1>0, <1>1, <1>3 DEF EraseObjectEnds
<1>5. Writes(NoPage, own)
  BY <1>2, <1>4, EepromAssumption DEF Writes, NoPage, Pages
<1>6. own \in Sound => Held(own)' = {}
  BY <1>1, <1>2 DEF CoreInv, SoundCallOK, Held
<1>7. OwnOK(w, own)'
  BY <1>2, <1>4, <1>6 DEF OwnOK, Single, Sound, EntryOK, NoObject
<1>8. CallOK(w)' /\ SoundCallOK(w)'
  BY <1>1, <1>2, <1>4 DEF CallOK, SoundCallOK, NoObject
<1> QED
  BY <1>0, <1>1, <1>2, <1>5, <1>7, <1>8, WriterKeeps

(* The page is taken into use. *)
LEMMA WriteHeaderKeeps ==
  ASSUME BaseInv, CoreInv, BaseInv', spoilt \subseteq spoilt',
         NEW w \in Writers, WriteHeader(w) \/ HeaderFails(w)
  PROVE  CoreInv'
<1>0. WriterStep(w) /\ w \in Procs /\ pc \in [Procs -> Steps] /\ FlashTypeOK /\ status \in [Pages -> Headers]
  BY DEF WriterStep, BaseInv, FlashTypeOK, Procs
<1>1. PICK own, k : own = call[w].id /\ k = page[w]
  OBVIOUS
<1>2. pc[w] = "header" /\ UNCHANGED <<obj, spoilt>> /\ ~Call(w) /\ ~Check(w) /\ k \in Pages /\ word[w] = 0
  BY <1>1 DEF WriteHeader, HeaderFails, At, locals, Call, Check, BaseInv, CallTyped
<1>3. own \in Objects /\ OwnOK(w, own)
  BY <1>0, <1>1, <1>2, StepAlone, OwnBefore
<1>4. obj[own].base = NoPage /\ flash[k].id \notin Objects
  BY <1>1, <1>2 DEF CoreInv, CallOK
<1>5. PICK h : flash' = [flash EXCEPT ![k].header = h]
  BY <1>1 DEF WriteHeader, HeaderFails
<1>6. /\ \A p \in Pages : p # k => flash'[p] = flash[p]
      /\ flash'[k].id = flash[k].id /\ flash'[k].length = flash[k].length /\ flash'[k].header = h
      /\ flash'[k].crc = flash[k].crc /\ flash'[k].data = flash[k].data
  BY <1>0, <1>2, <1>5, PartWritten
<1>7. \A p \in Pages : p # k => status'[p] = status[p]
  BY <1>0, <1>1 DEF WriteHeader, HeaderFails
<1>8. PageOK(k)'
  BY <1>2, <1>4, <1>6 DEF CoreInv, PagesOK, PageOK, AllOf
<1>9. Writes(k, own)
  BY <1>2, <1>4, <1>6, <1>7, <1>8 DEF Writes
<1>10. Held(own)' = Held(own)
  BY <1>6 DEF Held
<1>11. OwnOK(w, own)'
  BY <1>2, <1>3, <1>4, <1>10 DEF OwnOK, Single, Sound, EntryOK
<1>12. CASE WriteHeader(w)
  <2>1. pc'[w] = "id" /\ UNCHANGED <<call, page>> /\ flash'[k].header = "RECEIVE" /\ status'[k] = "RECEIVE"
    BY <1>0, <1>1, <1>2, <1>12, PartWritten DEF WriteHeader, GoTo, locals
  <2>2. CallOK(w)'
    BY <1>1, <1>2, <1>4, <1>6, <2>1 DEF CallOK
  <2>3. SoundCallOK(w)'
    BY <1>1, <1>2, <2>1 DEF SoundCallOK, CoreInv, Sound
  <2> QED
    BY <1>0, <1>1, <1>2, <1>9, <1>11, <2>1, <2>2, <2>3, WriterKeeps
<1>13. CASE HeaderFails(w)
  <2>1. Return(w, FALSE)
    BY <1>13 DEF HeaderFails
  <2> QED
    BY <1>0, <1>1, <1>2, <1>9, <1>11, <2>1, IdleOK, WriterKeeps
<1> QED
  BY <1>12, <1>13

(* The page is given the object's name. *)
LEMMA WriteIdKeeps ==
  ASSUME BaseInv, CoreInv, BaseInv', spoilt \subseteq spoilt',
         NEW w \in Writers, WriteId(w) \/ IdFails(w)
  PROVE  CoreInv'
<1>0. WriterStep(w) /\ w \in Procs /\ pc \in [Procs -> Steps] /\ FlashTypeOK /\ obj \in [Objects -> Entry]
  BY DEF WriterStep, BaseInv, FlashTypeOK, Procs
<1>1. PICK own, k : own = call[w].id /\ k = page[w]
  OBVIOUS
<1>2. pc[w] = "id" /\ UNCHANGED <<status, spoilt>> /\ ~Call(w) /\ ~Check(w) /\ k \in Pages /\ word[w] = 0
  BY <1>1 DEF WriteId, IdFails, At, locals, Call, Check, BaseInv, CallTyped
<1>3. own \in Objects /\ OwnOK(w, own)
  BY <1>0, <1>1, <1>2, StepAlone, OwnBefore
<1>4. /\ obj[own].base = NoPage /\ flash[k].id \notin Objects
      /\ flash[k].header = "RECEIVE" /\ status[k] = "RECEIVE"
  BY <1>1, <1>2 DEF CoreInv, CallOK
<1>5. flash[k].id = Blank => AllOf(k, Blank)
  BY <1>2, <1>4, EepromAssumption DEF CoreInv, PagesOK, PageOK
<1>6. own \in Sound => Held(own) = {}
  BY <1>2, <1>3, <1>4 DEF OwnOK, EntryOK
<1>7. CASE UNCHANGED <<flash, obj>> /\ Return(w, FALSE)
  <2>1. OwnOK(w, own)'
    BY <1>2, <1>3, <1>7 DEF OwnOK, Single, Sound, EntryOK, Held, Whole
  <2>2. Writes(NoPage, own)
    BY <1>2, <1>7, EepromAssumption DEF Writes, NoPage, Pages
  <2> QED
    BY <1>0, <1>1, <1>2, <1>7, <2>1, <2>2, IdleOK, WriterKeeps
<1>8. CASE /\ flash[k].id = Blank
           /\ flash' = [flash EXCEPT ![k].id = own]
           /\ obj' = [obj EXCEPT ![own] = [length |-> FALSE, base |-> k]]
           /\ GoTo(w, "data") /\ UNCHANGED locals
  <2>1. /\ \A p \in Pages : p # k => flash'[p] = flash[p]
        /\ flash'[k].id = own /\ flash'[k].length = Blank /\ flash'[k].crc = Blank
        /\ flash'[k].header = "RECEIVE"
    BY <1>0, <1>2, <1>4, <1>5, <1>8, PartWritten DEF AllOf
  <2>2. /\ obj'[own].base = k /\ ~obj'[own].length
        /\ \A o \in Objects : o # own => obj'[o] = obj[o]
    BY <1>0, <1>3, <1>8
  <2>3. pc'[w] = "data" /\ UNCHANGED <<call, page, word>>
    BY <1>0, <1>8 DEF GoTo, locals
  <2>4. Writes(k, own)
    BY <1>2, <1>3, <1>4, <2>1, <2>2 DEF Writes, PageOK
  <2>5. own \in Sound => Single(own)'
    BY <1>6, <2>1 DEF Single, Held
  <2>6. OwnOK(w, own)'
    BY <1>2, <2>1, <2>2, <2>5, EepromAssumption DEF OwnOK, Sound, EntryOK, NoPage, Pages
  <2>7. CallOK(w)' /\ SoundCallOK(w)'
    BY <1>1, <1>2, <2>2, <2>3 DEF CallOK, SoundCallOK, Wrote
  <2> QED
    BY <1>0, <1>1, <1>2, <2>3, <2>4, <2>6, <2>7, WriterKeeps
<1>9. CASE IdFails(w)
  <2>1. PICK c \in {Blank, Mixed} : flash' = [flash EXCEPT ![k].id = c]
    BY <1>1, <1>9 DEF IdFails, Failed
  <2>2. flash[k].id = Blank /\ Return(w, FALSE) /\ UNCHANGED obj
    BY <1>1, <1>9 DEF IdFails
  <2>3. /\ \A p \in Pages : p # k => flash'[p] = flash[p]
        /\ flash'[k].id = c /\ flash'[k].length = flash[k].length
        /\ flash'[k].crc = flash[k].crc /\ flash'[k].data = flash[k].data
    BY <1>0, <1>2, <2>1, PartWritten
  <2>4. c \notin Objects
    BY EepromAssumption
  <2>5. PageOK(k)'
    BY <1>5, <2>2, <2>3, <2>4 DEF PageOK, AllOf
  <2>6. Writes(k, own)
    BY <1>2, <1>4, <2>2, <2>3, <2>4, <2>5 DEF Writes
  <2>7. Held(own)' = Held(own)
    BY <1>3, <1>4, <2>3, <2>4 DEF Held
  <2>8. OwnOK(w, own)'
    BY <1>2, <1>3, <1>4, <2>2, <2>7 DEF OwnOK, Single, Sound, EntryOK
  <2> QED
    BY <1>0, <1>1, <1>2, <2>2, <2>6, <2>8, IdleOK, WriterKeeps
<1> QED
  BY <1>1, <1>7, <1>8, <1>9 DEF WriteId

(* From here on the object has a page. *)
LEMMA OwnPage ==
  ASSUME BaseInv, CoreInv, NEW w \in Writers, Alone(w), pc[w] \in {"data", "length", "crc"}
  PROVE  /\ page[w] \in Pages /\ obj[call[w].id].base = page[w] /\ page[w] # NoPage
         /\ flash[page[w]].id = call[w].id
         /\ flash[page[w]].header = "RECEIVE" /\ status[page[w]] = "RECEIVE"
         /\ call[w].id \in Sound => flash[page[w]].crc = Blank
         /\ call[w].id \in Sound /\ pc[w] # "crc" => flash[page[w]].length = Blank
<1>1. call[w].id \in Objects /\ OwnOK(w, call[w].id)
  BY OwnBefore
<1>2. page[w] \in Pages /\ obj[call[w].id].base = page[w]
  BY DEF CoreInv, CallOK
<1>3. page[w] # NoPage
  BY <1>2, EepromAssumption DEF NoPage, Pages
<1>4. flash[page[w]].id = call[w].id
  BY <1>1, <1>2, <1>3 DEF OwnOK
<1>5. flash[page[w]].header = "RECEIVE" /\ status[page[w]] = "RECEIVE"
  BY <1>1, <1>2, <1>4 DEF CoreInv, PagesOK, PageOK
<1>6. call[w].id \in Sound /\ pc[w] # "crc" => flash[page[w]].length = Blank /\ flash[page[w]].crc = Blank
  BY <1>1, <1>2, <1>3 DEF OwnOK, EntryOK, CoreInv, SoundCallOK
<1>7. call[w].id \in Sound /\ pc[w] = "crc" => flash[page[w]].crc = Blank
  BY DEF CoreInv, SoundCallOK
<1> QED
  BY <1>2, <1>3, <1>4, <1>5, <1>6, <1>7

(* One of the half-words is programmed, or is not. *)
LEMMA WriteDataKeeps ==
  ASSUME BaseInv, CoreInv, BaseInv', spoilt \subseteq spoilt',
         NEW w \in Writers, WriteData(w) \/ DataFails(w)
  PROVE  CoreInv'
<1>0. WriterStep(w) /\ w \in Procs /\ pc \in [Procs -> Steps] /\ FlashTypeOK /\ word \in [Writers -> 0 .. Words]
  BY DEF WriterStep, BaseInv, FlashTypeOK, Procs
<1>1. PICK own, k : own = call[w].id /\ k = page[w]
  OBVIOUS
<1>2. pc[w] = "data" /\ UNCHANGED <<status, obj, spoilt>> /\ ~Call(w) /\ ~Check(w) /\ word[w] + 1 \in 1 .. Words
      /\ word[w] \in 0 .. Words
  <2>1. pc[w] = "data" /\ UNCHANGED <<status, obj, spoilt>> /\ ~Call(w) /\ ~Check(w)
    BY DEF WriteData, DataFails, At, Call, Check
  <2>2. word[w] \in 0 .. Words /\ word[w] < Words
    BY <1>0, <2>1 DEF BaseInv, CallTyped
  <2> QED
    BY <2>1, <2>2, EepromAssumption
<1>3. own \in Objects /\ OwnOK(w, own) /\ Alone(w)
  BY <1>0, <1>1, <1>2, StepAlone, OwnBefore
<1>4. /\ k \in Pages /\ obj[own].base = k /\ k # NoPage /\ flash[k].id = own
      /\ flash[k].header = "RECEIVE" /\ status[k] = "RECEIVE"
      /\ own \in Sound => flash[k].crc = Blank /\ flash[k].length = Blank
  BY <1>1, <1>2, <1>3, OwnPage
<1>5a. PICK i \in 1 .. Words : i = word[w] + 1
  BY <1>2
<1>5. PICK c : flash' = [flash EXCEPT ![k].data[i] = c]
  <2>1. \E c : flash' = [flash EXCEPT ![k].data[word[w] + 1] = c]
    BY <1>1, <1>4 DEF WriteData, DataFails
  <2> QED
    BY <1>5a, <2>1, Zenon
<1>6. /\ \A p \in Pages : p # k => flash'[p] = flash[p]
      /\ flash'[k].header = flash[k].header /\ flash'[k].id = flash[k].id
      /\ flash'[k].length = flash[k].length /\ flash'[k].crc = flash[k].crc
      /\ flash'[k].data[i] = c
      /\ \A j \in 1 .. Words : j # i => flash'[k].data[j] = flash[k].data[j]
  BY <1>0, <1>4, <1>5, <1>5a DEF FlashTypeOK, Page
<1>7. Writes(k, own)
  BY <1>2, <1>3, <1>4, <1>6 DEF Writes, PageOK
<1>8. Held(own)' = Held(own)
  BY <1>6 DEF Held
<1>9. own \in Sound => ~obj[own].length
  BY <1>1, <1>2 DEF CoreInv, SoundCallOK
<1>10. OwnOK(w, own)'
  BY <1>2, <1>3, <1>4, <1>6, <1>8, <1>9 DEF OwnOK, Single, Sound, EntryOK
<1>11. CASE Return(w, FALSE)
  BY <1>0, <1>1, <1>2, <1>7, <1>10, <1>11, IdleOK, WriterKeeps
<1>12. CASE WriteData(w) /\ ~Return(w, FALSE)
  <2>1. /\ word' = [word EXCEPT ![w] = word[w] + 1] /\ UNCHANGED <<page, call>>
        /\ GoTo(w, IF word[w] + 1 = Words THEN "length" ELSE "data")
        /\ flash'[k].data[i] = call[w].value
    <3>1. PICK d :
          /\ flash' = [flash EXCEPT ![k].data[i] = d]
          /\ d = call[w].value
          /\ word' = [word EXCEPT ![w] = word[w] + 1]
          /\ GoTo(w, IF word[w] + 1 = Words THEN "length" ELSE "data")
          /\ UNCHANGED <<page, call>>
      BY <1>1, <1>4, <1>5, <1>5a, <1>12 DEF WriteData
    <3> QED
      <4>1. flash'[k].data[i] = call[w].value
        BY <1>0, <1>4, <3>1 DEF FlashTypeOK, Page
      <4> QED
        BY <3>1, <4>1
  <2>2. pc'[w] \in {"length", "data"} /\ word'[w] = word[w] + 1
    BY <1>0, <2>1 DEF GoTo
  <2>3. CallOK(w)'
    BY <1>1, <1>2, <1>4, <2>1, <2>2 DEF CallOK
  <2>4. SoundCallOK(w)'
    <3>1. ASSUME own \in Sound, NEW j \in 1 .. i PROVE flash'[k].data[j] = call[w].value
      <4>1. Wrote(w, word[w])
        BY <1>1, <1>2, <3>1 DEF CoreInv, SoundCallOK
      <4>2. CASE j = i
        BY <2>1, <4>2
      <4>3. CASE j # i
        <5>1. j \in 1 .. word[w] /\ j \in 1 .. Words
          BY <1>2, <1>5, <1>5a, <4>3, EepromAssumption
        <5> QED
          BY <1>1, <1>6, <4>1, <4>3, <5>1 DEF Wrote
      <4> QED
        BY <4>2, <4>3
    <3>2. own \in Sound => Wrote(w, word[w])'
      BY <1>1, <1>5, <1>5a, <2>1, <2>2, <3>1 DEF Wrote
    <3> QED
      BY <1>1, <1>2, <1>9, <2>1, <2>2, <3>2 DEF SoundCallOK, Sound
  <2> QED
    BY <1>0, <1>1, <1>2, <1>7, <1>10, <2>1, <2>3, <2>4, WriterKeeps
<1> QED
  BY <1>11, <1>12 DEF DataFails

LEMMA WriteLengthKeeps ==
  ASSUME BaseInv, CoreInv, BaseInv', spoilt \subseteq spoilt',
         NEW w \in Writers, WriteLength(w) \/ LengthFails(w)
  PROVE  CoreInv'
<1>0. WriterStep(w) /\ w \in Procs /\ pc \in [Procs -> Steps] /\ FlashTypeOK /\ obj \in [Objects -> Entry]
  BY DEF WriterStep, BaseInv, FlashTypeOK, Procs
<1>1. PICK own, k : own = call[w].id /\ k = page[w]
  OBVIOUS
<1>2. pc[w] = "length" /\ UNCHANGED <<status, call, page, word>> /\ ~Call(w) /\ ~Check(w)
  BY DEF WriteLength, LengthFails, At, Call, Check, locals
<1>3. own \in Objects /\ OwnOK(w, own) /\ Alone(w)
  BY <1>0, <1>1, <1>2, StepAlone, OwnBefore
<1>4. /\ k \in Pages /\ obj[own].base = k /\ k # NoPage /\ flash[k].id = own
      /\ flash[k].header = "RECEIVE" /\ status[k] = "RECEIVE"
      /\ own \in Sound => flash[k].crc = Blank /\ flash[k].length = Blank
  BY <1>1, <1>2, <1>3, OwnPage
<1>5. PICK c : flash' = [flash EXCEPT ![k].length = c] /\ (WriteLength(w) => c = IF flash[k].length = Blank THEN "len" ELSE flash[k].length)
  <2>1. CASE WriteLength(w)
    BY <1>0, <1>1, <1>4, <2>1 DEF WriteLength, FlashTypeOK
  <2>2. CASE LengthFails(w) /\ ~WriteLength(w)
    BY <1>1, <2>2 DEF LengthFails
  <2> QED
    BY <2>1, <2>2
<1>6. /\ \A p \in Pages : p # k => flash'[p] = flash[p]
      /\ flash'[k].header = flash[k].header /\ flash'[k].id = flash[k].id
      /\ flash'[k].length = c /\ flash'[k].crc = flash[k].crc /\ flash'[k].data = flash[k].data
  BY <1>0, <1>4, <1>5, PartWritten
<1>7. /\ obj'[own].length /\ obj'[own].base = obj[own].base
      /\ \A o \in Objects : o # own => obj'[o] = obj[o]
  <2>1. obj' = [obj EXCEPT ![own].length = TRUE]
    BY <1>1 DEF WriteLength, LengthFails
  <2> QED
    BY <1>0, <1>3, <2>1 DEF Entry
<1>8. pc'[w] = "crc"
  BY <1>0 DEF WriteLength, LengthFails, GoTo
<1>9. Writes(k, own)
  BY <1>2, <1>3, <1>4, <1>6, <1>7 DEF Writes, PageOK
<1>10. Held(own)' = Held(own)
  BY <1>6 DEF Held
<1>11. Sound' \subseteq Sound
  BY DEF Sound
<1>12. OwnOK(w, own)'
  BY <1>2, <1>3, <1>4, <1>6, <1>7, <1>8, <1>10, <1>11 DEF OwnOK, Single
<1>13. CallOK(w)'
  BY <1>1, <1>2, <1>4, <1>7, <1>8 DEF CallOK
<1>14. SoundCallOK(w)'
  <2>1. CASE WriteLength(w)
    <3>1. own \in Sound => Wrote(w, word[w])
      BY <1>1, <1>2 DEF CoreInv, SoundCallOK
    <3>2. own \in Sound => Wrote(w, word[w])'
      BY <1>1, <1>2, <1>6, <3>1 DEF Wrote
    <3> QED
      BY <1>1, <1>2, <1>4, <1>5, <1>6, <1>7, <1>8, <1>11, <2>1, <3>2 DEF SoundCallOK
  <2>2. CASE LengthFails(w)
    <3>1. own \notin Sound'
      BY <1>1, <2>2 DEF LengthFails, Sound
    <3> QED
      BY <1>1, <1>2, <3>1 DEF SoundCallOK
  <2> QED
    BY <2>1, <2>2
<1> QED
  BY <1>0, <1>1, <1>2, <1>9, <1>12, <1>13, <1>14, WriterKeeps

(* With the CRC the page holds the value. *)
LEMMA CrcMakesWhole ==
  ASSUME BaseInv, CoreInv, NEW w \in Writers, Alone(w), WriteCrc(w), call[w].id \in Sound
  PROVE  /\ \A p \in Pages : p # page[w] => flash'[p] = flash[p]
         /\ flash'[page[w]].header = "RECEIVE" /\ flash'[page[w]].id = call[w].id
         /\ flash'[page[w]].length = "len" /\ flash'[page[w]].crc = call[w].value
         /\ \A i \in 1 .. Words : flash'[page[w]].data[i] = call[w].value
         /\ call[w].value \in Values /\ obj[call[w].id].length
<1>1. pc[w] = "crc" /\ FlashTypeOK /\ call[w].value \in Values /\ word[w] = Words
  BY InCall DEF WriteCrc, At, BaseInv, CallTyped
<1>2. PICK k : k = page[w]
  OBVIOUS
<1>3. k \in Pages /\ flash[k].id = call[w].id /\ flash[k].header = "RECEIVE" /\ flash[k].crc = Blank
  BY <1>1, <1>2, OwnPage
<1>4. obj[call[w].id].length /\ flash[k].length = "len" /\ Wrote(w, Words)
  BY <1>1, <1>2 DEF CoreInv, SoundCallOK
<1>5. flash' = [flash EXCEPT ![k].crc = call[w].value]
  BY <1>1, <1>2, <1>3 DEF WriteCrc, FlashTypeOK
<1>6. /\ \A p \in Pages : p # k => flash'[p] = flash[p]
      /\ flash'[k].crc = call[w].value /\ flash'[k].header = flash[k].header /\ flash'[k].id = flash[k].id
      /\ flash'[k].length = flash[k].length /\ flash'[k].data = flash[k].data
  BY <1>1, <1>3, <1>5, PartWritten
<1> QED
  BY <1>1, <1>2, <1>3, <1>4, <1>6 DEF Wrote

LEMMA WriteCrcKeeps ==
  ASSUME BaseInv, CoreInv, BaseInv', spoilt \subseteq spoilt',
         NEW w \in Writers, WriteCrc(w) \/ CrcFails(w)
  PROVE  CoreInv'
<1>0. WriterStep(w) /\ FlashTypeOK
  BY DEF WriterStep, BaseInv
<1>1. PICK own, k : own = call[w].id /\ k = page[w]
  OBVIOUS
<1>2. pc[w] = "crc" /\ UNCHANGED <<status, obj>> /\ ~Call(w) /\ ~Check(w) /\ Return(w, TRUE)
  BY DEF WriteCrc, CrcFails, At, Call, Check
<1>3. own \in Objects /\ OwnOK(w, own) /\ Alone(w)
  BY <1>0, <1>1, <1>2, StepAlone, OwnBefore
<1>4. /\ k \in Pages /\ obj[own].base = k /\ k # NoPage /\ flash[k].id = own
      /\ flash[k].header = "RECEIVE" /\ status[k] = "RECEIVE"
  BY <1>1, <1>2, <1>3, OwnPage
<1>5. PICK c : flash' = [flash EXCEPT ![k].crc = c]
  BY <1>1 DEF WriteCrc, CrcFails
<1>6. /\ \A p \in Pages : p # k => flash'[p] = flash[p]
      /\ flash'[k].header = flash[k].header /\ flash'[k].id = flash[k].id
  BY <1>0, <1>4, <1>5, PartWritten
<1>7. Writes(k, own)
  BY <1>2, <1>3, <1>4, <1>6 DEF Writes, PageOK
<1>8. Held(own)' = Held(own)
  BY <1>6 DEF Held
<1>9. Sound' \subseteq Sound
  BY DEF Sound
<1>10. own \in Sound' => EntryOK(own)'
  <2>1. CASE WriteCrc(w)
    <3> SUFFICES ASSUME own \in Sound PROVE EntryOK(own)'
      BY <1>9
    <3>1. /\ flash'[k].length = "len" /\ flash'[k].crc = call[w].value
          /\ \A i \in 1 .. Words : flash'[k].data[i] = call[w].value
          /\ call[w].value \in Values /\ obj[own].length
      BY <1>1, <1>3, <2>1, CrcMakesWhole
    <3> QED
      BY <1>2, <1>4, <3>1 DEF EntryOK, Whole
  <2>2. CASE CrcFails(w)
    BY <1>1, <2>2 DEF CrcFails, Sound
  <2> QED
    BY <2>1, <2>2
<1>11. OwnOK(w, own)'
  BY <1>2, <1>3, <1>4, <1>6, <1>8, <1>9, <1>10 DEF OwnOK, Single
<1> QED
  BY <1>0, <1>1, <1>2, <1>7, <1>11, IdleOK, WriterKeeps

LEMMA WriterCore ==
  ASSUME BaseInv, CoreInv, BaseInv', spoilt \subseteq spoilt', spoilt' # Objects,
         NEW w \in Writers, WriterStep(w)
  PROVE  CoreInv'
BY CallKeeps, EraseObjectKeeps, ProtectKeeps, AllocateKeeps, EraseKeeps, MarkKeeps, EraseObjectEndsKeeps,
   WriteHeaderKeeps, WriteIdKeeps, WriteDataKeeps, WriteLengthKeeps, WriteCrcKeeps DEF WriterStep

(* The start-up, and what a state without calls has to show.               *)
TableIs == \A o \in Objects :
  /\ obj[o].length => obj[o].base # NoPage
  /\ obj[o].base # NoPage => flash[obj[o].base].id = o
EntriesIn == \A o \in Sound : EntryOK(o)
QuietOK == PagesOK /\ OnePage /\ TableIs /\ BootOK /\ (Phase = "up" => EntriesIn)

LEMMA Quiet == NoCalls => (CoreInv <=> QuietOK)
<1> SUFFICES ASSUME NoCalls PROVE CoreInv <=> QuietOK
  OBVIOUS
<1>1. \A o : ~Moving(o) /\ ~Leaving(o)
  BY DEF NoCalls, Moving, Leaving
<1>2. OneWriter /\ \A w \in Writers : CallOK(w) /\ SoundCallOK(w)
  BY DEF NoCalls, OneWriter, CallOK, SoundCallOK
<1>3. TableOK <=> TableIs
  BY <1>1 DEF TableOK, TableAt, TableIs
<1>4. TasksOK <=> (Phase = "up" => EntriesIn)
  BY <1>1 DEF TasksOK, EntriesIn
<1> QED
  BY <1>2, <1>3, <1>4 DEF CoreInv, QuietOK

LEMMA BootQuiet ==
  ASSUME BaseInv, BootStep
  PROVE  (CoreInv => QuietOK) /\ (QuietOK' => CoreInv')
<1>1. NoCalls' => (CoreInv' <=> QuietOK')
  BY Quiet, PTL
<1> QED
  BY <1>1, Quiet, BootAlone, BootStays

(* A reset, and the initial state.  *)
LEMMA FreshCore ==
  ASSUME AtReset, StartOK, FlashTypeOK, OnePage,
         \A p \in Pages : PageOK(p)
  PROVE  CoreInv
<1>1. TableIs
  BY EepromAssumption DEF AtReset, NoObject, TableIs
<1>2. BootOK
  BY DEF StartOK, Phase, BootOK, NothingFound, AtReset, NoObject
<1>3. Phase # "up"
  BY DEF StartOK, Phase
<1> QED
  BY <1>1, <1>2, <1>3, Quiet DEF QuietOK, StartOK, PagesOK

LEMMA InitCore == Init => CoreInv
<1> SUFFICES ASSUME Init PROVE CoreInv
  OBVIOUS
<1>1. AtReset /\ StartOK /\ FlashTypeOK
  BY FreshStart, InitTypes DEF Init, AtReset
<1>2. ASSUME NEW p \in Pages PROVE AllOf(p, Blank) /\ flash[p].id \notin Objects
  BY <1>2, UniformIs, EepromAssumption DEF Init, AllOf
<1>3. OnePage
  BY <1>2 DEF OnePage, Single, Held, Sound
<1> QED
  BY <1>1, <1>2, <1>3, FreshCore DEF PageOK

(* A reset takes at most the page that is being erased. *)
LEMMA ResetPages ==
  ASSUME FlashTypeOK, Reset
  PROVE  \A p \in Pages : \/ flash'[p] = flash[p]
                          \/ /\ flash'[p] \in Torn
                             /\ \E t \in Procs : pc[t] = "erase" /\ p = page[t]
<1>1. CASE UNCHANGED flash
  BY <1>1
<1>2. ASSUME NEW t \in Procs, NEW c \in Torn, pc[t] = "erase", flash' = [flash EXCEPT ![page[t]] = c]
      PROVE  \A p \in Pages : flash'[p] = flash[p] \/ (flash'[p] \in Torn /\ p = page[t])
  BY <1>2 DEF FlashTypeOK
<1> QED
  BY <1>1, <1>2 DEF Reset

LEMMA FreshCoreNext == (AtReset /\ StartOK /\ FlashTypeOK /\ OnePage /\ PagesOK)' => CoreInv'
<1>1. AtReset /\ StartOK /\ FlashTypeOK /\ OnePage /\ PagesOK => CoreInv
  BY FreshCore DEF PagesOK
<1> QED
  BY <1>1, PTL

LEMMA ResetCore ==
  ASSUME BaseInv, CoreInv, BaseInv', Reset
  PROVE  CoreInv'
<1>1. AtReset' /\ StartOK'
  <2>1. AtReset' => StartOK'
    BY FreshStart, PTL
  <2> QED
    BY <2>1, ResetStarts
<1>2. PagesOK' /\ \A p \in Pages : flash'[p].id \in Objects => flash'[p].id = flash[p].id
  <2>1. ASSUME NEW p \in Pages PROVE PageOK(p)'
    <3>1. status'[p] = "RECEIVE"
      BY DEF Reset, NoStatus
    <3>2. flash'[p] = flash[p] \/ flash'[p] \in Torn
      BY ResetPages DEF BaseInv
    <3>3. CASE flash'[p] = flash[p]
      BY <3>1, <3>3 DEF CoreInv, PagesOK, PageOK, AllOf
    <3>4. CASE flash'[p] \in Torn
      BY <3>4, TornIs, UniformIs DEF PageOK, AllOf
    <3> QED
      BY <3>2, <3>3, <3>4
  <2>2. ASSUME NEW p \in Pages, flash'[p].id \in Objects PROVE flash'[p].id = flash[p].id
    BY <2>2, ResetPages, TornIs DEF BaseInv
  <2> QED
    BY <2>1, <2>2 DEF PagesOK
<1>3. spoilt' = spoilt
  BY DEF Reset
<1>4. OnePage'
  BY <1>2, <1>3 DEF CoreInv, OnePage, Single, Held, Sound
<1> QED
  BY <1>1, <1>2, <1>4, FreshCoreNext DEF BaseInv

LEMMA IfInitKeeps ==
  ASSUME BaseInv, QuietOK, IfInit
  PROVE  QuietOK'
<1>0. /\ "boot" \in Procs /\ pc \in [Procs -> Steps] /\ ret \in [Procs -> Backs] /\ page \in [Procs -> Nat]
      /\ page["boot"] \in Nat /\ page["boot"] >= 1 /\ status \in [Pages -> Headers]
  BY BootAlone DEF BootStep, BaseInv, FlashTypeOK, Procs
<1>1. pc["boot"] = "headers" /\ Phase = "headers" /\ NothingFound /\ UNCHANGED <<flash, obj, found, spoilt>>
  BY DEF IfInit, Phase, QuietOK, BootOK
<1>2. PagesOK'
  <2>1. ASSUME NEW p \in Pages, flash[p].header = "RECEIVE", status[p] = "RECEIVE" PROVE status'[p] = "RECEIVE"
    BY <1>0, <2>1 DEF IfInit
  <2> QED
    BY <1>1, <2>1 DEF QuietOK, PagesOK, PageOK, AllOf
<1>3. OnePage' /\ TableIs' /\ NothingFound'
  BY <1>1 DEF QuietOK, OnePage, Single, Held, Sound, TableIs, NothingFound
<1>4. \/ pc'["boot"] = "scan" /\ page'["boot"] = 1
      \/ pc'["boot"] = "headers"
      \/ /\ pc'["boot"] = "erase" /\ ret'["boot"] = "headers"
         /\ page'["boot"] \in Pages /\ flash[page'["boot"]].header = "JUNK"
  BY <1>0, EepromAssumption DEF IfInit, GoTo, Format, Pages
<1>5. BootOK'
  <2>1. CASE pc'["boot"] = "scan" /\ page'["boot"] = 1
    <3>1. Phase' = "scan"
      BY <2>1 DEF Phase
    <3>2. \A p \in Pages : ~(p < 1)
      BY DEF Pages
    <3>3. ScannedTo(page["boot"])'
      BY <1>1, <1>3, <2>1, <3>2 DEF ScannedTo, NothingFound, Sound
    <3> QED
      BY <2>1, <3>1, <3>3 DEF BootOK
  <2>2. CASE pc'["boot"] = "headers"
    BY <1>3, <2>2 DEF BootOK, Phase
  <2>3. CASE /\ pc'["boot"] = "erase" /\ ret'["boot"] = "headers"
             /\ page'["boot"] \in Pages /\ flash[page'["boot"]].header = "JUNK"
    <3>1. flash'[page'["boot"]].id \notin Objects
      BY <1>1, <2>3 DEF QuietOK, PagesOK, PageOK
    <3> QED
      BY <1>3, <2>3, <3>1 DEF BootOK, Phase, Sound
  <2> QED
    BY <1>4, <2>1, <2>2, <2>3
<1>6. Phase' # "up"
  BY <1>4 DEF Phase
<1> QED
  BY <1>2, <1>3, <1>5, <1>6 DEF QuietOK

(* The pages a scan has not accepted are no part of what it has found. *)
LEMMA ScanKeeps ==
  ASSUME BaseInv, QuietOK, LowlLevelIfInit
  PROVE  QuietOK'
<1>0. /\ "boot" \in Procs /\ pc \in [Procs -> Steps] /\ ret \in [Procs -> Backs] /\ page \in [Procs -> Nat]
      /\ page["boot"] \in Nat /\ page["boot"] >= 1 /\ obj \in [Objects -> Entry]
  BY BootAlone DEF BootStep, BaseInv, FlashTypeOK, Procs
<1>1. pc["boot"] = "scan" /\ Phase = "scan" /\ ScannedTo(page["boot"]) /\ UNCHANGED <<flash, status, spoilt>>
  BY DEF LowlLevelIfInit, Phase, QuietOK, BootOK
<1>2. PagesOK' /\ OnePage'
  BY <1>1 DEF QuietOK, PagesOK, PageOK, AllOf, OnePage, Single, Held, Sound
<1>3. PICK n : n = page["boot"]
  OBVIOUS
<1>4. CASE n > NPages
  <2>1. UNCHANGED obj /\ found' = FALSE
    BY <1>3, <1>4 DEF LowlLevelIfInit
  <2>2. TableIs'
    BY <1>1, <2>1 DEF QuietOK, TableIs
  <2>3. \A p \in Pages : p < n
    BY <1>0, <1>3, <1>4, EepromAssumption DEF Pages
  <2>4. CASE found
    <3>1. pc'["boot"] = "up"
      BY <1>0, <1>3, <1>4, <2>4 DEF LowlLevelIfInit, StartUpEnds, GoTo
    <3>2. EntriesIn'
      <4> SUFFICES ASSUME NEW o \in Sound PROVE EntryOK(o)
        BY <1>1, <2>1 DEF EntriesIn, Sound, EntryOK, Held, Whole
      <4>1. CASE obj[o].base = NoPage
        <5>1. ASSUME NEW p \in Held(o) PROVE FALSE
          <6>1. p \in Pages /\ p < n /\ flash[p].id = o
            BY <2>3 DEF Held
          <6>2. obj[o].base = p
            BY <1>1, <1>3, <6>1 DEF ScannedTo
          <6> QED
            BY <4>1, <6>1, <6>2 DEF Pages, NoPage
        <5> QED
          BY <4>1, <5>1 DEF EntryOK
      <4>2. CASE obj[o].base # NoPage
        BY <1>1, <4>2 DEF EntryOK, ScannedTo
      <4> QED
        BY <4>1, <4>2
    <3>3. BootOK'
      BY <3>1 DEF BootOK, Phase
    <3> QED
      BY <1>2, <2>2, <3>2, <3>3 DEF QuietOK
  <2>5. CASE ~found
    <3>1. pc'["boot"] = "formatAll"
      BY <1>0, <1>3, <1>4, <2>5 DEF LowlLevelIfInit, GoTo
    <3>2. \A o \in Objects : obj[o].base = NoPage
      BY <1>1, <2>5 DEF ScannedTo
    <3>3. ASSUME NEW p \in Pages, flash[p].id \in Sound PROVE FALSE
      <4>1. obj[flash[p].id].base = p /\ flash[p].id \in Objects
        BY <1>1, <1>3, <2>3, <3>3 DEF ScannedTo, Sound
      <4> QED
        BY <3>2, <4>1 DEF Pages, NoPage
    <3>4. BootOK' /\ Phase' # "up"
      BY <1>1, <2>1, <3>1, <3>2, <3>3 DEF BootOK, Phase, NothingFound, Sound
    <3> QED
      BY <1>2, <2>2, <3>4 DEF QuietOK
  <2> QED
    BY <2>4, <2>5
<1>5. CASE ~(n > NPages)
  <2>1. n \in Pages /\ n \in Nat
    BY <1>0, <1>3, <1>5, EepromAssumption DEF Pages
  <2>2. CASE status[n] # "RECEIVE"
    <3>1. pc'["boot"] = "scan" /\ page'["boot"] = n + 1 /\ UNCHANGED <<obj, found>>
      BY <1>0, <1>1, <1>3, <1>5, <2>2 DEF LowlLevelIfInit
    <3>2. TableIs'
      BY <1>1, <3>1 DEF QuietOK, TableIs
    <3>3. flash[n].id \notin Objects
      BY <2>1, <2>2 DEF QuietOK, PagesOK, PageOK
    <3>4. \A p \in Pages : p < n + 1 => p < n \/ p = n
      BY <2>1 DEF Pages
    <3>5. \A o \in Objects : obj[o].base < n => obj[o].base < n + 1
      BY <1>0, <2>1, EepromAssumption DEF Entry
    <3>6. ScannedTo(page["boot"])'
      <4>1. \A o \in Objects : obj[o].base # NoPage => found /\ obj[o].base < n + 1
        BY <1>1, <1>3, <3>5 DEF ScannedTo
      <4>2. \A o \in Sound : obj[o].base # NoPage => obj[o].length /\ Whole(obj[o].base)
        BY <1>1 DEF ScannedTo
      <4>3. \A p \in Pages : p < n + 1 /\ flash[p].id \in Sound => obj[flash[p].id].base = p
        BY <1>1, <1>3, <3>3, <3>4 DEF ScannedTo, Sound
      <4> QED
        BY <1>1, <3>1, <4>1, <4>2, <4>3 DEF ScannedTo, Sound, Whole
    <3>7. BootOK' /\ Phase' # "up"
      BY <3>1, <3>6 DEF BootOK, Phase
    <3> QED
      BY <1>2, <3>2, <3>7 DEF QuietOK
  <2>3. CASE status[n] = "RECEIVE" /\ Accepted(n)
    <3>1. PICK o \in Objects : o = flash[n].id
      BY <2>3 DEF Accepted
    <3>2. /\ pc'["boot"] = "scan" /\ page'["boot"] = n + 1 /\ found' = TRUE
          /\ obj' = [obj EXCEPT ![o] = [length |-> TRUE, base |-> n]]
      BY <1>0, <1>1, <1>3, <1>5, <2>3, <3>1 DEF LowlLevelIfInit
    <3>3. /\ obj'[o].length /\ obj'[o].base = n
          /\ \A x \in Objects : x # o => obj'[x] = obj[x]
      BY <1>0, <3>2
    <3>4. n # NoPage
      BY <2>1 DEF Pages, NoPage
    <3>5. TableIs'
      BY <1>1, <3>1, <3>3, <3>4 DEF QuietOK, TableIs
    <3>6. ScannedTo(page["boot"])'
      <4>1. ASSUME NEW x \in Objects, obj'[x].base # NoPage PROVE found' /\ obj'[x].base < n + 1
        <5>1. CASE x = o
          BY <2>1, <3>2, <3>3, <5>1
        <5>2. CASE x # o
          <6>1. obj[x].base < n /\ obj[x].base \in Nat
            BY <1>0, <1>1, <1>3, <3>3, <4>1, <5>2, EepromAssumption DEF ScannedTo, Entry
          <6> QED
            BY <2>1, <3>2, <3>3, <5>2, <6>1
        <5> QED
          BY <5>1, <5>2
      <4>2. ASSUME NEW x \in Sound, obj'[x].base # NoPage PROVE obj'[x].length /\ Whole(obj'[x].base)
        <5>1. CASE x = o
          BY <2>3, <3>3, <5>1 DEF Accepted
        <5>2. CASE x # o
          BY <1>1, <3>3, <4>2, <5>2 DEF ScannedTo, Sound
        <5> QED
          BY <5>1, <5>2
      <4>3. ASSUME NEW p \in Pages, p < n + 1, flash[p].id \in Sound PROVE obj'[flash[p].id].base = p
        <5>1. p = n \/ p < n
          BY <2>1, <4>3 DEF Pages
        <5>2. CASE p = n
          BY <3>1, <3>3, <5>2
        <5>3. CASE p < n
          <6>1. flash[p].id # o
            BY <2>1, <3>1, <4>3, <5>3 DEF QuietOK, OnePage, Single, Held
          <6>2. obj[flash[p].id].base = p
            BY <1>1, <1>3, <4>3, <5>3 DEF ScannedTo
          <6> QED
            BY <3>3, <4>3, <6>1, <6>2 DEF Sound
        <5> QED
          BY <5>1, <5>2, <5>3
      <4> QED
        BY <1>1, <3>2, <4>1, <4>2, <4>3 DEF ScannedTo, Sound, Whole
    <3>7. BootOK' /\ Phase' # "up"
      BY <3>2, <3>6 DEF BootOK, Phase
    <3> QED
      BY <1>2, <3>5, <3>7 DEF QuietOK
  <2>4. CASE status[n] = "RECEIVE" /\ ~Accepted(n)
    <3>1. /\ pc'["boot"] = "erase" /\ ret'["boot"] = "scan" /\ page'["boot"] = n /\ UNCHANGED found
          /\ obj' = IF flash[n].id \in Objects THEN [obj EXCEPT ![flash[n].id] = NoObject] ELSE obj
      BY <1>0, <1>1, <1>3, <1>5, <2>4 DEF LowlLevelIfInit, Format, GoTo
    <3>2. \A x \in Objects : obj'[x] = IF x = flash[n].id THEN NoObject ELSE obj[x]
      BY <1>0, <3>1
    <3>3. TableIs'
      BY <1>1, <3>2 DEF QuietOK, TableIs, NoObject
    <3>4. ScannedTo(n)'
      <4>1. \A o \in Objects : obj'[o].base # NoPage => found' /\ obj'[o].base < n
        BY <1>1, <1>3, <3>1, <3>2 DEF ScannedTo, NoObject
      <4>2. \A o \in Sound : obj'[o].base # NoPage => obj'[o].length /\ Whole(obj'[o].base)
        BY <1>1, <3>2 DEF ScannedTo, NoObject, Sound
      <4>3. ASSUME NEW p \in Pages, p < n, flash[p].id \in Sound PROVE obj'[flash[p].id].base = p
        <5>1. p # n
          BY <2>1, <4>3
        <5>2. flash[p].id # flash[n].id
          BY <2>1, <4>3, <5>1 DEF QuietOK, OnePage, Single, Held
        <5>3. obj[flash[p].id].base = p
          BY <1>1, <1>3, <4>3 DEF ScannedTo
        <5> QED
          BY <3>2, <4>3, <5>2, <5>3 DEF Sound
      <4> QED
        BY <1>1, <4>1, <4>2, <4>3 DEF ScannedTo, Sound, Whole
    <3>5. ~(flash'[n].id \in Sound' /\ Whole(n)')
      BY <1>1, <2>4 DEF Accepted, Sound, Whole
    <3>6. BootOK' /\ Phase' # "up"
      BY <2>1, <3>1, <3>4, <3>5 DEF BootOK, Phase
    <3> QED
      BY <1>2, <3>3, <3>6 DEF QuietOK
  <2> QED
    BY <2>2, <2>3, <2>4
<1> QED
  BY <1>4, <1>5

LEMMA FormatAllKeeps ==
  ASSUME BaseInv, QuietOK, FormatAllPages
  PROVE  QuietOK'
<1>0. /\ "boot" \in Procs /\ pc \in [Procs -> Steps] /\ ret \in [Procs -> Backs] /\ page \in [Procs -> Nat]
      /\ page["boot"] \in Nat /\ page["boot"] >= 1
  BY BootAlone DEF BootStep, BaseInv, FlashTypeOK, Procs
<1>1. /\ pc["boot"] = "formatAll" /\ Phase = "formatAll" /\ UNCHANGED <<flash, status, obj, found, spoilt>>
      /\ NothingFound /\ \A p \in Pages : flash[p].id \notin Sound
  BY DEF FormatAllPages, Phase, QuietOK, BootOK, boots
<1>2. PagesOK' /\ OnePage' /\ TableIs'
  BY <1>1 DEF QuietOK, PagesOK, PageOK, AllOf, OnePage, Single, Held, Sound, TableIs
<1>3. CASE page["boot"] > NPages
  <2>1. pc'["boot"] = "up"
    BY <1>0, <1>3 DEF FormatAllPages, StartUpEnds, GoTo
  <2>2. BootOK' /\ EntriesIn'
    BY <1>1, <2>1 DEF BootOK, Phase, EntriesIn, EntryOK, Held, Sound, NothingFound
  <2> QED
    BY <1>2, <2>2 DEF QuietOK
<1>4. CASE ~(page["boot"] > NPages)
  <2>1. pc'["boot"] = "erase" /\ ret'["boot"] = "formatAll" /\ page'["boot"] = page["boot"]
    BY <1>0, <1>4 DEF FormatAllPages, Format, GoTo
  <2>2. page["boot"] \in Pages
    BY <1>0, <1>4, EepromAssumption DEF Pages
  <2>3. BootOK' /\ Phase' # "up"
    BY <1>1, <2>1, <2>2 DEF BootOK, Phase, NothingFound, Sound
  <2> QED
    BY <1>2, <2>3 DEF QuietOK
<1> QED
  BY <1>3, <1>4

(* A page that is being formatted is none of those it has found. *)
LEMMA BootElsewhere ==
  ASSUME BaseInv, QuietOK, Phase \in {"headers", "scan", "formatAll"}, UNCHANGED <<obj, found>>,
         spoilt \subseteq spoilt', NEW k \in Pages, k = page["boot"],
         \A p \in Pages : p # k => flash'[p] = flash[p] /\ status'[p] = status[p],
         flash'[k].id \notin Sound', PageOK(k)'
  PROVE  /\ PagesOK' /\ OnePage' /\ TableIs'
         /\ Phase = "scan" => \A m \in {k, k + 1} : ScannedTo(m)'
         /\ Phase # "scan" => NothingFound'
         /\ Phase = "formatAll" => \A p \in Pages : flash'[p].id \notin Sound'
<1>1. Sound' \subseteq Sound
  BY DEF Sound
<1>2. PagesOK'
  BY DEF QuietOK, PagesOK, PageOK, AllOf
<1>3. \A o \in Sound' : \A p \in Held(o)' : p \in Held(o)
  BY DEF Held
<1>4. OnePage'
  BY <1>1, <1>3 DEF QuietOK, OnePage, Single
<1>5. ASSUME NEW o \in Objects, obj[o].base # NoPage
      PROVE  Phase = "scan" /\ obj[o].base < k /\ obj[o].base \in Nat /\ obj[o].base \in Pages
             /\ flash'[obj[o].base] = flash[obj[o].base]
  <2>1. Phase = "scan" /\ obj[o].base < k
    BY <1>5 DEF QuietOK, BootOK, NothingFound, ScannedTo
  <2>2. obj[o].base \in Pages /\ obj[o].base \in Nat
    BY <1>5, EepromAssumption DEF BaseInv, FlashTypeOK, Entry, NoPage, Pages
  <2>3. obj[o].base # k
    BY <2>1, <2>2 DEF Pages
  <2> QED
    BY <2>1, <2>2, <2>3
<1>6. TableIs'
  BY <1>5 DEF QuietOK, TableIs
<1>7. Phase # "scan" => NothingFound'
  BY DEF QuietOK, BootOK, NothingFound
<1>8. Phase = "formatAll" => \A p \in Pages : flash'[p].id \notin Sound'
  BY <1>1 DEF QuietOK, BootOK
<1>9. ASSUME Phase = "scan", NEW m \in {k, k + 1} PROVE ScannedTo(m)'
  <2>0. ScannedTo(k) /\ k \in Nat
    BY <1>9, EepromAssumption DEF QuietOK, BootOK, Pages
  <2>1. \A o \in Objects : obj[o].base # NoPage => found /\ obj[o].base < m
    BY <1>5, <2>0 DEF ScannedTo
  <2>2. \A o \in Sound' : obj[o].base # NoPage => obj[o].length /\ Whole(obj[o].base)'
    BY <1>1, <1>5, <2>0 DEF ScannedTo, Sound, Whole
  <2>3. ASSUME NEW p \in Pages, p < m, flash'[p].id \in Sound' PROVE obj[flash'[p].id].base = p
    <3>1. p # k
      BY <2>3
    <3>2. p < k
      BY <2>0, <2>3, <3>1 DEF Pages
    <3>3. flash'[p] = flash[p]
      BY <3>1
    <3> QED
      BY <1>1, <2>0, <2>3, <3>2, <3>3 DEF ScannedTo
  <2> QED
    BY <2>1, <2>2, <2>3 DEF ScannedTo, Whole
<1> QED
  BY <1>2, <1>4, <1>6, <1>7, <1>8, <1>9

LEMMA BootEraseKeeps ==
  ASSUME BaseInv, QuietOK, Erase("boot") \/ EraseFails("boot"), spoilt \subseteq spoilt', spoilt' # Objects
  PROVE  QuietOK'
<1>0. /\ "boot" \in Procs /\ pc \in [Procs -> Steps] /\ ret \in [Procs -> Backs] /\ page \in [Procs -> Nat]
      /\ Phase \in {"headers", "scan", "formatAll"} /\ flash \in [Pages -> Page] /\ status \in [Pages -> Headers]
  BY BootAlone DEF BootStep, BaseInv, FlashTypeOK, Procs
<1>1. pc["boot"] = "erase" /\ Phase = ret["boot"] /\ UNCHANGED <<obj, found, ret>>
  BY DEF Erase, EraseFails, At, Phase, locals, boots
<1>2. PICK k : k = page["boot"]
  OBVIOUS
<1>3. k \in Pages
  BY <1>1, <1>2 DEF QuietOK, BootOK
<1>4. PICK c : flash' = [flash EXCEPT ![k] = c] /\ c \in Torn \cup {flash[k]}
  BY <1>2 DEF Erase, EraseFails, Torn
<1>5. (\A p \in Pages : p # k => flash'[p] = flash[p]) /\ flash'[k] = c
  BY <1>0, <1>3, <1>4
<1>6. \A p \in Pages : p # k => status'[p] = status[p]
  BY <1>0, <1>2 DEF Erase, EraseFails, boots
<1>7. CASE Erase("boot")
  <2>1. c = Uniform("ERASED", Blank) /\ pc'["boot"] = "mark" /\ page'["boot"] = k
    BY <1>0, <1>2, <1>3, <1>5, <1>7 DEF Erase, GoTo, locals
  <2>2. AllOf(k, Blank)' /\ flash'[k].id = Blank /\ Blank \notin Objects
    BY <1>5, <2>1, UniformIs, EepromAssumption DEF AllOf
  <2>3. PageOK(k)' /\ flash'[k].id \notin Sound'
    BY <2>2 DEF PageOK, Sound
  <2>4. Phase' = Phase
    BY <1>1, <2>1 DEF Phase
  <2>5. /\ PagesOK' /\ OnePage' /\ TableIs'
        /\ Phase = "scan" => ScannedTo(k)'
        /\ Phase # "scan" => NothingFound'
        /\ Phase = "formatAll" => \A p \in Pages : flash'[p].id \notin Sound'
    BY <1>0, <1>1, <1>2, <1>3, <1>5, <1>6, <2>3, BootElsewhere
  <2>6. FreshPage("boot")'
    BY <1>3, <2>1, <2>2 DEF FreshPage
  <2>7. BootOK'
    BY <2>1, <2>4, <2>5, <2>6 DEF BootOK
  <2> QED
    BY <1>0, <2>4, <2>5, <2>7 DEF QuietOK
<1>8. CASE EraseFails("boot")
  <2>1. /\ pc'["boot"] = AfterFail("boot") /\ page'["boot"] = PageAfter("boot")
        /\ spoilt' = spoilt \cup SpoiltBy("boot") /\ UNCHANGED status
    BY <1>0, <1>8 DEF EraseFails, GoTo, boots
  <2>2. Phase # "headers"
    BY <1>1, <2>1 DEF SpoiltBy, BaseInv, FlashTypeOK
  <2>3. page'["boot"] = k + 1
    BY <1>0, <1>1, <1>2, <2>1 DEF PageAfter
  <2>4. flash[k].id \notin Sound'
    BY <1>0, <1>1, <1>2, <1>3, <2>1, <2>2 DEF SpoiltBy, Sound, QuietOK, BootOK
  <2>5. flash'[k].id \notin Sound'
    BY <1>4, <1>5, <2>4, TornIs DEF Sound
  <2>6. PageOK(k)'
    <3>1. CASE c = flash[k]
      BY <1>3, <1>5, <2>1, <3>1 DEF QuietOK, PagesOK, PageOK, AllOf
    <3>2. CASE c \in Torn
      BY <1>5, <3>2, TornIs, UniformIs DEF PageOK, AllOf
    <3> QED
      BY <1>4, <3>1, <3>2
  <2>7. /\ PagesOK' /\ OnePage' /\ TableIs'
        /\ Phase = "scan" => ScannedTo(k + 1)'
        /\ Phase # "scan" => NothingFound'
        /\ Phase = "formatAll" => \A p \in Pages : flash'[p].id \notin Sound'
    BY <1>0, <1>1, <1>2, <1>3, <1>5, <1>6, <2>5, <2>6, BootElsewhere
  <2>8. CASE Phase = "scan"
    <3>1. pc'["boot"] = "scan"
      BY <1>1, <2>1, <2>8 DEF AfterFail
    <3>2. ScannedTo(page["boot"])'
      BY <2>3, <2>7, <2>8 DEF ScannedTo
    <3> QED
      BY <2>7, <3>1, <3>2 DEF QuietOK, BootOK, Phase
  <2>9. CASE Phase = "formatAll"
    <3>1. pc'["boot"] = "up"
      BY <1>1, <2>1, <2>9 DEF AfterFail
    <3>2. EntriesIn'
      BY <2>7, <2>9 DEF EntriesIn, EntryOK, Held, NothingFound, Sound
    <3> QED
      BY <2>7, <3>1, <3>2 DEF QuietOK, BootOK, Phase
  <2> QED
    BY <1>0, <2>2, <2>8, <2>9
<1> QED
  BY <1>7, <1>8

LEMMA BootMarkKeeps ==
  ASSUME BaseInv, QuietOK, Mark("boot") \/ MarkFails("boot"), spoilt \subseteq spoilt', spoilt' # Objects
  PROVE  QuietOK'
<1>0. /\ "boot" \in Procs /\ pc \in [Procs -> Steps] /\ ret \in [Procs -> Backs] /\ page \in [Procs -> Nat]
      /\ Phase \in {"headers", "scan", "formatAll"} /\ FlashTypeOK /\ status \in [Pages -> Headers]
  BY BootAlone DEF BootStep, BaseInv, FlashTypeOK, Procs
<1>1. pc["boot"] = "mark" /\ Phase = ret["boot"] /\ UNCHANGED <<obj, found, ret>>
  BY DEF Mark, MarkFails, At, Phase, locals, boots
<1>2. PICK k : k = page["boot"]
  OBVIOUS
<1>3. k \in Pages /\ AllOf(k, Blank)
  BY <1>1, <1>2 DEF QuietOK, BootOK, FreshPage
<1>4. PICK h : flash' = [flash EXCEPT ![k].header = h]
  BY <1>2 DEF Mark, MarkFails
<1>5. /\ \A p \in Pages : p # k => flash'[p] = flash[p]
      /\ flash'[k].id = flash[k].id /\ flash'[k].length = flash[k].length
      /\ flash'[k].crc = flash[k].crc /\ flash'[k].data = flash[k].data
  BY <1>0, <1>3, <1>4, PartWritten
<1>6. \A p \in Pages : p # k => status'[p] = status[p]
  BY <1>0, <1>2 DEF Mark, MarkFails, boots
<1>7. PageOK(k)' /\ flash'[k].id \notin Sound'
  BY <1>3, <1>5, EepromAssumption DEF PageOK, AllOf, Sound
<1>8. page'["boot"] = k + 1 /\ pc'["boot"] \in {ret["boot"], AfterFail("boot")}
  BY <1>0, <1>1, <1>2 DEF Mark, MarkFails, GoTo, PageAfter
<1>9. Phase = "headers" => pc'["boot"] = "headers"
  BY <1>0, <1>1 DEF Mark, MarkFails, GoTo
<1>10. /\ PagesOK' /\ OnePage' /\ TableIs'
       /\ Phase = "scan" => ScannedTo(k + 1)'
       /\ Phase # "scan" => NothingFound'
       /\ Phase = "formatAll" => \A p \in Pages : flash'[p].id \notin Sound'
  BY <1>0, <1>1, <1>2, <1>3, <1>5, <1>6, <1>7, BootElsewhere
<1>11. CASE Phase = "headers"
  BY <1>9, <1>10, <1>11 DEF QuietOK, BootOK, Phase
<1>12. CASE Phase = "scan"
  <2>1. pc'["boot"] = "scan"
    BY <1>1, <1>8, <1>12 DEF AfterFail
  <2>2. ScannedTo(page["boot"])'
    BY <1>8, <1>10, <1>12 DEF ScannedTo
  <2> QED
    BY <1>10, <2>1, <2>2 DEF QuietOK, BootOK, Phase
<1>13. CASE Phase = "formatAll"
  <2>1. pc'["boot"] \in {"formatAll", "up"}
    BY <1>1, <1>8, <1>13 DEF AfterFail
  <2>2. EntriesIn'
    BY <1>10, <1>13 DEF EntriesIn, EntryOK, Held, NothingFound, Sound
  <2> QED
    BY <1>10, <1>13, <2>1, <2>2 DEF QuietOK, BootOK, Phase
<1> QED
  BY <1>0, <1>11, <1>12, <1>13

(* What holds of the storage in every state. *)
LEMMA FlashStutters ==
  ASSUME CoreInv, UNCHANGED vars
  PROVE  CoreInv'
<1>1. UNCHANGED <<flash, status, obj, found, pc, ret, page, call, word, spoilt>>
  BY DEF vars, boots, locals
<1>2. PagesOK' /\ OnePage' /\ OneWriter'
  BY <1>1 DEF CoreInv, PagesOK, PageOK, AllOf, OnePage, Single, Held, Sound, OneWriter
<1>3. TableOK' /\ TasksOK'
  BY <1>1 DEF CoreInv, TableOK, TableAt, Leaving, TasksOK, Moving, EntryOK, Held, Sound, Whole, Phase
<1>4. BootOK'
  BY <1>1 DEF CoreInv, BootOK, NothingFound, ScannedTo, Phase, FreshPage, AllOf, Sound, Whole
<1>5. \A w \in Writers : CallOK(w)' /\ SoundCallOK(w)'
  BY <1>1 DEF CoreInv, CallOK, SoundCallOK, FreshPage, AllOf, Held, Wrote, Sound
<1> QED
  BY <1>2, <1>3, <1>4, <1>5 DEF CoreInv

LEMMA FlashInvNext == FlashInv /\ [Next]_vars => FlashInv'
<1> SUFFICES ASSUME FlashInv, [Next]_vars PROVE FlashInv'
  OBVIOUS
<1>1. BaseInv /\ BaseInv'
  BY BaseNext DEF FlashInv
<1>2. spoilt \subseteq spoilt' /\ spoilt' \subseteq Objects
  BY <1>1, SpoiltGrows DEF BaseInv, FlashTypeOK
<1>3. ASSUME spoilt' # Objects PROVE CoreInv'
  <2>1. CoreInv
    BY <1>2, <1>3 DEF FlashInv
  <2>2. CASE BootStep
    <3>1. QuietOK
      BY <1>1, <2>1, <2>2, BootQuiet
    <3>2. QuietOK'
      BY <1>1, <1>2, <1>3, <2>2, <3>1, IfInitKeeps, ScanKeeps, FormatAllKeeps, BootEraseKeeps, BootMarkKeeps
         DEF BootStep
    <3> QED
      BY <1>1, <2>2, <3>2, BootQuiet
  <2>3. CASE Reset
    BY <1>1, <2>1, <2>3, ResetCore
  <2>4. ASSUME NEW w \in Writers, WriterStep(w) PROVE CoreInv'
    BY <1>1, <1>2, <1>3, <2>1, <2>4, WriterCore
  <2>5. CASE UNCHANGED vars
    BY <2>1, <2>5, FlashStutters
  <2> QED
    BY <2>2, <2>3, <2>4, <2>5, FlashActions
<1> QED
  BY <1>1, <1>3 DEF FlashInv

LEMMA FlashInvHolds == Spec => []FlashInv
<1>1. Init => FlashInv
  BY FreshBase, InitCore DEF FlashInv
<1> QED
  BY <1>1, FlashInvNext, PTL DEF Spec

(* A restart finds what the table says: every object that has a length and *)
(* that no one is writing, where it says that it is.                       *)
THEOREM RestartSeesTheSame == Spec => []RestartFindsTheSame
<1>1. FlashInv => RestartFindsTheSame
  <2> SUFFICES ASSUME FlashInv, NEW o \in Objects \ spoilt
               PROVE  /\ \A p, q \in Pages :
                           {p, q} \subseteq {r \in Pages : flash[r].header = "RECEIVE" /\ flash[r].id = o} => p = q
                      /\ pc["boot"] = "up" /\ (\A w \in Writers : call[w] # Absent => call[w].id # o) =>
                           PagesOf(o) = IF obj[o].length THEN {obj[o].base} ELSE {}
    BY DEF RestartFindsTheSame
  <2>1. CoreInv /\ BaseInv /\ o \in Sound
    BY DEF FlashInv, Sound
  <2>2. \A p, q \in Held(o) : p = q
    BY <2>1 DEF CoreInv, OnePage, Single
  <2>3. ASSUME pc["boot"] = "up", \A w \in Writers : call[w] # Absent => call[w].id # o
        PROVE  PagesOf(o) = IF obj[o].length THEN {obj[o].base} ELSE {}
    <3>1. ~Moving(o) /\ ~Leaving(o)
      BY <2>1, <2>3 DEF Moving, Leaving, BaseInv, CallTyped
    <3>2. EntryOK(o) /\ TableAt(o)
      BY <2>1, <2>3, <3>1 DEF CoreInv, TasksOK, Phase, TableOK
    <3>3. PagesOf(o) = {p \in Held(o) : Whole(p)}
      BY <2>1 DEF PagesOf, Held, CoreInv, PagesOK, PageOK
    <3>4. CASE obj[o].base = NoPage
      BY <3>2, <3>3, <3>4 DEF EntryOK, TableAt
    <3>5. CASE obj[o].base # NoPage
      <4>1. obj[o].base \in Pages
        BY <2>1, <3>5, EepromAssumption DEF BaseInv, FlashTypeOK, Entry, NoPage, Pages
      <4>2. Held(o) = {obj[o].base}
        BY <2>2, <3>1, <3>2, <3>5, <4>1 DEF TableAt, Held
      <4>3. ~obj[o].length => ~Whole(obj[o].base)
        BY <3>2, <3>5, EepromAssumption DEF EntryOK, Whole
      <4> QED
        BY <3>2, <3>3, <3>5, <4>2, <4>3 DEF EntryOK
    <3> QED
      BY <3>4, <3>5
  <2> QED
    BY <2>2, <2>3 DEF Held
<1> QED
  BY <1>1, FlashInvHolds, PTL

(***************************************************************************)
(* The storage is a store: what a restart would find of an object, as long *)
(* as something is promised of it.                                         *)
(***************************************************************************)
LEMMA StoredValue ==
  ASSUME NEW o \in Objects
  PROVE  Stored[o] \in Values \cup {Absent} /\ Stored[o] # Spoilt
<1>1. Stored[o] = IF PagesOf(o) = {} THEN Absent ELSE flash[CHOOSE p \in PagesOf(o) : TRUE].crc
  BY DEF Stored
<1>2. CASE PagesOf(o) # {}
  <2>1. PICK c : c = CHOOSE p \in PagesOf(o) : TRUE
    OBVIOUS
  <2>2. c \in PagesOf(o)
    BY <1>2, <2>1
  <2> QED
    BY <1>1, <1>2, <2>1, <2>2, EepromAssumption DEF PagesOf, Whole
<1>3. CASE PagesOf(o) = {}
  BY <1>1, <1>3, EepromAssumption
<1> QED
  BY <1>2, <1>3

(* A page that says nothing of an object before and after an operation on  *)
(* it leaves what is stored of the object as it is.                        *)
LEMMA StoredElsewhere ==
  ASSUME NEW k, \A p \in Pages : p # k => flash'[p] = flash[p],
         NEW o \in Objects, k \notin PagesOf(o), k \notin PagesOf(o)'
  PROVE  Stored'[o] = Stored[o]
<1>1. PagesOf(o)' = PagesOf(o)
  BY DEF PagesOf, Whole
<1>2. /\ Stored[o] = IF PagesOf(o) = {} THEN Absent ELSE flash[CHOOSE p \in PagesOf(o) : TRUE].crc
      /\ Stored'[o] = IF PagesOf(o) = {} THEN Absent ELSE flash'[CHOOSE p \in PagesOf(o) : TRUE].crc
  BY <1>1 DEF Stored
<1>3. CASE PagesOf(o) # {}
  <2>1. PICK c : c = CHOOSE p \in PagesOf(o) : TRUE
    OBVIOUS
  <2>2. c \in Pages /\ c # k
    <3>1. c \in PagesOf(o)
      BY <1>3, <2>1
    <3> QED
      BY <3>1 DEF PagesOf
  <2> QED
    BY <1>2, <1>3, <2>1, <2>2
<1> QED
  BY <1>2, <1>3

LEMMA StoredUntouched == ASSUME UNCHANGED flash PROVE Stored' = Stored
BY DEF Stored, PagesOf, Whole

(* What a step does to the store it stands for. *)
LEMMA PromisedPut ==
  ASSUME NEW S, NEW v,
         \A o \in Objects : Promised'[o] = IF o \in S /\ o \notin spoilt THEN v ELSE Promised[o]
  PROVE  Promised' = Store!Put(S, v)
<1>1. Promised' = [o \in Objects |-> Promised'[o]]
  BY DEF Promised
<1>2. \A o \in Objects : o \in spoilt <=> Promised[o] = Spoilt
  BY StoredValue DEF Promised
<1>3. Store!Put(S, v) = [o \in Objects |-> IF o \in S /\ Promised[o] # Spoilt THEN v ELSE Promised[o]]
  BY DEF Store!Put
<1>4. [o \in Objects |-> Promised'[o]] = [o \in Objects |-> IF o \in S /\ Promised[o] # Spoilt THEN v ELSE Promised[o]]
  BY <1>2
<1> QED
  BY <1>1, <1>3, <1>4

LEMMA PromisedSpoilt ==
  ASSUME NEW S, S \subseteq Objects, spoilt' = spoilt \cup S,
         \A o \in Objects : o \notin spoilt' => Stored'[o] = Stored[o]
  PROVE  Promised' = Store!Put(S, Spoilt)
<1>1. \A o \in Objects : Promised'[o] = IF o \in S /\ o \notin spoilt THEN Spoilt ELSE Promised[o]
  BY DEF Promised
<1> QED
  BY <1>1, PromisedPut

LEMMA PromisedKept ==
  ASSUME spoilt' = spoilt, \A o \in Objects : o \notin spoilt => Stored'[o] = Stored[o]
  PROVE  Promised' = Promised
<1>1. Promised = [o \in Objects |-> Promised[o]] /\ Promised' = [o \in Objects |-> Promised'[o]]
  BY DEF Promised
<1>2. \A o \in Objects : Promised'[o] = Promised[o]
  BY DEF Promised
<1> QED
  BY <1>1, <1>2

(* The page of a call is its object's or nobody's. *)
LEMMA PageIs ==
  ASSUME BaseInv, CoreInv, NEW w \in Writers, Alone(w),
         pc[w] \in {"erase", "mark", "header", "id", "data", "length", "crc"}
  PROVE  /\ page[w] \in Pages /\ flash[page[w]].id \notin Objects \ {call[w].id} /\ call[w].id \in Objects
         /\ pc[w] = "erase" => flash[page[w]].id = call[w].id
         /\ pc[w] \in {"mark", "header", "id"} => flash[page[w]].id \notin Objects
         /\ pc[w] = "id" /\ flash[page[w]].id = Blank => flash[page[w]].crc = Blank
<1>1. call[w].id \in Objects /\ OwnOK(w, call[w].id)
  BY OwnBefore
<1>2. CASE pc[w] \in {"data", "length", "crc"}
  BY <1>1, <1>2, OwnPage
<1>3. CASE pc[w] = "erase"
  <2>1. page[w] \in Pages /\ page[w] = obj[call[w].id].base
    BY <1>3 DEF CoreInv, CallOK
  <2> QED
    BY <1>1, <1>3, <2>1, EepromAssumption DEF OwnOK, Pages, NoPage
<1>4. CASE pc[w] = "mark"
  BY <1>1, <1>4, EepromAssumption DEF CoreInv, CallOK, FreshPage, AllOf
<1>5. CASE pc[w] \in {"header", "id"}
  BY <1>1, <1>5, EepromAssumption DEF CoreInv, CallOK, BaseInv, CallTyped, PagesOK, PageOK, AllOf
<1> QED
  BY <1>2, <1>3, <1>4, <1>5

(* No step but an erase and the last takes or gives a value. *)
LEMMA WriterStays ==
  ASSUME BaseInv, CoreInv, NEW w \in Writers, WriterStep(w), ~Erase(w), ~WriteCrc(w),
         NEW o \in Objects, o \notin spoilt, o \notin spoilt'
  PROVE  Stored'[o] = Stored[o]
<1>0. FlashTypeOK
  BY DEF BaseInv
<1>1. CASE UNCHANGED flash
  BY <1>1, StoredUntouched
<1>2. PICK k, own : k = page[w] /\ own = call[w].id
  OBVIOUS
<1>3. Blank \notin Objects /\ Mixed \notin Objects /\ \A p \in Pages : flash[p].crc = Blank => ~Whole(p)
  BY EepromAssumption DEF Whole
<1>4. \A p \in Pages : flash'[p].crc = Blank => ~Whole(p)'
  BY EepromAssumption DEF Whole
<1>5. ASSUME \/ EraseFails(w) \/ Mark(w) \/ MarkFails(w) \/ WriteHeader(w) \/ HeaderFails(w)
             \/ WriteId(w) \/ IdFails(w) \/ WriteData(w) \/ DataFails(w) \/ WriteLength(w) \/ LengthFails(w)
             \/ CrcFails(w)
      PROVE  /\ pc[w] \in {"erase", "mark", "header", "id", "data", "length", "crc"}
             /\ Alone(w) /\ k \in Pages /\ flash[k].id \notin Objects \ {own} /\ own \in Objects
  <2>1. pc[w] \in {"erase", "mark", "header", "id", "data", "length", "crc"} /\ ~Call(w) /\ ~Check(w)
    BY <1>5 DEF EraseFails, Mark, MarkFails, WriteHeader, HeaderFails, WriteId, IdFails, WriteData, DataFails,
                WriteLength, LengthFails, CrcFails, At, Call, Check
  <2> QED
    BY <1>2, <2>1, StepAlone, PageIs
<1>6. CASE EraseFails(w)
  <2>1. PICK c \in Torn \cup {flash[k]} : flash' = [flash EXCEPT ![k] = c]
    BY <1>2, <1>6 DEF EraseFails
  <2>2. (\A p \in Pages : p # k => flash'[p] = flash[p]) /\ flash'[k] = c
    BY <1>0, <1>5, <1>6, <2>1 DEF FlashTypeOK
  <2>3. ret[w] = "clear"
    BY <1>6 DEF EraseFails, At, BaseInv, CallTyped
  <2>4. o # own
    BY <1>2, <1>6, <2>3 DEF EraseFails, SpoiltBy
  <2>5. flash'[k].id \notin Objects \ {own}
    BY <1>5, <1>6, <2>1, <2>2, TornIs
  <2> QED
    BY <1>5, <1>6, <2>2, <2>4, <2>5, StoredElsewhere DEF PagesOf
<1>7. CASE Mark(w) \/ MarkFails(w) \/ WriteHeader(w) \/ HeaderFails(w)
  <2>1. PICK h : flash' = [flash EXCEPT ![k].header = h]
    BY <1>2, <1>7 DEF Mark, MarkFails, WriteHeader, HeaderFails
  <2>2. (\A p \in Pages : p # k => flash'[p] = flash[p]) /\ flash'[k].id = flash[k].id
    BY <1>0, <1>5, <1>7, <2>1, PartWritten
  <2>3. flash[k].id \notin Objects
    <3>1. pc[w] \in {"mark", "header"}
      BY <1>7 DEF Mark, MarkFails, WriteHeader, HeaderFails, At
    <3> QED
      BY <1>2, <1>5, <1>7, <3>1, PageIs
  <2> QED
    BY <2>2, <2>3, StoredElsewhere DEF PagesOf
<1>8. CASE (WriteId(w) \/ IdFails(w)) /\ ~UNCHANGED flash
  <2>1. PICK c \in {own, Blank, Mixed} : flash' = [flash EXCEPT ![k].id = c]
    BY <1>2, <1>8 DEF WriteId, IdFails, Failed
  <2>2. (\A p \in Pages : p # k => flash'[p] = flash[p]) /\ flash'[k].id = c /\ flash'[k].crc = flash[k].crc
    BY <1>0, <1>5, <1>8, <2>1, PartWritten
  <2>3. flash[k].id \notin Objects /\ flash[k].crc = Blank
    <3>1. pc[w] = "id" /\ flash[k].id = Blank
      BY <1>2, <1>8 DEF WriteId, IdFails, At
    <3> QED
      BY <1>2, <1>3, <1>5, <1>8, <3>1, PageIs
  <2>4. k \notin PagesOf(o)
    BY <2>3 DEF PagesOf
  <2>5. k \notin PagesOf(o)'
    BY <1>4, <2>2, <2>3 DEF PagesOf
  <2> QED
    BY <2>2, <2>4, <2>5, StoredElsewhere
<1>9. CASE (WriteData(w) \/ DataFails(w) \/ WriteLength(w) \/ LengthFails(w)) /\ ~UNCHANGED flash
  <2>1. /\ \A p \in Pages : p # k => flash'[p] = flash[p]
        /\ flash'[k].id = flash[k].id /\ flash'[k].crc = flash[k].crc
    <3>1. CASE WriteData(w) \/ DataFails(w)
      <4>1. PICK i, c : flash' = [flash EXCEPT ![k].data[i] = c]
        BY <1>2, <1>9, <3>1 DEF WriteData, DataFails
      <4>2. flash' = [flash EXCEPT ![k] = [flash[k] EXCEPT !.data[i] = c]]
        BY <4>1
      <4> QED
        BY <1>0, <1>5, <1>9, <4>2 DEF FlashTypeOK, Page
    <3>2. CASE WriteLength(w) \/ LengthFails(w)
      <4>1. PICK c : flash' = [flash EXCEPT ![k].length = c]
        <5>1. flash \in [Pages -> Page]
          BY <1>0 DEF FlashTypeOK
        <5> QED
          BY <1>2, <3>2, <5>1 DEF WriteLength, LengthFails
      <4> QED
        BY <1>0, <1>5, <1>9, <4>1, PartWritten
    <3> QED
      BY <1>9, <3>1, <3>2
  <2>2. o = own => flash[k].crc = Blank
    <3>1. pc[w] \in {"data", "length"}
      BY <1>9 DEF WriteData, DataFails, WriteLength, LengthFails, At
    <3> QED
      BY <1>2, <1>5, <1>9, <3>1, OwnPage DEF Sound
  <2>3. k \notin PagesOf(o) /\ k \notin PagesOf(o)'
    BY <1>3, <1>4, <1>5, <1>9, <2>1, <2>2 DEF PagesOf
  <2> QED
    BY <2>1, <2>3, StoredElsewhere
<1>10. CASE CrcFails(w)
  <2>1. PICK c : flash' = [flash EXCEPT ![k].crc = c]
    BY <1>2, <1>10 DEF CrcFails
  <2>2. (\A p \in Pages : p # k => flash'[p] = flash[p]) /\ flash'[k].id = flash[k].id
    BY <1>0, <1>5, <1>10, <2>1, PartWritten
  <2>3. o # own
    BY <1>2, <1>10 DEF CrcFails
  <2> QED
    BY <1>5, <1>10, <2>2, <2>3, StoredElsewhere DEF PagesOf
<1>11. CASE Call(w) \/ Check(w) \/ EraseObject(w) \/ EraseObjectEnds(w) \/ Protect(w) \/ Allocate(w)
  BY <1>1, <1>11 DEF Call, Check, EraseObject, EraseObjectEnds, Protect, Allocate
<1> QED
  BY <1>1, <1>6, <1>7, <1>8, <1>9, <1>10, <1>11 DEF WriterStep

LEMMA StoreStays ==
  ASSUME FlashInv, NEW w \in Writers, WriterStep(w), ~Erase(w), ~WriteCrc(w)
  PROVE  \A o \in Objects : o \notin spoilt' => Stored'[o] = Stored[o]
<1> SUFFICES ASSUME NEW o \in Objects, o \notin spoilt' PROVE Stored'[o] = Stored[o]
  OBVIOUS
<1>1. o \notin spoilt
  <2>1. Next
    BY DEF WriterStep, Next, Write, Procs
  <2> QED
    BY <2>1, BaseNext, SpoiltGrows DEF FlashInv
<1> QED
  BY <1>1, WriterStays DEF FlashInv

(* An erase takes the value of the object that is being written. *)
LEMMA EraseLoses ==
  ASSUME FlashInv, NEW w \in Writers, Erase(w)
  PROVE  Promised' = Store!Put({call[w].id}, Absent)
<1>0. FlashTypeOK /\ BaseInv /\ WriterStep(w) /\ spoilt' = spoilt /\ pc[w] = "erase"
  BY DEF FlashInv, BaseInv, WriterStep, Erase, At
<1>1. PICK own, k : own = call[w].id /\ k = page[w]
  OBVIOUS
<1>2. ASSUME NEW o \in Objects, o \notin spoilt
      PROVE  Stored'[o] = IF o = own THEN Absent ELSE Stored[o]
  <2>1. CoreInv
    BY <1>2 DEF FlashInv
  <2>2. Alone(w)
    BY <1>0, StepAlone DEF Call, Check, At
  <2>3. k \in Pages /\ flash[k].id = own /\ own \in Objects
    BY <1>0, <1>1, <2>1, <2>2, PageIs
  <2>4. (\A p \in Pages : p # k => flash'[p] = flash[p]) /\ flash'[k] = Uniform("ERASED", Blank)
    BY <1>0, <1>1, <2>3 DEF Erase, FlashTypeOK
  <2>5. \A x \in Objects : k \notin PagesOf(x)'
    BY <2>4, UniformIs DEF PagesOf
  <2>6. CASE o # own
    BY <2>3, <2>4, <2>5, <2>6, StoredElsewhere DEF PagesOf
  <2>7. CASE o = own
    <3>1. Held(own) = {k}
      BY <1>2, <2>1, <2>3, <2>7 DEF CoreInv, OnePage, Single, Held, Sound
    <3>2. PagesOf(own)' = {}
      BY <2>4, <2>5, <2>7, <3>1 DEF PagesOf, Held
    <3> QED
      BY <2>7, <3>2 DEF Stored
  <2> QED
    BY <2>6, <2>7
<1>3. \A o \in Objects : Promised'[o] = IF o \in {own} /\ o \notin spoilt THEN Absent ELSE Promised[o]
  BY <1>0, <1>2 DEF Promised
<1> QED
  BY <1>1, <1>3, PromisedPut

(* The CRC gives it the new one. *)
LEMMA CrcCommits ==
  ASSUME FlashInv, NEW w \in Writers, WriteCrc(w)
  PROVE  Promised' = Store!Put({call[w].id}, call[w].value)
<1>0. FlashTypeOK /\ BaseInv /\ WriterStep(w) /\ spoilt' = spoilt /\ pc[w] = "crc"
  BY DEF FlashInv, BaseInv, WriterStep, WriteCrc, At
<1>1. PICK own, k, v : own = call[w].id /\ k = page[w] /\ v = call[w].value
  OBVIOUS
<1>2. ASSUME NEW o \in Objects, o \notin spoilt
      PROVE  Stored'[o] = IF o = own THEN v ELSE Stored[o]
  <2>1. CoreInv
    BY <1>2 DEF FlashInv
  <2>2. Alone(w)
    BY <1>0, StepAlone DEF Call, Check, At
  <2>3. k \in Pages /\ flash[k].id \notin Objects \ {own} /\ own \in Objects
    BY <1>0, <1>1, <2>1, <2>2, PageIs
  <2>4. CASE o # own
    <3>1. PICK c : flash' = [flash EXCEPT ![k].crc = c]
      BY <1>1 DEF WriteCrc
    <3>2. (\A p \in Pages : p # k => flash'[p] = flash[p]) /\ flash'[k].id = flash[k].id
      BY <1>0, <2>3, <3>1, PartWritten
    <3> QED
      BY <2>3, <2>4, <3>2, StoredElsewhere DEF PagesOf
  <2>5. CASE o = own
    <3>1. own \in Sound
      BY <1>2, <2>5 DEF Sound
    <3>2. /\ \A p \in Pages : p # k => flash'[p] = flash[p]
          /\ flash'[k].header = "RECEIVE" /\ flash'[k].id = own /\ flash'[k].length = "len"
          /\ flash'[k].crc = v /\ \A i \in 1 .. Words : flash'[k].data[i] = v
          /\ v \in Values
      BY <1>0, <1>1, <2>1, <2>2, <3>1, CrcMakesWhole
    <3>3. flash[k].id = own
      BY <1>0, <1>1, <2>1, <2>2, OwnBefore, OwnPage
    <3>4. \A p \in Pages : flash[p].id = own => p = k
      BY <2>1, <2>3, <3>1, <3>3 DEF CoreInv, OnePage, Single, Held
    <3>5. PagesOf(own)' = {k}
      BY <2>3, <3>2, <3>4 DEF PagesOf, Whole
    <3>6. Stored'[own] = IF PagesOf(own)' = {} THEN Absent ELSE flash'[CHOOSE p \in PagesOf(own)' : TRUE].crc
      BY <2>3 DEF Stored
    <3> QED
      BY <2>5, <3>2, <3>5, <3>6
  <2> QED
    BY <2>4, <2>5
<1>3. \A o \in Objects : Promised'[o] = IF o \in {own} /\ o \notin spoilt THEN v ELSE Promised[o]
  BY <1>0, <1>2 DEF Promised
<1> QED
  BY <1>1, <1>3, PromisedPut

(* The step of the store that a step of a writer is.  *)
kept == <<Promised, call, result, faults>>

LEMMA WriterRefines ==
  ASSUME FlashInv, NEW w \in Writers, WriterStep(w)
  PROVE  [Store!Next]_kept
<1>0. FlashTypeOK /\ BaseInv /\ CallTyped(w)
  BY DEF FlashInv, BaseInv
<1>1. PICK own : own = call[w].id
  OBVIOUS
<1>2. call[w] # Absent => own \in Objects /\ own \in Store!Written
  BY <1>0, <1>1, EepromAssumption DEF FlashTypeOK, Calls, Store!Written
<1>3. pc[w] # "idle" => call[w] # Absent
  BY <1>0 DEF CallTyped
<1>4. ASSUME UNCHANGED <<call, result, faults, spoilt>>, ~Erase(w), ~WriteCrc(w)
      PROVE  UNCHANGED kept
  BY <1>4, StoreStays, PromisedKept DEF kept
<1>5. ASSUME NEW S \in SUBSET Objects, spoilt' = spoilt \cup S, ~Erase(w), ~WriteCrc(w)
      PROVE  Promised' = Store!Put(S, Spoilt)
  BY <1>5, StoreStays, PromisedSpoilt
<1>6. CASE Call(w)
  <2>1. PICK o \in Objects, v \in Values :
          /\ call' = [call EXCEPT ![w] = [id |-> o, value |-> v]]
          /\ spoilt' = IF o \in OtherCalls(w) THEN spoilt \cup {o} ELSE spoilt
    BY <1>6 DEF Call
  <2>2. call[w] = Absent
    BY <1>0, <1>6 DEF Call, At, CallTyped
  <2>3. Store!Written = OtherCalls(w)
    BY <2>2 DEF Store!Written, OtherCalls
  <2>4. spoilt' = spoilt \cup ({o} \cap Store!Written)
    BY <2>1, <2>3
  <2>5. ~Erase(w) /\ ~WriteCrc(w)
    BY <1>6 DEF Call, Erase, WriteCrc, At
  <2>6. Promised' = Store!Put({o} \cap Store!Written, Spoilt)
    BY <1>5, <2>4, <2>5
  <2>7. Store!Begin(w)
    BY <1>6, <2>1, <2>2, <2>6 DEF Store!Begin, Call
  <2> QED
    BY <2>7 DEF Store!Next
<1>7. CASE Check(w) \/ Protect(w) \/ EraseObjectEnds(w) \/ Mark(w) \/ WriteHeader(w) \/ WriteLength(w)
  <2>1. UNCHANGED <<call, result, faults, spoilt>> /\ ~Erase(w) /\ ~WriteCrc(w)
    BY <1>7 DEF Check, Protect, EraseObjectEnds, Mark, WriteHeader, WriteLength, locals, Erase, WriteCrc, At
  <2> QED
    BY <1>4, <2>1
<1>8. CASE EraseObject(w)
  <2>1. UNCHANGED <<call, result, faults>> /\ pc[w] = "pendErase" /\ ~Erase(w) /\ ~WriteCrc(w)
    BY <1>8 DEF EraseObject, Erase, WriteCrc, At
  <2>2. CASE spoilt' = spoilt
    BY <1>4, <2>1, <2>2
  <2>3. CASE spoilt' # spoilt
    <3>1. spoilt' = Objects /\ obj[own].base = NoPage
      BY <1>1, <1>8, <2>3 DEF EraseObject
    <3>2. own \in spoilt
      <4>1. CoreInv
        BY <2>3, <3>1 DEF FlashInv
      <4>2. OwnOK(w, own)
        BY <1>0, <1>1, <1>8, <2>1, <4>1, StepAlone, OwnBefore DEF Call, Check, At
      <4>3. SoundCallOK(w) /\ TableAt(own)
        BY <1>2, <1>3, <2>1, <4>1 DEF CoreInv, TableOK
      <4> QED
        BY <1>1, <1>2, <1>3, <2>1, <3>1, <4>3 DEF SoundCallOK, TableAt, Sound
    <3>3. Promised[own] = Spoilt
      BY <1>2, <1>3, <2>1, <3>2 DEF Promised
    <3>4. spoilt' = spoilt \cup Objects
      BY <1>0, <3>1 DEF FlashTypeOK
    <3>5. Promised' = Store!Put(Objects, Spoilt)
      BY <1>5, <2>1, <3>4
    <3>6. Store!Clash
      BY <1>2, <1>3, <2>1, <3>3, <3>5 DEF Store!Clash
    <3> QED
      BY <3>6 DEF Store!Next
  <2> QED
    BY <2>2, <2>3
<1>9. ASSUME Return(w, FALSE), pc[w] \notin {"idle", "erase", "crc"}, spoilt' = spoilt,
             UNCHANGED faults \/ Fails
      PROVE  Store!Fail(w)
  <2>1. ~Erase(w) /\ ~WriteCrc(w) /\ call[w] # Absent
    BY <1>3, <1>9 DEF Erase, WriteCrc, At
  <2>2. Promised' = Promised
    BY <1>9, <2>1, StoreStays, PromisedKept
  <2>3. UNCHANGED faults \/ faults' = faults + 1
    BY <1>9 DEF Fails
  <2> QED
    BY <1>9, <2>1, <2>2, <2>3 DEF Return, Store!Fail
<1>10. CASE Allocate(w) \/ WriteId(w) \/ WriteData(w)
  <2>1. pc[w] \notin {"idle", "erase", "crc"} /\ UNCHANGED <<faults, spoilt>> /\ ~Erase(w) /\ ~WriteCrc(w)
    BY <1>10 DEF Allocate, WriteId, WriteData, Erase, WriteCrc, At
  <2>2. Return(w, FALSE) \/ UNCHANGED <<call, result>>
    BY <1>10 DEF Allocate, WriteId, WriteData, locals
  <2> QED
    BY <1>4, <1>9, <2>1, <2>2 DEF Store!Next
<1>11. CASE HeaderFails(w) \/ IdFails(w) \/ DataFails(w)
  <2>1. pc[w] \notin {"idle", "erase", "crc"} /\ Fails /\ UNCHANGED spoilt /\ Return(w, FALSE)
    BY <1>11 DEF HeaderFails, IdFails, DataFails, At
  <2> QED
    BY <1>9, <2>1 DEF Store!Next
<1>12. CASE EraseFails(w) \/ MarkFails(w) \/ LengthFails(w)
  <2>1. /\ pc[w] \in {"erase", "mark", "length"} /\ Fails /\ UNCHANGED <<call, result>>
    BY <1>12 DEF EraseFails, MarkFails, LengthFails, At, locals
  <2>2. ~Erase(w) /\ ~WriteCrc(w)
    <3>1. faults' # faults
      BY <1>0, <2>1 DEF Fails, FlashTypeOK
    <3> QED
      BY <2>1, <3>1 DEF Erase, WriteCrc, At
  <2>3. PICK S \in SUBSET Objects : spoilt' = spoilt \cup S
    <3>1. spoilt' = spoilt \/ spoilt' = spoilt \cup {own}
      <4>1. pc[w] \in {"erase", "mark"} => ret[w] = "clear"
        BY <1>0 DEF CallTyped
      <4> QED
        BY <1>1, <1>12, <4>1 DEF EraseFails, MarkFails, LengthFails, At, SpoiltBy
    <3>2. {} \in SUBSET Objects /\ {own} \in SUBSET Objects /\ spoilt \cup {} = spoilt
      BY <1>2, <1>3, <2>1
    <3>3. CASE spoilt' = spoilt
      BY <3>2, <3>3
    <3> QED
      BY <3>1, <3>2, <3>3
  <2>4. Store!Spoil
    BY <1>5, <2>1, <2>2, <2>3 DEF Store!Spoil, Fails
  <2> QED
    BY <2>4 DEF Store!Next
<1>13. CASE Erase(w)
  <2>1. call[w] # Absent /\ UNCHANGED <<call, result, faults>>
    BY <1>3, <1>13 DEF Erase, At, locals
  <2>2. Store!Lose
    BY <1>1, <1>2, <1>13, <2>1, EraseLoses DEF Store!Lose
  <2> QED
    BY <2>2 DEF Store!Next
<1>14. CASE WriteCrc(w)
  <2>1. call[w] # Absent /\ UNCHANGED faults /\ Return(w, TRUE)
    BY <1>3, <1>14 DEF WriteCrc, At
  <2>2. Store!Commit(w)
    BY <1>14, <2>1, CrcCommits DEF Store!Commit, Return
  <2> QED
    BY <2>2 DEF Store!Next
<1>15. CASE CrcFails(w)
  <2>1. call[w] # Absent /\ Fails /\ Return(w, TRUE) /\ spoilt' = spoilt \cup {own} /\ pc'[w] = "idle"
    BY <1>0, <1>1, <1>3, <1>15, ReturnEnds DEF CrcFails, At
  <2>2. ~Erase(w) /\ ~WriteCrc(w)
    <3>1. pc[w] = "crc" /\ faults' # faults
      BY <1>0, <1>15 DEF CrcFails, At, Fails, FlashTypeOK
    <3> QED
      BY <3>1 DEF Erase, WriteCrc, At
  <2>3. Promised' = Store!Put({own}, Spoilt)
    BY <1>2, <1>5, <2>1, <2>2
  <2>4. Store!Commit(w)
    BY <1>1, <2>1, <2>3 DEF Store!Commit, Return, Fails
  <2> QED
    BY <2>4 DEF Store!Next
<1> QED
  BY <1>6, <1>7, <1>8, <1>10, <1>11, <1>12, <1>13, <1>14, <1>15 DEF WriterStep

(* The start-up says nothing of an object that a restart would find.  *)
LEMMA BootRefines ==
  ASSUME FlashInv, BootStep
  PROVE  [Store!Next]_kept
<1>0. FlashTypeOK /\ BaseInv /\ BaseInv' /\ [Next]_vars
  <2>1. [Next]_vars
    BY DEF BootStep, Next, Boot, Procs
  <2> QED
    BY <2>1, BaseNext DEF FlashInv, BaseInv
<1>1. PICK k : k = page["boot"]
  OBVIOUS
<1>2. ASSUME NEW o \in Objects, o \notin spoilt'
      PROVE  Stored'[o] = Stored[o]
  <2>1. CASE UNCHANGED flash
    BY <2>1, StoredUntouched
  <2>2. CASE Erase("boot") \/ EraseFails("boot") \/ Mark("boot") \/ MarkFails("boot")
    <3>1. spoilt \subseteq spoilt'
      BY <1>0, SpoiltGrows
    <3>2. CoreInv /\ o \in Sound
      BY <1>2, <3>1 DEF FlashInv, Sound
    <3>3. k \in Pages /\ k \notin PagesOf(o)
      <4>1. pc["boot"] \in {"erase", "mark"} /\ BootOK
        BY <2>2, <3>2 DEF Erase, EraseFails, Mark, MarkFails, At, CoreInv
      <4>2. pc["boot"] = "erase" => k \in Pages /\ ~(flash[k].id \in Sound /\ Whole(k))
        BY <1>1, <4>1 DEF BootOK
      <4>3. pc["boot"] = "mark" => k \in Pages /\ flash[k].id = Blank
        BY <1>1, <4>1 DEF BootOK, FreshPage, AllOf
      <4> QED
        BY <3>2, <4>1, <4>2, <4>3, EepromAssumption DEF PagesOf, Sound
    <3>4. CASE Erase("boot") \/ EraseFails("boot")
      <4>1. PICK c \in Torn \cup {flash[k]} : flash' = [flash EXCEPT ![k] = c]
        BY <1>1, <3>4 DEF Erase, EraseFails, Torn
      <4>2. (\A p \in Pages : p # k => flash'[p] = flash[p]) /\ flash'[k] = c
        BY <1>0, <3>3, <4>1 DEF FlashTypeOK
      <4>3. k \notin PagesOf(o)'
        <5>1. CASE c \in Torn
          BY <4>2, <5>1, TornIs DEF PagesOf
        <5>2. CASE c = flash[k]
          BY <3>3, <4>2, <5>2 DEF PagesOf, Whole
        <5> QED
          BY <5>1, <5>2
      <4> QED
        BY <3>3, <4>2, <4>3, StoredElsewhere
    <3>5. CASE Mark("boot") \/ MarkFails("boot")
      <4>1. PICK h : flash' = [flash EXCEPT ![k].header = h]
        BY <1>1, <3>5 DEF Mark, MarkFails
      <4>2. (\A p \in Pages : p # k => flash'[p] = flash[p]) /\ flash'[k].id = flash[k].id
        BY <1>0, <3>3, <4>1, PartWritten
      <4>3. flash[k].id = Blank
        BY <1>1, <3>2, <3>5 DEF Mark, MarkFails, At, CoreInv, BootOK, FreshPage, AllOf
      <4> QED
        BY <3>3, <4>2, <4>3, StoredElsewhere, EepromAssumption DEF PagesOf
    <3> QED
      BY <2>2, <3>4, <3>5
  <2> QED
    BY <2>1, <2>2 DEF BootStep, IfInit, LowlLevelIfInit, FormatAllPages
<1>3. UNCHANGED <<call, result>>
  BY DEF BootStep, IfInit, LowlLevelIfInit, FormatAllPages, Erase, EraseFails, Mark, MarkFails, locals
<1>4. CASE UNCHANGED <<faults, spoilt>>
  BY <1>2, <1>3, <1>4, PromisedKept DEF kept
<1>5. CASE EraseFails("boot") \/ MarkFails("boot")
  <2>1. Fails
    BY <1>5 DEF EraseFails, MarkFails
  <2>2. PICK S : S = spoilt' /\ S \in SUBSET Objects /\ spoilt' = spoilt \cup S
    BY <1>0, SpoiltGrows DEF BaseInv, FlashTypeOK
  <2>3. Promised' = Store!Put(S, Spoilt)
    BY <1>2, <2>2, PromisedSpoilt
  <2>4. Store!Spoil
    BY <1>3, <2>1, <2>2, <2>3 DEF Store!Spoil, Fails
  <2> QED
    BY <2>4 DEF Store!Next
<1> QED
  BY <1>4, <1>5 DEF BootStep, IfInit, LowlLevelIfInit, FormatAllPages, Erase, Mark

(* A reset takes at most the value of the object whose page is erased.  *)
LEMMA ResetRefines ==
  ASSUME FlashInv, Reset
  PROVE  [Store!Next]_kept
<1>0. FlashTypeOK /\ BaseInv /\ spoilt' = spoilt
  BY DEF FlashInv, BaseInv, Reset
<1>1. PICK S : S = {o \in Store!Written : PagesOf(o)' = {}}
  OBVIOUS
<1>2. ASSUME NEW o \in Objects, o \notin spoilt
      PROVE  Stored'[o] = IF o \in S THEN Absent ELSE Stored[o]
  <2>0. CoreInv /\ o \in Sound
    BY <1>2 DEF FlashInv, Sound
  <2>1. CASE o \in S
    BY <1>1, <2>1 DEF Stored
  <2>2. CASE o \notin S
    <3>1. CASE UNCHANGED flash
      BY <2>2, <3>1, StoredUntouched
    <3>2. ASSUME NEW t \in Procs, NEW c \in Torn, pc[t] = "erase", flash' = [flash EXCEPT ![page[t]] = c]
          PROVE  Stored'[o] = Stored[o]
      <4>1. PICK k : k = page[t]
        OBVIOUS
      <4>2. k \in Pages /\ (k \in PagesOf(o) => o \in Store!Written)
        <5>1. CASE t = "boot"
          BY <2>0, <3>2, <4>1, <5>1 DEF CoreInv, BootOK, PagesOf
        <5>2. CASE t # "boot"
          <6>1. t \in Writers /\ call[t] # Absent
            BY <1>0, <3>2, <5>2 DEF Procs, BaseInv, CallTyped
          <6>2. call[t].id \in Store!Written
            BY <6>1 DEF Store!Written
          <6>3. CallOK(t) /\ TableAt(call[t].id) /\ call[t].id \in Objects
            BY <1>0, <2>0, <6>1 DEF CoreInv, TableOK, FlashTypeOK, Calls
          <6>4. k \in Pages /\ k = obj[call[t].id].base
            BY <3>2, <4>1, <6>3 DEF CallOK
          <6>5. ~Leaving(call[t].id)
            <7>1. \A u \in Writers : u # t => pc[u] \notin {"mark", "clear"}
              BY <1>0, <3>2, <6>1 DEF BaseInv, SemOK, Protected, WriteSteps
            <7> QED
              BY <3>2, <7>1 DEF Leaving
          <6>6. flash[k].id = call[t].id
            BY <6>3, <6>4, <6>5, EepromAssumption DEF TableAt, Pages, NoPage
          <6> QED
            BY <6>2, <6>4, <6>6 DEF PagesOf
        <5> QED
          BY <5>1, <5>2
      <4>3. (\A p \in Pages : p # k => flash'[p] = flash[p]) /\ flash'[k] = c
        BY <1>0, <3>2, <4>1, <4>2 DEF FlashTypeOK
      <4>4. k \notin PagesOf(o)'
        BY <3>2, <4>3, TornIs DEF PagesOf
      <4>5. k \notin PagesOf(o)
        <5> SUFFICES ASSUME k \in PagesOf(o) PROVE FALSE
          OBVIOUS
        <5>1. \A p \in Pages : flash[p].id = o => p = k
          BY <2>0 DEF CoreInv, OnePage, Single, Held, PagesOf
        <5>2. PagesOf(o)' = {}
          BY <4>3, <4>4, <5>1 DEF PagesOf
        <5> QED
          BY <1>1, <2>2, <4>2, <5>2
      <4> QED
        BY <4>2, <4>3, <4>4, <4>5, StoredElsewhere
    <3> QED
      BY <3>1, <3>2, <2>2 DEF Reset
  <2> QED
    BY <2>1, <2>2
<1>3. \A o \in Objects : Promised'[o] = IF o \in S /\ o \notin spoilt THEN Absent ELSE Promised[o]
  BY <1>0, <1>2 DEF Promised
<1>4. Promised' = Store!Put(S, Absent)
  BY <1>3, PromisedPut
<1>5. Store!Reset
  BY <1>1, <1>4 DEF Reset, Store!Reset
<1> QED
  BY <1>5 DEF Store!Next

(* The store of the empty flash is empty.  *)
LEMMA StoreInit == Init => Store!Init
<1> SUFFICES ASSUME Init PROVE Store!Init
  OBVIOUS
<1>1. ASSUME NEW o \in Objects PROVE Promised[o] = Absent
  <2>1. \A p \in Pages : flash[p].header = "ERASED"
    BY UniformIs DEF Init
  <2>2. PagesOf(o) = {}
    BY <2>1 DEF PagesOf
  <2>3. Stored[o] = Absent
    BY <2>2 DEF Stored
  <2> QED
    BY <2>3 DEF Promised, Init
<1>2. Promised = [o \in Objects |-> Promised[o]]
  BY DEF Promised
<1>3. [o \in Objects |-> Promised[o]] = [o \in Objects |-> Absent]
  BY <1>1
<1> QED
  BY <1>2, <1>3 DEF Init, Store!Init

LEMMA StoreNext == FlashInv /\ [Next]_vars => [Store!Next]_kept
<1> SUFFICES ASSUME FlashInv, [Next]_vars PROVE [Store!Next]_kept
  OBVIOUS
<1>1. CASE UNCHANGED vars
  <2>1. UNCHANGED <<flash, call, result, faults, spoilt>>
    BY <1>1 DEF vars, locals
  <2> QED
    BY <2>1, StoredUntouched, PromisedKept DEF kept
<1> QED
  BY <1>1, FlashActions, WriterRefines, BootRefines, ResetRefines

(* The storage refines the store: with resets between any two operations   *)
(* of the flash and whichever of them fail, a write touches its own object *)
(* only, which holds the old value, none, or the new one, and the new one  *)
(* once the caller is told so, until something spoils it.                  *)
THEOREM ImplementsStore == Spec => StoreRefined
<1>1. Spec => Store!Init
  BY StoreInit DEF Spec
<1>2. FlashInv /\ [Next]_vars => [Store!Next]_<<Promised, call, result, faults>>
  BY StoreNext DEF kept
<1> QED
  BY <1>1, <1>2, FlashInvHolds, PTL DEF Spec, StoreRefined, Store!Spec

---------------------------------------------------------------------------
(***************************************************************************)
(* Part II: Params.  VehicleKept is not inductive: that a restart finds a  *)
(* whole copy needs that one is whole while the other is being written,    *)
(* which is what the order of the saves is for.                            *)
(***************************************************************************)

WritingVehicle  == stage = "internal" /\ cur = VEHICLE
BackingVehicle  == stage \in {"erase", "mark", "data", "rest"} /\ cur = VEHICLE
BeforeRestoring == stage \in {"read", "vehicle"}

(* Both copies are whole but for the one that is being written. *)
OtherCopyGood ==
  /\ stored[VEHICLE] \in Settings \cup {NoValue}
  /\ backup[VEHICLE] \in Settings \cup Unwritten
  /\ ~BeforeRestoring /\ ~WritingVehicle => stored[VEHICLE] \in Settings
  /\ ~BeforeRestoring /\ ~BackingVehicle => backup[VEHICLE] \in Settings

(* What the write in progress writes, and where the code goes on. *)
WriteOK ==
  /\ stage = "internal" => /\ writing["task"].id = cur
                           /\ cur = VEHICLE => writing["task"].value = ram[VEHICLE]
  /\ stage # "internal" => writing["task"] = NoValue

(* A provisioned terminal never resets its parameters. *)
NoReset ==
  /\ stage # "resetGprs" /\ after # "resetGprs"
  /\ stage = "vehicle" /\ stored[VEHICLE] # NoValue => ram[VEHICLE] = stored[VEHICLE]

(* No parameters are used or saved before they were read or reset. *)
GprsNotRead ==
  \/ stage \in {"read", "vehicle", "resetGprs", "gprs"}
  \/ cur = VEHICLE /\ stage \in {"internal", "erase", "mark", "data", "rest"} /\ after \in {"resetGprs", "gprs"}

NotZero ==
  /\ ~BeforeRestoring => ram[VEHICLE] # "zero"
  /\ ~GprsNotRead => ram[GPRS] # "zero"

ParamsInductive ==
  /\ TypeOK
  /\ WriteOK
  /\ NotZero
  /\ provisioned => OtherCopyGood /\ NoReset /\ OneGoodCopy /\ VehicleKept

(* The steps, one by one. *)
LEMMA ParamsActions ==
  ASSUME [ParamsNext]_paramVars
  PROVE  \/ InternalErased \/ InternalWritten \/ BackupStep \/ Read \/ InitVehicle
         \/ ResetGprs \/ InitGprs \/ SaveInternal \/ SaveBackup \/ sysParamsSave
         \/ Restart \/ Login \/ Command \/ PowerFails \/ UNCHANGED paramVars
BY DEF ParamsNext, Step

(* The object of the write in progress is the one the code is at. *)
LEMMA WrittenIsCurrent ==
  ASSUME TypeOK, WriteOK
  PROVE  Internal!Written \subseteq {cur} /\ (stage # "internal" => Internal!Written = {})
BY DEF TypeOK, WriteOK, Internal!Written, Savers

(* Nothing is spoilt, and what is put into the store is there. *)
LEMMA StoreTypes ==
  ASSUME TypeOK, NEW S, NEW v \in ParamValues \cup {NoValue}
  PROVE  /\ Internal!Put(S, v) \in [ParamIds -> ParamValues \cup {NoValue}]
         /\ Internal!Put({}, v) = stored
<1>1. \A o \in ParamIds : stored[o] # "spoilt"
  BY ParamsAssumption DEF TypeOK, ParamValues
<1>2. stored = [o \in ParamIds |-> stored[o]] /\ \A o \in ParamIds : stored[o] \in ParamValues \cup {NoValue}
  BY DEF TypeOK
<1>3. Internal!Put({}, v) = [o \in ParamIds |-> stored[o]]
  BY DEF Internal!Put
<1> QED
  BY <1>1, <1>2, <1>3 DEF Internal!Put

(* The writer is told by the store alone, which no operation fails. *)
LEMMA StoreSteps ==
  ASSUME TypeOK, WriteOK
  PROVE  /\ Internal!Lose => \E S : stored' = Internal!Put(S, NoValue) /\ UNCHANGED <<writing, saved>>
         /\ Internal!Commit("task") =>
              /\ writing["task"] # NoValue
              /\ stored' = Internal!Put({writing["task"].id}, writing["task"].value)
              /\ writing' = [writing EXCEPT !["task"] = NoValue]
              /\ saved' = [saved EXCEPT !["task"] = TRUE]
         /\ Internal!Reset =>
              /\ \E S : stored' = Internal!Put(S, NoValue)
              /\ writing' = [w \in Savers |-> NoValue] /\ saved' = [w \in Savers |-> FALSE]
<1>1. 0' # 0 + 1
  OBVIOUS
<1>2. Internal!Lose => \E S : stored' = Internal!Put(S, NoValue) /\ UNCHANGED <<writing, saved>>
  BY DEF Internal!Lose
<1>3. Internal!Reset => /\ \E S : stored' = Internal!Put(S, NoValue)
                       /\ writing' = [w \in Savers |-> NoValue] /\ saved' = [w \in Savers |-> FALSE]
  BY DEF Internal!Reset
<1> QED
  BY <1>1, <1>2, <1>3 DEF Internal!Commit

(* The result of a write is Boolean. *)
LEMMA SavedTypes ==
  ASSUME TypeOK
  PROVE  saved \in [Savers -> BOOLEAN] /\ [saved EXCEPT !["task"] = FALSE] \in [Savers -> BOOLEAN]
<1>1. saved \in [Savers -> BOOLEAN]
  BY DEF TypeOK
<1> QED
  BY <1>1, Zenon

(* Every step keeps the types. *)
LEMMA ParamsTypeStep ==
  ASSUME TypeOK, WriteOK, NotZero, [ParamsNext]_paramVars
  PROVE  TypeOK'
<1> USE ParamsAssumption DEF TypeOK, GoOn, WriteInternal, WriteBackup, where, FromStore, Named, Defaults,
        ReadOver, AfterInit, Savers, ParamIds, VEHICLE, GPRS, ParamValues, Unwritten,
        WriteOK, NotZero, BeforeRestoring, GprsNotRead
<1>1. CASE InternalErased
  <2>1. PICK S : stored' = Internal!Put(S, NoValue) /\ UNCHANGED <<writing, saved>>
    BY <1>1, StoreSteps DEF InternalErased
  <2>2. stored' \in [ParamIds -> ParamValues \cup {NoValue}]
    BY <2>1, StoreTypes
  <2> QED
    BY <1>1, <2>1, <2>2 DEF InternalErased
<1>2. CASE InternalWritten
  <2>1. /\ writing["task"] # NoValue
        /\ stored' = Internal!Put({writing["task"].id}, writing["task"].value)
        /\ writing' = [writing EXCEPT !["task"] = NoValue]
        /\ saved' = [saved EXCEPT !["task"] = TRUE]
    BY <1>2, StoreSteps DEF InternalWritten
  <2>2. writing["task"].value \in ParamValues
    BY <2>1
  <2>3. stored' \in [ParamIds -> ParamValues \cup {NoValue}]
    BY <2>1, <2>2, StoreTypes
  <2>4. saved' \in [Savers -> BOOLEAN]
    BY <2>1, Zenon
  <2> QED
    BY <1>2, <2>1, <2>3, <2>4 DEF InternalWritten
<1>3. CASE BackupStep
  BY <1>3, WrittenIsCurrent DEF BackupStep
<1>4. CASE Read
  BY <1>4, WrittenIsCurrent DEF Read
<1>5. CASE InitVehicle
  <2>1. saved' \in [Savers -> BOOLEAN]
    <3>1. UNCHANGED saved \/ saved' = [saved EXCEPT !["task"] = FALSE]
      BY <1>5 DEF InitVehicle
    <3> QED
      BY <3>1, SavedTypes, Zenon
  <2> QED
    BY <1>5, <2>1, WrittenIsCurrent DEF InitVehicle
<1>6. CASE ResetGprs
  BY <1>6, WrittenIsCurrent DEF ResetGprs
<1>7. CASE InitGprs
  <2>1. saved' \in [Savers -> BOOLEAN]
    <3>1. UNCHANGED saved \/ saved' = [saved EXCEPT !["task"] = FALSE]
      BY <1>7 DEF InitGprs
    <3> QED
      BY <3>1, SavedTypes, Zenon
  <2> QED
    BY <1>7, <2>1, WrittenIsCurrent DEF InitGprs
<1>8. CASE SaveInternal
  <2>1. saved' \in [Savers -> BOOLEAN]
    <3>1. UNCHANGED saved \/ saved' = [saved EXCEPT !["task"] = FALSE]
      BY <1>8 DEF SaveInternal
    <3> QED
      BY <3>1, SavedTypes, Zenon
  <2> QED
    BY <1>8, <2>1, WrittenIsCurrent DEF SaveInternal
<1>9. CASE SaveBackup
  BY <1>9, WrittenIsCurrent DEF SaveBackup
<1>10. CASE sysParamsSave
  BY <1>10, WrittenIsCurrent DEF sysParamsSave
<1>11. CASE Restart
  BY <1>11, WrittenIsCurrent DEF Restart
<1>12. CASE Login
  BY <1>12, WrittenIsCurrent DEF Login
<1>13. CASE Command
  BY <1>13, WrittenIsCurrent DEF Command
<1>14. CASE PowerFails
  <2>1. PICK S : /\ stored' = Internal!Put(S, NoValue)
                 /\ writing' = [w \in Savers |-> NoValue] /\ saved' = [w \in Savers |-> FALSE]
    BY <1>14, StoreSteps DEF PowerFails
  <2>2. stored' \in [ParamIds -> ParamValues \cup {NoValue}]
    BY <2>1, StoreTypes
  <2>3. saved' \in [Savers -> BOOLEAN]
    BY <2>1, Zenon
  <2> QED
    BY <1>14, <2>1, <2>2, <2>3 DEF PowerFails
<1>15. CASE UNCHANGED paramVars
  BY <1>15 DEF paramVars, where
<1> QED
  BY ParamsActions, <1>1, <1>2, <1>3, <1>4, <1>5, <1>6, <1>7, <1>8, <1>9, <1>10, <1>11, <1>12, <1>13, <1>14, <1>15

(* Every step leaves only parameters that were read or reset. *)
LEMMA ZeroStep ==
  ASSUME TypeOK, WriteOK, NotZero, [ParamsNext]_paramVars
  PROVE  NotZero'
<1> USE ParamsAssumption DEF TypeOK, GoOn, WriteInternal, WriteBackup, where, FromStore, Named, Defaults,
        ReadOver, AfterInit, Savers, ParamIds, VEHICLE, GPRS, ParamValues, Unwritten,
        Internal!Lose, Internal!Commit, Internal!Reset, Internal!Put, WriteOK, NotZero, BeforeRestoring, GprsNotRead
<1>1. CASE InternalErased
  BY <1>1, WrittenIsCurrent DEF InternalErased
<1>2. CASE InternalWritten
  BY <1>2, WrittenIsCurrent DEF InternalWritten
<1>3. CASE BackupStep
  BY <1>3, WrittenIsCurrent DEF BackupStep
<1>4. CASE Read
  BY <1>4, WrittenIsCurrent DEF Read
<1>5. CASE InitVehicle
  BY <1>5, WrittenIsCurrent DEF InitVehicle
<1>6. CASE ResetGprs
  BY <1>6, WrittenIsCurrent DEF ResetGprs
<1>7. CASE InitGprs
  BY <1>7, WrittenIsCurrent DEF InitGprs
<1>8. CASE SaveInternal
  BY <1>8, WrittenIsCurrent DEF SaveInternal
<1>9. CASE SaveBackup
  BY <1>9, WrittenIsCurrent DEF SaveBackup
<1>10. CASE sysParamsSave
  BY <1>10, WrittenIsCurrent DEF sysParamsSave
<1>11. CASE Restart
  BY <1>11, WrittenIsCurrent DEF Restart
<1>12. CASE Login
  BY <1>12, WrittenIsCurrent DEF Login
<1>13. CASE Command
  BY <1>13, WrittenIsCurrent DEF Command
<1>14. CASE PowerFails
  BY <1>14, WrittenIsCurrent DEF PowerFails
<1>15. CASE UNCHANGED paramVars
  BY <1>15 DEF paramVars, where
<1> QED
  BY ParamsActions, <1>1, <1>2, <1>3, <1>4, <1>5, <1>6, <1>7, <1>8, <1>9, <1>10, <1>11, <1>12, <1>13, <1>14, <1>15

(* Every step knows what it is writing. *)
LEMMA WriteStep ==
  ASSUME TypeOK, WriteOK, [ParamsNext]_paramVars
  PROVE  WriteOK'
<1> USE ParamsAssumption DEF TypeOK, GoOn, WriteInternal, WriteBackup, where, FromStore, Named, Defaults,
        ReadOver, AfterInit, Savers, ParamIds, VEHICLE, GPRS, ParamValues, Unwritten,
        Internal!Lose, Internal!Commit, Internal!Reset, Internal!Put, WriteOK
<1>1. CASE InternalErased
  BY <1>1, WrittenIsCurrent DEF InternalErased
<1>2. CASE InternalWritten
  BY <1>2, WrittenIsCurrent DEF InternalWritten
<1>3. CASE BackupStep
  BY <1>3, WrittenIsCurrent DEF BackupStep
<1>4. CASE Read
  BY <1>4, WrittenIsCurrent DEF Read
<1>5. CASE InitVehicle
  BY <1>5, WrittenIsCurrent DEF InitVehicle
<1>6. CASE ResetGprs
  BY <1>6, WrittenIsCurrent DEF ResetGprs
<1>7. CASE InitGprs
  BY <1>7, WrittenIsCurrent DEF InitGprs
<1>8. CASE SaveInternal
  BY <1>8, WrittenIsCurrent DEF SaveInternal
<1>9. CASE SaveBackup
  BY <1>9, WrittenIsCurrent DEF SaveBackup
<1>10. CASE sysParamsSave
  BY <1>10, WrittenIsCurrent DEF sysParamsSave
<1>11. CASE Restart
  BY <1>11, WrittenIsCurrent DEF Restart
<1>12. CASE Login
  BY <1>12, WrittenIsCurrent DEF Login
<1>13. CASE Command
  BY <1>13, WrittenIsCurrent DEF Command
<1>14. CASE PowerFails
  BY <1>14, WrittenIsCurrent DEF PowerFails
<1>15. CASE UNCHANGED paramVars
  BY <1>15 DEF paramVars, where
<1> QED
  BY ParamsActions, <1>1, <1>2, <1>3, <1>4, <1>5, <1>6, <1>7, <1>8, <1>9, <1>10, <1>11, <1>12, <1>13, <1>14, <1>15

(* Every step of a provisioned terminal leaves a whole copy. *)
LEMMA VehicleStep ==
  ASSUME TypeOK, WriteOK, [ParamsNext]_paramVars, provisioned,
         OtherCopyGood, NoReset, OneGoodCopy, VehicleKept
  PROVE  provisioned' /\ OtherCopyGood' /\ NoReset' /\ OneGoodCopy' /\ VehicleKept'
<1> USE ParamsAssumption DEF TypeOK, GoOn, WriteInternal, WriteBackup, where, FromStore, Named, Defaults,
        ReadOver, AfterInit, Savers, ParamIds, VEHICLE, GPRS, ParamValues, Unwritten,
        Internal!Lose, Internal!Commit, Internal!Reset, Internal!Put,
        WriteOK, OtherCopyGood, NoReset, OneGoodCopy, VehicleKept,
        WritingVehicle, BackingVehicle, BeforeRestoring
<1>1. CASE InternalErased
  BY <1>1, WrittenIsCurrent DEF InternalErased
<1>2. CASE InternalWritten
  BY <1>2, WrittenIsCurrent DEF InternalWritten
<1>3. CASE BackupStep
  BY <1>3, WrittenIsCurrent DEF BackupStep
<1>4. CASE Read
  BY <1>4, WrittenIsCurrent DEF Read
<1>5. CASE InitVehicle
  <2>1. provisioned'
    BY <1>5 DEF InitVehicle
  <2>2. OtherCopyGood'
    BY <1>5 DEF InitVehicle
  <2>3. NoReset'
    BY <1>5 DEF InitVehicle
  <2>4. OneGoodCopy'
    BY <1>5 DEF InitVehicle
  <2>5. VehicleKept'
    BY <1>5 DEF InitVehicle
  <2> QED
    BY <2>1, <2>2, <2>3, <2>4, <2>5
<1>6. CASE ResetGprs
  <2>1. provisioned'
    BY <1>6 DEF ResetGprs
  <2>2. OtherCopyGood'
    BY <1>6 DEF ResetGprs
  <2>3. NoReset'
    BY <1>6 DEF ResetGprs
  <2>4. OneGoodCopy'
    BY <1>6 DEF ResetGprs
  <2>5. VehicleKept'
    BY <1>6 DEF ResetGprs
  <2> QED
    BY <2>1, <2>2, <2>3, <2>4, <2>5
<1>7. CASE InitGprs
  <2>1. provisioned'
    BY <1>7 DEF InitGprs
  <2>2. OtherCopyGood'
    BY <1>7 DEF InitGprs
  <2>3. NoReset'
    BY <1>7 DEF InitGprs
  <2>4. OneGoodCopy'
    BY <1>7 DEF InitGprs
  <2>5. VehicleKept'
    BY <1>7 DEF InitGprs
  <2> QED
    BY <2>1, <2>2, <2>3, <2>4, <2>5
<1>8. CASE SaveInternal
  <2>1. provisioned'
    BY <1>8 DEF SaveInternal
  <2>2. OtherCopyGood'
    BY <1>8 DEF SaveInternal
  <2>3. NoReset'
    BY <1>8 DEF SaveInternal
  <2>4. OneGoodCopy'
    BY <1>8 DEF SaveInternal
  <2>5. VehicleKept'
    BY <1>8 DEF SaveInternal
  <2> QED
    BY <2>1, <2>2, <2>3, <2>4, <2>5
<1>9. CASE SaveBackup
  BY <1>9, WrittenIsCurrent DEF SaveBackup
<1>10. CASE sysParamsSave
  BY <1>10, WrittenIsCurrent DEF sysParamsSave
<1>11. CASE Restart
  BY <1>11, WrittenIsCurrent DEF Restart
<1>12. CASE Login
  <2>1. provisioned'
    BY <1>12 DEF Login
  <2>2. OtherCopyGood'
    BY <1>12 DEF Login
  <2>3. NoReset'
    BY <1>12 DEF Login
  <2>4. OneGoodCopy'
    BY <1>12 DEF Login
  <2>5. VehicleKept'
    BY <1>12 DEF Login
  <2> QED
    BY <2>1, <2>2, <2>3, <2>4, <2>5
<1>13. CASE Command
  <2>1. provisioned'
    BY <1>13 DEF Command
  <2>2. OtherCopyGood'
    BY <1>13 DEF Command
  <2>3. NoReset'
    BY <1>13 DEF Command
  <2>4. OneGoodCopy'
    BY <1>13 DEF Command
  <2>5. VehicleKept'
    BY <1>13 DEF Command
  <2> QED
    BY <2>1, <2>2, <2>3, <2>4, <2>5
<1>14. CASE PowerFails
  BY <1>14, WrittenIsCurrent DEF PowerFails
<1>15. CASE UNCHANGED paramVars
  BY <1>15 DEF paramVars, where
<1> QED
  BY ParamsActions, <1>1, <1>2, <1>3, <1>4, <1>5, <1>6, <1>7, <1>8, <1>9, <1>10, <1>11, <1>12, <1>13, <1>14, <1>15

(* A start satisfies the invariant. *)
LEMMA ParamsInitInductive == ParamsInit => ParamsInductive
BY ParamsAssumption DEF ParamsInit, ParamsInductive, NotZero, GprsNotRead, TypeOK, WriteOK, OtherCopyGood, NoReset, OneGoodCopy,
   VehicleKept, WritingVehicle, BackingVehicle, BeforeRestoring, Savers, ParamIds, VEHICLE, GPRS,
   ParamValues, Unwritten

(* Every step keeps it. *)
LEMMA ParamsNextInductive == ParamsInductive /\ [ParamsNext]_paramVars => ParamsInductive'
<1> SUFFICES ASSUME ParamsInductive, [ParamsNext]_paramVars PROVE ParamsInductive'
  OBVIOUS
<1>1. TypeOK' /\ WriteOK' /\ NotZero'
  BY ParamsTypeStep, WriteStep, ZeroStep DEF ParamsInductive
<1>2. provisioned' = provisioned
  BY ParamsActions DEF InternalErased, InternalWritten, BackupStep, Read, InitVehicle, ResetGprs,
     InitGprs, SaveInternal, SaveBackup, sysParamsSave, Restart, Login, Command, PowerFails, paramVars
<1>3. ASSUME provisioned
      PROVE  OtherCopyGood' /\ NoReset' /\ OneGoodCopy' /\ VehicleKept'
  BY <1>3, VehicleStep DEF ParamsInductive
<1> QED
  BY <1>1, <1>2, <1>3 DEF ParamsInductive

LEMMA ParamsAlwaysInductive == ParamsSpec => []ParamsInductive
BY ParamsInitInductive, ParamsNextInductive, PTL DEF ParamsSpec

(* The parameters keep their types. *)
THEOREM ParamsTypeCorrect == ParamsSpec => []TypeOK
<1>1. ParamsInductive => TypeOK
  BY DEF ParamsInductive
<1> QED
  BY <1>1, ParamsAlwaysInductive, PTL

(***************************************************************************)
(* Whatever is set, and whenever and however often the supply fails, a     *)
(* provisioned terminal works with vehicle parameters that were set.       *)
(***************************************************************************)
THEOREM VehicleAlwaysKept == ParamsSpec => []VehicleKept
<1>1. ParamsInductive => VehicleKept
  BY DEF ParamsInductive, VehicleKept
<1> QED
  BY <1>1, ParamsAlwaysInductive, PTL

(* At any time one of the two copies of them is whole. *)
THEOREM CopyAlwaysGood == ParamsSpec => []OneGoodCopy
<1>1. ParamsInductive => OneGoodCopy
  BY DEF ParamsInductive, OneGoodCopy
<1> QED
  BY <1>1, ParamsAlwaysInductive, PTL

(***************************************************************************)
(* What Params does to the internal storage are operations of that store,  *)
(* one after the other: it never starts a write before the last one ended. *)
(* That is what ImplementsStore asks of the callers of Eeprom, and what it *)
(* gives them is all that Params relies on, but for writes that fail.      *)
(***************************************************************************)
UsesStore == [][Internal!Next]_<<stored, writing, saved>>

(* A step that starts to write an object starts a write of the store. *)
LEMMA WriteBegins ==
  ASSUME TypeOK, WriteOK, stage # "internal", NEW o \in ParamIds, NEW v \in ParamValues,
         NEW next, WriteInternal(o, v, next)
  PROVE  Internal!Begin("task")
<1>1. Internal!Written = {} /\ {o} \cap Internal!Written = {}
  BY WrittenIsCurrent
<1>2. stored' = Internal!Put({o} \cap Internal!Written, "spoilt")
  <2>1. stored = [x \in ParamIds |-> stored[x]]
    BY DEF TypeOK
  <2> QED
    BY <1>1, <2>1 DEF WriteInternal, Internal!Put
<1> QED
  BY <1>2 DEF TypeOK, WriteOK, WriteInternal, Internal!Begin, Savers

(* Every step is one of the store or leaves it alone. *)
LEMMA StoreStep ==
  ASSUME TypeOK, WriteOK, NotZero, [ParamsNext]_paramVars
  PROVE  Internal!Next \/ UNCHANGED <<stored, writing, saved>>
<1>1. CASE InternalErased \/ InternalWritten \/ PowerFails
  BY <1>1 DEF InternalErased, InternalWritten, PowerFails, Internal!Next, Savers
<1>2. CASE InitVehicle
  BY <1>2, WriteBegins
  DEF InitVehicle, WriteBackup, ReadOver, Named, Unwritten, ParamIds, VEHICLE, GPRS, ParamValues, TypeOK,
      Internal!Next, Savers
<1>3. CASE ResetGprs
  <2>1. Defaults(ram[GPRS]) \in ParamValues /\ GPRS \in ParamIds
    BY DEF Defaults, ParamValues, ParamIds
  <2> QED
    BY <1>3, <2>1, WriteBegins DEF ResetGprs, Internal!Next, Savers
<1>4. CASE InitGprs
  <2>1. \A x : Defaults(x) \in ParamValues
    BY DEF Defaults, ParamValues
  <2>2. GPRS \in ParamIds
    BY DEF ParamIds
  <2> QED
    BY <1>4, <2>1, <2>2, WriteBegins DEF InitGprs, WriteBackup, Internal!Next, Savers
<1>5. CASE SaveInternal
  <2>1. ram[VEHICLE] \in ParamValues /\ ram[GPRS] \in ParamValues
    BY <1>5 DEF SaveInternal, NotZero, BeforeRestoring, GprsNotRead, TypeOK, ParamIds, VEHICLE, GPRS
  <2>2. VEHICLE \in ParamIds /\ GPRS \in ParamIds
    BY DEF ParamIds
  <2> QED
    BY <1>5, <2>1, <2>2, WriteBegins DEF SaveInternal, Internal!Next, Savers
<1>6. CASE Login \/ Command
  <2>1. Settings \subseteq ParamValues /\ VEHICLE \in ParamIds
    BY DEF ParamValues, ParamIds
  <2> QED
    BY <1>6, <2>1, WriteBegins DEF Login, Command, Internal!Next, Savers
<1>7. CASE BackupStep \/ Read \/ SaveBackup \/ sysParamsSave \/ Restart \/ UNCHANGED paramVars
  BY <1>7 DEF BackupStep, Read, SaveBackup, WriteBackup, sysParamsSave, Restart, paramVars
<1> QED
  BY ParamsActions, <1>1, <1>2, <1>3, <1>4, <1>5, <1>6, <1>7

THEOREM StoreUsed == ParamsSpec => UsesStore
<1>1. ParamsInductive /\ [ParamsNext]_paramVars => [Internal!Next]_<<stored, writing, saved>>
  BY StoreStep DEF ParamsInductive
<1> QED
  BY <1>1, ParamsAlwaysInductive, PTL DEF ParamsSpec, UsesStore
=============================================================================
