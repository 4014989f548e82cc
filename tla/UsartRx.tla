------------------------------- MODULE UsartRx -------------------------------
(***************************************************************************)
(* The receive path of a USART (tiza_usart_port.c) as the modem's port has *)
(* it: the interrupt stores each byte in one of two half buffers and, when *)
(* that one is full, goes over to the other; the USART task starts, at     *)
(* every tick, the work that hands the bytes to the modem layer.  The work *)
(* runs in the worker task, so the interrupt can come between any two of   *)
(* its steps.  "rx" is RxBuffer with RxCounter, "sw" RxSWFIFO with         *)
(* SwCounter.                                                              *)
(*                                                                         *)
(* The bytes of the line are numbered 1, 2, ... in the order they arrive.  *)
(***************************************************************************)
EXTENDS Integers, Sequences

CONSTANTS HalfBufferSize, \* bytes of a half buffer
          RxTimeout,      \* digests without a byte that end a message
          LastByte        \* bound: the bytes that arrive

ASSUME UsartAssumption ==
  /\ HalfBufferSize \in Nat \ {0}
  /\ RxTimeout \in Nat \ {0}
  /\ LastByte \in Nat

Buffers   == {"rx", "sw"}
Other(b)  == IF b = "rx" THEN "sw" ELSE "rx"

VARIABLES
  bufferType, \* the half the interrupt writes to
  counter,    \* RxCounter and SwCounter
  buffer,     \* the bytes of each half
  procCount,  \* UsartProcCount
  queued,     \* the work is in the work queue
  pc,         \* the step the digest is at
  timeout,    \* its local variables: the time-out was seen, ...
  active,     \* ... the half the switch statement went by, ...
  length,     \* ... the length it gave to the data handler
  pos,        \* how many of these the data handler has read
  arrived,    \* bytes that arrived
  handed,     \* bytes the data handler read, in order
  overrun     \* the interrupt went over to a half still in use

line   == <<bufferType, counter, buffer>>
locals == <<timeout, active, length, pos>>
vars   == <<line, procCount, queued, pc, locals, arrived, handed, overrun>>

Init ==
  /\ bufferType = "rx"
  /\ counter = [b \in Buffers |-> 0]
  /\ buffer = [b \in Buffers |-> [i \in 1 .. HalfBufferSize |-> 0]]
  /\ procCount = 0
  /\ queued = FALSE
  /\ pc = "idle" /\ timeout = FALSE /\ active = "rx" /\ length = 0 /\ pos = 0
  /\ arrived = 0
  /\ handed = <<>>
  /\ overrun = FALSE
---------------------------------------------------------------------------
\* The half the interrupt goes over to is in use: it holds bytes, or the
\* digest has passed its switch statement and works by the old choice.
InUse(b) == counter[b] > 0 \/ pc \notin {"idle", "count", "switch"}

\* GSM_ReceiveHandler while the half in use has room.  Mutant: one byte too many.
StoreOneMore ==
  /\ arrived < LastByte
  /\ counter[bufferType] <= HalfBufferSize
  /\ buffer' = [buffer EXCEPT ![bufferType] =
       [i \in 1 .. counter[bufferType] + 1 |->
          IF i = counter[bufferType] + 1 THEN arrived + 1 ELSE @[i]]]
  /\ counter' = [counter EXCEPT ![bufferType] = @ + 1]
  /\ procCount' = 0
  /\ arrived' = arrived + 1
  /\ UNCHANGED <<bufferType, queued, pc, locals, handed, overrun>>

Store ==
  /\ arrived < LastByte
  /\ counter[bufferType] < HalfBufferSize
  /\ buffer' = [buffer EXCEPT ![bufferType][counter[bufferType] + 1] = arrived + 1]
  /\ counter' = [counter EXCEPT ![bufferType] = @ + 1]
  /\ procCount' = 0
  /\ arrived' = arrived + 1
  /\ UNCHANGED <<bufferType, queued, pc, locals, handed, overrun>>

\* GSM_ReceiveHandler when it is full: the other half starts from its first
\* byte, whatever it holds.
GoOver ==
  /\ arrived < LastByte
  /\ counter[bufferType] >= HalfBufferSize
  /\ LET b == Other(bufferType) IN
       /\ bufferType' = b
       /\ buffer' = [buffer EXCEPT ![b][1] = arrived + 1]
       /\ counter' = [counter EXCEPT ![b] = 1]
       /\ overrun' = (overrun \/ InUse(b))
  /\ procCount' = 0
  /\ arrived' = arrived + 1
  /\ UNCHANGED <<queued, pc, locals, handed>>

ReceiveHandler == Store \/ GoOver

\* USART_LowLevelDataProcess, at a tick: the work is started when a half
\* holds bytes; a work that is still in the queue is not started again.
\* Mutant: only the first half is looked at.
LowLevelDataProcessRxOnly ==
  /\ ~queued /\ counter["rx"] > 0
  /\ queued' = TRUE
  /\ UNCHANGED <<line, procCount, pc, locals, arrived, handed, overrun>>

LowLevelDataProcess ==
  /\ ~queued /\ \E b \in Buffers : counter[b] > 0
  /\ queued' = TRUE
  /\ UNCHANGED <<line, procCount, pc, locals, arrived, handed, overrun>>
---------------------------------------------------------------------------
(* USART_DataDigestHandler, in the worker task.                            *)

\* The increment of UsartProcCount loads and stores: a byte that comes in
\* between has its reset of the count undone.
Load ==
  /\ pc = "idle" /\ queued
  /\ length' = procCount + 1
  /\ pc' = "count"
  /\ UNCHANGED <<line, procCount, queued, timeout, active, pos, arrived, handed, overrun>>

Count ==
  /\ pc = "count"
  /\ timeout' = (length >= RxTimeout)
  /\ procCount' = IF length >= RxTimeout THEN 0 ELSE length
  /\ length' = 0
  /\ pc' = "switch"
  /\ UNCHANGED <<line, queued, active, pos, arrived, handed, overrun>>

\* The half the interrupt writes to is read once, by the switch statement.
Switch ==
  /\ pc = "switch"
  /\ active' = bufferType
  /\ pc' = "older"
  /\ UNCHANGED <<line, procCount, queued, timeout, length, pos, arrived, handed, overrun>>

\* The half the interrupt does not write to was filled before: it goes first.
Older ==
  /\ pc = "older"
  /\ IF counter[Other(active)] > 0
     THEN pc' = "readOlder" /\ length' = counter[Other(active)]
     ELSE pc' = "newer" /\ length' = 0
  /\ pos' = 0
  /\ UNCHANGED <<line, procCount, queued, timeout, active, arrived, handed, overrun>>

\* After a time-out the other half gets what comes next, and this one goes to
\* the handler.  Mutant: the interrupt keeps writing to the half that is read.
NewerStays ==
  /\ pc = "newer"
  /\ IF timeout /\ counter[active] > 0
     THEN pc' = "give" /\ UNCHANGED <<bufferType, queued>>
     ELSE pc' = "idle" /\ queued' = FALSE /\ UNCHANGED bufferType
  /\ UNCHANGED <<counter, buffer, procCount, locals, arrived, handed, overrun>>

Newer ==
  /\ pc = "newer"
  /\ IF timeout /\ counter[active] > 0
     THEN pc' = "give" /\ bufferType' = Other(active) /\ UNCHANGED queued
     ELSE pc' = "idle" /\ queued' = FALSE /\ UNCHANGED bufferType
  /\ UNCHANGED <<counter, buffer, procCount, locals, arrived, handed, overrun>>

\* The count is read again for the call of the handler.
Give ==
  /\ pc = "give"
  /\ length' = counter[active]
  /\ pos' = 0
  /\ pc' = "readNewer"
  /\ UNCHANGED <<line, procCount, queued, timeout, active, arrived, handed, overrun>>

\* The half the data handler is given.
Given == IF pc \in {"readOlder", "clearOlder"} THEN Other(active) ELSE active

\* The data handler reads the buffer in place, a byte at a time.
Read ==
  /\ pc \in {"readOlder", "readNewer"}
  /\ pos < length
  /\ handed' = Append(handed, buffer[Given][pos + 1])
  /\ pos' = pos + 1
  /\ UNCHANGED <<line, procCount, queued, pc, timeout, active, length, arrived, overrun>>

HandlerReturns ==
  /\ pc \in {"readOlder", "readNewer"}
  /\ pos >= length
  /\ pc' = IF pc = "readOlder" THEN "clearOlder" ELSE "clearNewer"
  /\ UNCHANGED <<line, procCount, queued, locals, arrived, handed, overrun>>

\* Mutant: the half that was handed over is not emptied.
ClearForgotten ==
  /\ pc \in {"clearOlder", "clearNewer"}
  /\ IF pc = "clearOlder"
     THEN pc' = "newer" /\ UNCHANGED queued
     ELSE pc' = "idle" /\ queued' = FALSE
  /\ UNCHANGED <<line, procCount, locals, arrived, handed, overrun>>

Clear ==
  /\ pc \in {"clearOlder", "clearNewer"}
  /\ counter' = [counter EXCEPT ![Given] = 0]
  /\ IF pc = "clearOlder"
     THEN pc' = "newer" /\ UNCHANGED queued
     ELSE pc' = "idle" /\ queued' = FALSE
  /\ UNCHANGED <<bufferType, buffer, procCount, locals, arrived, handed, overrun>>
---------------------------------------------------------------------------
Digest == Load \/ Count \/ Switch \/ Older \/ Newer \/ Give \/ Read \/ HandlerReturns \/ Clear

Next == ReceiveHandler \/ LowLevelDataProcess \/ Digest

\* The tick and the worker task go on; bytes need not come.
Spec     == Init /\ [][Next]_vars
FairSpec == Spec /\ WF_vars(LowLevelDataProcess) /\ WF_vars(Digest)
---------------------------------------------------------------------------
\* The types: no step indexes a half beyond its end.
TypeOK ==
  /\ bufferType \in Buffers
  /\ counter \in [Buffers -> 0 .. HalfBufferSize]
  /\ buffer \in [Buffers -> [1 .. HalfBufferSize -> 0 .. LastByte]]
  /\ procCount \in 0 .. RxTimeout
  /\ queued \in BOOLEAN
  /\ pc \in {"idle", "count", "switch", "older", "readOlder", "clearOlder",
             "newer", "give", "readNewer", "clearNewer"}
  /\ timeout \in BOOLEAN
  /\ active \in Buffers
  /\ length \in Nat /\ pos \in Nat
  /\ pc \in {"readOlder", "readNewer"} => length <= HalfBufferSize /\ pos <= length
  /\ arrived \in 0 .. LastByte
  /\ handed \in Seq(0 .. LastByte)
  /\ overrun \in BOOLEAN

\* The bytes of a half the digest has not yet handed over.
Left(b) ==
  CASE pc \in {"readOlder", "readNewer"} /\ b = Given -> counter[b] - pos
    [] pc \in {"clearOlder", "clearNewer"} /\ b = Given -> counter[b] - length
    [] OTHER -> counter[b]

\* As long as the interrupt never went over to a half still in use, every byte
\* is handed over in its place and none is lost, at whichever step of the
\* digest it came.
InOrder ==
  overrun \/ /\ \A i \in 1 .. Len(handed) : handed[i] = i
             /\ Len(handed) + Left("rx") + Left("sw") = arrived

\* Even after an overrun no byte is handed over twice.
HandedOnce ==
  \A i, j \in 1 .. Len(handed) : handed[i] = handed[j] => i = j

\* When the line falls silent, both halves are handed over in the end, and so
\* is the last byte unless a half was overrun: no start of the work that was
\* refused because the work was still in the queue is missed for good.
Drained ==
  arrived = LastByte ~> (\A b \in Buffers : counter[b] = 0) /\ (overrun \/ Len(handed) = LastByte)
=============================================================================
