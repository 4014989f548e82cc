-------------------------------- MODULE Fifo --------------------------------
(***************************************************************************)
(* The ring of fixed-size records of buffer_helper.c (FIFO_*, the records  *)
(* of the last seconds in RAM) and, with the same indices and the same     *)
(* guards, of w25qxx_port.c (FIFO_flash_*, the records of a dead zone in   *)
(* the external flash).  A record is an element of Records; NoRecord is    *)
(* what a block holds that was never written.                              *)
(*                                                                         *)
(* Both rings are used by one task at a time (the 10 ms timer task), so    *)
(* each call is one step.  No caller adds to a full ring: Push is what all *)
(* three of them do, fetch the oldest record into FIFO_temp and then add.  *)
(***************************************************************************)
EXTENDS Integers

CONSTANTS Depth,      \* records the ring holds: 30 in RAM, 1000 in flash
          Records,    \* the records that are put into it
          NoRecord

ASSUME FifoAssumption == /\ Depth \in Nat \ {0}
                         /\ NoRecord \notin Records

VARIABLES Buff, head, tail, counter

fifo == <<Buff, head, tail, counter>>

Places == 0 .. Depth - 1

FIFO_IsEmpty == counter = 0
FIFO_IsFull  == counter = Depth

(* The index after i: the ++ and the comparison with Depth behind it. *)
Following(i) == IF i + 1 >= Depth THEN 0 ELSE i + 1

(***************************************************************************)
(* FIFO_Init and FIFO_flash_init: the ring is empty, its blocks are not    *)
(* erased.                                                                 *)
(***************************************************************************)
FIFO_Init == head = 0 /\ tail = 0 /\ counter = 0

FIFO_Clear == /\ head' = 0 /\ tail' = 0 /\ counter' = 0
              /\ UNCHANGED Buff

(* A bug: the wrap tested with > and not >=. *)
FIFO_AddOneWrapsLate(v) ==
  /\ ~FIFO_IsFull
  /\ Buff' = [Buff EXCEPT ![tail] = v]
  /\ tail' = IF tail + 1 > Depth THEN 0 ELSE tail + 1
  /\ counter' = counter + 1
  /\ UNCHANGED head

FIFO_AddOne(v) ==
  /\ ~FIFO_IsFull
  /\ Buff' = [Buff EXCEPT ![tail] = v]
  /\ tail' = Following(tail)
  /\ counter' = counter + 1
  /\ UNCHANGED head

FIFO_GetOne ==
  /\ ~FIFO_IsEmpty
  /\ head' = Following(head)
  /\ counter' = counter - 1
  /\ UNCHANGED <<Buff, tail>>

(* A bug: the newest record is given up for the new one, not the oldest. *)
PushOutNewest(v) ==
  /\ FIFO_IsFull
  /\ \E last \in Places : /\ Following(last) = tail
                          /\ Buff' = [Buff EXCEPT ![last] = v]
  /\ UNCHANGED <<head, tail, counter>>

(***************************************************************************)
(* FIFO_IsFull, FIFO_GetOne into FIFO_temp, FIFO_AddOne: the oldest record *)
(* makes room, and the counter comes back to Depth.                        *)
(***************************************************************************)
PushOut(v) ==
  /\ FIFO_IsFull
  /\ Buff' = [Buff EXCEPT ![tail] = v]
  /\ head' = Following(head)
  /\ tail' = Following(tail)
  /\ UNCHANGED counter

FIFO_Push(v) == FIFO_AddOne(v) \/ PushOut(v)

FifoInit == FIFO_Init /\ Buff = [i \in Places |-> NoRecord]

FifoNext == (\E v \in Records : FIFO_Push(v)) \/ FIFO_GetOne \/ FIFO_Clear

FifoSpec == FifoInit /\ [][FifoNext]_fifo
-----------------------------------------------------------------------------
(* The k-th place counted from place h: with h = head, the k-th oldest record. *)
At(h, k) == IF h + k - 1 >= Depth THEN h + k - 1 - Depth ELSE h + k - 1

(* The records in the ring, the oldest first. *)
Contents == [k \in 1 .. counter |-> Buff[At(head, k)]]

(***************************************************************************)
(* The indices stay inside the ring and agree with the counter: the next   *)
(* record goes just behind the newest one, and no place in use is blank.   *)
(* (FIFO_AddOne, FIFO_GetOne: three fields, each wrapped on its own.)      *)
(***************************************************************************)
RingOK ==
  /\ Buff \in [Places -> Records \cup {NoRecord}]
  /\ head \in Places
  /\ counter \in 0 .. Depth
  /\ tail = At(head, counter + 1)
  /\ \A k \in 1 .. counter : Buff[At(head, k)] \in Records

(***************************************************************************)
(* The ring is a queue of at most Depth records that gives up its oldest   *)
(* one for a record put into it when it is full, through every wrap of the *)
(* two indices.                                                            *)
(***************************************************************************)
Queue == INSTANCE BoundedQueue WITH queue <- Contents
QueueRefined == Queue!QueueSpec
=============================================================================
