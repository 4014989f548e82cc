--------------------------- MODULE DeadZone_proofs ---------------------------
(***************************************************************************)
(* The ring of records, for every depth: its three fields stay in          *)
(* agreement, and it is a queue that drops its oldest record when one is   *)
(* put into it full.  Then the store and the upload over it, for every     *)
(* depth, sector, interval and number of records and of resets.            *)
(***************************************************************************)
EXTENDS DeadZone, TLAPS

(* The ++ and the wrap behind it keep an index inside the ring. *)
LEMMA FollowingInRing ==
  ASSUME NEW i \in Places
  PROVE  Following(i) \in Places
BY FifoAssumption DEF Following, Places

(* The places counted from any one are inside the ring. *)
LEMMA AtInRing ==
  ASSUME NEW h \in Places, NEW k \in 1 .. Depth + 1
  PROVE  At(h, k) \in Places
BY FifoAssumption DEF At, Places

(* No two of the Depth places counted from any one are the same. *)
LEMMA AtInjective ==
  ASSUME NEW h \in Places, NEW j \in 1 .. Depth, NEW k \in 1 .. Depth, j # k
  PROVE  At(h, j) # At(h, k)
BY FifoAssumption DEF At, Places

(* Adding to a ring that is not full keeps its fields in agreement. *)
LEMMA AddOneKeepsRing ==
  ASSUME RingOK, NEW v \in Records, FIFO_AddOne(v)
  PROVE  /\ RingOK'
         /\ \A k \in 1 .. counter : Buff'[At(head', k)] = Buff[At(head, k)]
         /\ Buff'[At(head', counter + 1)] = v
<1>1. counter \in 0 .. Depth - 1 /\ head \in Places
  BY FifoAssumption DEF RingOK, FIFO_AddOne, FIFO_IsFull
<1>2. \A k \in 1 .. Depth + 1 : At(head', k) = At(head, k)
  BY DEF FIFO_AddOne, At
<1>3. \A k \in 1 .. counter : At(head, k) # tail
  <2> SUFFICES ASSUME NEW k \in 1 .. counter PROVE At(head, k) # At(head, counter + 1)
    BY DEF RingOK
  <2> QED
    BY <1>1, AtInjective, FifoAssumption
<1>4. tail \in Places
  BY <1>1, AtInRing, FifoAssumption DEF RingOK
<1>5. \A k \in 1 .. counter : At(head, k) \in Places
  BY <1>1, AtInRing, FifoAssumption
<1>6. /\ \A k \in 1 .. counter : Buff'[At(head', k)] = Buff[At(head, k)]
      /\ Buff'[At(head', counter + 1)] = v
  BY <1>1, <1>2, <1>3, <1>4, <1>5, FifoAssumption DEF FIFO_AddOne, RingOK
<1>7. tail' = At(head', counter' + 1)
  BY <1>1, FifoAssumption DEF FIFO_AddOne, RingOK, At, Following, Places
<1>8. RingOK'
  <2>1. Buff' \in [Places -> Records \cup {NoRecord}]
    BY DEF FIFO_AddOne, RingOK
  <2>2. head' \in Places /\ counter' \in 0 .. Depth
    BY <1>1, FifoAssumption DEF FIFO_AddOne
  <2>3. \A k \in 1 .. counter' : Buff'[At(head', k)] \in Records
    BY <1>1, <1>6 DEF FIFO_AddOne, RingOK
  <2> QED
    BY <1>7, <2>1, <2>2, <2>3 DEF RingOK
<1> QED
  BY <1>6, <1>8

(* Fetching the oldest record moves every other one a place forward. *)
LEMMA GetOneKeepsRing ==
  ASSUME RingOK, FIFO_GetOne
  PROVE  RingOK' /\ \A k \in 1 .. counter - 1 : Buff'[At(head', k)] = Buff[At(head, k + 1)]
<1>1. counter \in 1 .. Depth /\ head \in Places /\ counter' = counter - 1
  BY FifoAssumption DEF RingOK, FIFO_GetOne, FIFO_IsEmpty
<1>2. \A k \in 1 .. counter : At(head', k) = At(head, k + 1)
  BY <1>1, FifoAssumption DEF FIFO_GetOne, At, Following, Places
<1>3. \A k \in 1 .. counter - 1 : Buff'[At(head', k)] = Buff[At(head, k + 1)]
  BY <1>1, <1>2 DEF FIFO_GetOne
<1>4. head' \in Places
  BY <1>1, FollowingInRing DEF FIFO_GetOne
<1>5. tail' = At(head', counter' + 1)
  BY <1>1, <1>2 DEF FIFO_GetOne, RingOK
<1>6. \A k \in 1 .. counter' : Buff'[At(head', k)] \in Records
  BY <1>1, <1>3 DEF RingOK
<1>7. counter' \in 0 .. Depth /\ Buff' \in [Places -> Records \cup {NoRecord}]
  BY <1>1, FifoAssumption DEF FIFO_GetOne, RingOK
<1> QED
  BY <1>3, <1>4, <1>5, <1>6, <1>7 DEF RingOK

(* Pushing out the oldest record writes the new one where it was. *)
LEMMA PushOutKeepsRing ==
  ASSUME RingOK, NEW v \in Records, PushOut(v)
  PROVE  /\ RingOK'
         /\ \A k \in 1 .. Depth - 1 : Buff'[At(head', k)] = Buff[At(head, k + 1)]
         /\ Buff'[At(head', Depth)] = v
<1>1. counter = Depth /\ counter' = Depth /\ head \in Places
  BY DEF RingOK, PushOut, FIFO_IsFull
<1>2. tail = At(head, 1)
  BY <1>1, FifoAssumption DEF RingOK, At, Places
<1>3. \A k \in 1 .. Depth - 1 : At(head', k) = At(head, k + 1)
  BY <1>1, FifoAssumption DEF PushOut, At, Following, Places
<1>4. At(head', Depth) = tail
  BY <1>1, <1>2, FifoAssumption DEF PushOut, At, Following, Places
<1>5. \A k \in 1 .. Depth - 1 : At(head, k + 1) # tail /\ At(head, k + 1) \in Places
  BY <1>1, <1>2, AtInjective, AtInRing, FifoAssumption
<1>6. tail \in Places
  BY <1>1, <1>2, AtInRing, FifoAssumption
<1>7. /\ \A k \in 1 .. Depth - 1 : Buff'[At(head', k)] = Buff[At(head, k + 1)]
      /\ Buff'[At(head', Depth)] = v
  BY <1>3, <1>4, <1>5, <1>6 DEF PushOut, RingOK
<1>8. RingOK'
  <2>1. Buff' \in [Places -> Records \cup {NoRecord}]
    BY DEF PushOut, RingOK
  <2>2. head' \in Places
    BY <1>1, FollowingInRing DEF PushOut
  <2>3. tail' = At(head', counter' + 1)
    BY <1>1, <1>2, FifoAssumption DEF PushOut, At, Following, Places
  <2>4. \A k \in 1 .. Depth : Buff'[At(head', k)] \in Records
    <3> SUFFICES ASSUME NEW k \in 1 .. Depth PROVE Buff'[At(head', k)] \in Records
      OBVIOUS
    <3>1. CASE k = Depth
      BY <1>7, <3>1
    <3>2. CASE k # Depth
      BY <1>1, <1>7, <3>2, FifoAssumption DEF RingOK
    <3> QED
      BY <3>1, <3>2
  <2> QED
    BY <1>1, <2>1, <2>2, <2>3, <2>4, FifoAssumption DEF RingOK
<1> QED
  BY <1>7, <1>8

LEMMA ClearKeepsRing ==
  ASSUME RingOK, FIFO_Clear
  PROVE  RingOK'
BY FifoAssumption DEF RingOK, FIFO_Clear, At, Places

LEMMA InitRing == FifoInit => RingOK
BY FifoAssumption DEF FifoInit, FIFO_Init, RingOK, At, Places

LEMMA NextKeepsRing == RingOK /\ [FifoNext]_fifo => RingOK'
<1> SUFFICES ASSUME RingOK, [FifoNext]_fifo PROVE RingOK'
  OBVIOUS
<1>1. CASE UNCHANGED fifo
  BY <1>1 DEF fifo, RingOK, At
<1>2. CASE FifoNext
  BY <1>2, AddOneKeepsRing, PushOutKeepsRing, GetOneKeepsRing, ClearKeepsRing
     DEF FifoNext, FIFO_Push
<1> QED
  BY <1>1, <1>2

(***************************************************************************)
(* The indices and the counter of the ring always agree, and every place   *)
(* in use holds a record.                                                  *)
(***************************************************************************)
THEOREM RingAgrees == FifoSpec => []RingOK
BY InitRing, NextKeepsRing, PTL DEF FifoSpec

-----------------------------------------------------------------------------
(* The contents are a sequence of records. *)
LEMMA ContentsIsSeq ==
  ASSUME RingOK
  PROVE  Contents \in Queue!Seq(Records) /\ Queue!Len(Contents) = counter
BY DEF Contents, RingOK

LEMMA IsAppend ==
  ASSUME NEW s \in Queue!Seq(Records), NEW t \in Queue!Seq(Records), NEW v \in Records,
         Queue!Len(t) = Queue!Len(s) + 1,
         \A k \in 1 .. Queue!Len(s) : t[k] = s[k],
         t[Queue!Len(s) + 1] = v
  PROVE  t = Queue!Append(s, v)
OBVIOUS

(***************************************************************************)
(* The ring implements the queue that drops its oldest record: each call   *)
(* is one step of the queue.                                               *)
(***************************************************************************)
THEOREM ImplementsQueue == FifoSpec => QueueRefined
<1>1. FifoInit => Queue!QueueInit
  BY DEF FifoInit, FIFO_Init, Contents, Queue!QueueInit
<1>2. RingOK /\ RingOK' /\ [FifoNext]_fifo => [Queue!QueueNext]_Contents
  <2> SUFFICES ASSUME RingOK, RingOK', [FifoNext]_fifo
               PROVE  Queue!QueueNext \/ Contents' = Contents
    OBVIOUS
  <2>1. CASE UNCHANGED fifo
    BY <2>1 DEF fifo, Contents, At
  <2>2. ASSUME NEW v \in Records, FIFO_AddOne(v) PROVE Queue!Put(v)
    <3>1. counter \in 0 .. Depth /\ counter < Depth /\ counter' = counter + 1
      BY <2>2, FifoAssumption DEF FIFO_AddOne, FIFO_IsFull, RingOK
    <3>2. /\ \A k \in 1 .. counter : Contents'[k] = Contents[k]
          /\ Contents'[counter + 1] = v
      BY <2>2, <3>1, AddOneKeepsRing DEF Contents
    <3>3. Contents' \in Queue!Seq(Records) /\ Queue!Len(Contents') = counter'
      BY DEF Contents, RingOK
    <3>4. Contents' = Queue!Append(Contents, v)
      BY <3>1, <3>2, <3>3, ContentsIsSeq, IsAppend
    <3> QED
      BY <3>1, <3>4, ContentsIsSeq DEF Queue!Put
  <2>3. ASSUME NEW v \in Records, PushOut(v) PROVE Queue!Push(v)
    <3>1. counter = Depth /\ counter' = Depth
      BY <2>3 DEF PushOut, FIFO_IsFull
    <3>2. /\ \A k \in 1 .. Depth - 1 : Contents'[k] = Contents[k + 1]
          /\ Contents'[Depth] = v
      BY <2>3, <3>1, PushOutKeepsRing, FifoAssumption DEF Contents
    <3>3. Contents' \in Queue!Seq(Records) /\ Queue!Len(Contents') = counter'
      BY DEF Contents, RingOK
    <3>4. Contents' = Queue!Append(Queue!Tail(Contents), v)
      <4>1. /\ Queue!Tail(Contents) \in Queue!Seq(Records)
            /\ Queue!Len(Queue!Tail(Contents)) = Depth - 1
            /\ \A k \in 1 .. Depth - 1 : Queue!Tail(Contents)[k] = Contents[k + 1]
        BY <3>1, ContentsIsSeq, FifoAssumption
      <4> QED
        BY <3>1, <3>2, <3>3, <4>1, IsAppend, FifoAssumption
    <3> QED
      BY <3>1, <3>4, ContentsIsSeq DEF Queue!Push
  <2>4. ASSUME FIFO_GetOne PROVE Queue!Take
    BY <2>4, GetOneKeepsRing, ContentsIsSeq DEF Queue!Take, FIFO_GetOne, FIFO_IsEmpty, Contents, RingOK
  <2>5. ASSUME FIFO_Clear PROVE Queue!Reset
    BY <2>5 DEF Queue!Reset, FIFO_Clear, Contents
  <2> QED
    BY <2>1, <2>2, <2>3, <2>4, <2>5 DEF FifoNext, FIFO_Push, Queue!QueueNext
<1> QED
  BY <1>1, <1>2, RingAgrees, PTL DEF FifoSpec, QueueRefined, Queue!QueueSpec
-----------------------------------------------------------------------------
(* Arithmetic round the ring, for the places of a run of records.          *)

(* Counting from the next place is counting one further. *)
LEMMA AtFollowing ==
  ASSUME NEW h \in Places, NEW k \in 1 .. Depth
  PROVE  At(Following(h), k) = At(h, k + 1)
BY FifoAssumption DEF At, Following, Places

LEMMA AtOne ==
  ASSUME NEW h \in Places
  PROVE  At(h, 1) = h /\ At(h, Depth + 1) = h
BY FifoAssumption DEF At, Places

(* Every place is among the Depth places counted from any one. *)
LEMMA AtOnto ==
  ASSUME NEW h \in Places, NEW p \in Places
  PROVE  \E k \in 1 .. Depth : At(h, k) = p
<1> DEFINE k == IF p >= h THEN p - h + 1 ELSE p - h + 1 + Depth
<1>1. k \in 1 .. Depth /\ At(h, k) = p
  BY FifoAssumption DEF At, Places
<1> QED
  BY <1>1

(* The places of c records, the oldest of them at h. *)
Window(h, c) == {At(h, k) : k \in 1 .. c}

LEMMA WindowInRing ==
  ASSUME NEW h \in Places, NEW c \in 0 .. Depth
  PROVE  Window(h, c) \subseteq Places
BY AtInRing, FifoAssumption DEF Window

LEMMA WindowFull ==
  ASSUME NEW h \in Places
  PROVE  Window(h, Depth) = Places
BY AtOnto, WindowInRing, FifoAssumption DEF Window

(* Fetching the oldest record takes its place out, and no other. *)
LEMMA WindowGetOne ==
  ASSUME NEW h \in Places, NEW c \in 1 .. Depth
  PROVE  /\ h \in Window(h, c) /\ h \notin Window(Following(h), c - 1)
         /\ Window(Following(h), c - 1) \subseteq Window(h, c)
         /\ Window(h, c) \subseteq Window(Following(h), c - 1) \cup {h}
<1>1. \A k \in 1 .. c - 1 : k \in 1 .. Depth /\ k + 1 \in 2 .. c
  BY FifoAssumption
<1>2. \A k \in 1 .. c - 1 : At(Following(h), k) = At(h, k + 1)
  BY <1>1, AtFollowing
<1>3. h = At(h, 1) /\ 1 \in 1 .. c
  BY AtOne, FifoAssumption
<1>4. \A k \in 2 .. c : At(h, k) # h
  <2> SUFFICES ASSUME NEW k \in 2 .. c PROVE At(h, k) # At(h, 1)
    BY <1>3
  <2>1. k \in 1 .. Depth /\ 1 \in 1 .. Depth /\ k # 1
    BY FifoAssumption
  <2> QED
    BY <2>1, AtInjective
<1>5. h \notin Window(Following(h), c - 1)
  BY <1>1, <1>2, <1>4 DEF Window
<1>6. Window(Following(h), c - 1) \subseteq Window(h, c)
  BY <1>1, <1>2, FifoAssumption DEF Window
<1>7. Window(h, c) \subseteq Window(Following(h), c - 1) \cup {h}
  <2> SUFFICES ASSUME NEW k \in 1 .. c, k # 1
               PROVE  At(h, k) \in Window(Following(h), c - 1)
    BY <1>3 DEF Window
  <2>1. k - 1 \in 1 .. c - 1 /\ (k - 1) + 1 = k
    BY FifoAssumption
  <2>2. At(Following(h), k - 1) = At(h, k)
    BY <1>2, <2>1
  <2> QED
    BY <2>1, <2>2 DEF Window
<1> QED
  BY <1>3, <1>5, <1>6, <1>7 DEF Window

(* A record is added behind the newest one, in a place not in use. *)
LEMMA WindowAddOne ==
  ASSUME NEW h \in Places, NEW c \in 0 .. Depth, c < Depth
  PROVE  /\ At(h, c + 1) \notin Window(h, c)
         /\ Window(h, c + 1) = Window(h, c) \cup {At(h, c + 1)}
<1>1. c + 1 \in 1 .. Depth /\ \A k \in 1 .. c : k \in 1 .. Depth /\ k # c + 1
  BY FifoAssumption
<1>2. At(h, c + 1) \notin Window(h, c)
  BY <1>1, AtInjective DEF Window
<1>3. \A k \in 1 .. c + 1 : k \in 1 .. c \/ k = c + 1
  BY FifoAssumption
<1>4. \A k \in 1 .. c : k \in 1 .. c + 1
  BY FifoAssumption
<1>5. Window(h, c + 1) = Window(h, c) \cup {At(h, c + 1)}
  BY <1>1, <1>3, <1>4 DEF Window
<1> QED
  BY <1>2, <1>5
-----------------------------------------------------------------------------
(* The types.                                                              *)

(* The fields of the ring in RAM, one by one. *)
RingTyped ==
  /\ head \in Places /\ tail \in Places /\ counter \in 0 .. Depth
  /\ offsetdata \in BOOLEAN /\ IsFinishSend \in BOOLEAN
  /\ tail = At(head, counter + 1)

(* A record is stored while there is one left, and the configuration of a  *)
(* ring whose upload has ended is never saved.                             *)
StoreOK ==
  /\ pc = "program" => stored < MaxRecords
  /\ pc \in {"erase", "mark", "fields"} => ~IsFinishSend

LEMMA RingTypes ==
  /\ RingFields \in Fields /\ FieldsAgree(RingFields) <=> RingTyped
  /\ (RingFields \in Fields /\ FieldsAgree(RingFields) <=> RingTyped)'
BY DEF RingFields, Fields, FieldsAgree, RingTyped

LEMMA ConfigTypes ==
  ASSUME TypeOK, config \in Fields
  PROVE  /\ config.head \in Places /\ config.tail \in Places /\ config.counter \in 0 .. Depth
         /\ config.reissue \in BOOLEAN /\ config.finish = FALSE
         /\ config.tail = At(config.head, config.counter + 1)
BY DEF TypeOK, Fields, FieldsAgree

LEMMA EmptyRingTypes == EmptyRing \in Fields /\ FieldsAgree(EmptyRing) /\ ~EmptyRing.finish
BY FifoAssumption DEF EmptyRing, Fields, FieldsAgree, At, Places

(* What the ring takes over from fields that are in order is in order. *)
LEMMA BecomesTyped ==
  ASSUME NEW f \in Fields, FieldsAgree(f), Becomes(f)
  PROVE  RingTyped'
BY DEF Becomes, Fields, FieldsAgree, RingTyped, At

(* What DoTasks reads back is in order, and is not an ended upload unless  *)
(* the ring in RAM is one.                                                 *)
LEMMA LoadedTyped ==
  ASSUME TypeOK
  PROVE  Loaded \in Fields /\ FieldsAgree(Loaded)
<1>1. RingFields \in Fields /\ FieldsAgree(RingFields)
  BY DEF TypeOK
<1>2. config \in Fields => FieldsAgree(config)
  BY DEF TypeOK
<1>3. config \in Fields \cup {Erased, MarkOnly}
  BY DEF TypeOK
<1>4. ReadBack \in Fields /\ FieldsAgree(ReadBack)
  <2>1. CASE ~Reads \/ config = Erased
    <3>1. ReadBack = RingFields
      BY <2>1, DeadZoneAssumption DEF ReadBack
    <3> QED
      BY <1>1, <3>1
  <2>2. CASE Reads /\ config = MarkOnly
    <3>1. ReadBack = EmptyRing
      BY <2>2, DeadZoneAssumption DEF ReadBack
    <3> QED
      BY <3>1, EmptyRingTypes
  <2>3. CASE Reads /\ config \in Fields
    <3>1. ReadBack = config
      BY <2>3, DeadZoneAssumption DEF ReadBack
    <3> QED
      BY <1>2, <2>3, <3>1
  <2> QED
    BY <1>3, <2>1, <2>2, <2>3
<1> QED
  BY <1>4, EmptyRingTypes DEF Loaded

(* A record placed at the tail leaves the fields in agreement. *)
LEMMA PlacedTyped ==
  ASSUME TypeOK, NEW blocks \in [Places -> Records \cup {NoRecord}],
         Placed(blocks), stored < MaxRecords, IsFinishSend' = FALSE
  PROVE  /\ RingTyped'
         /\ Buff' \in [Places -> Records \cup {NoRecord}]
         /\ stored' \in 0 .. MaxRecords /\ stored + 1 \in Records
<1>1. RingTyped
  BY RingTypes DEF TypeOK
<1>2. stored + 1 \in Records
  BY DeadZoneAssumption DEF TypeOK
<1>3. stored' \in 0 .. MaxRecords
  BY DeadZoneAssumption DEF Placed, TypeOK
<1>4. Buff' \in [Places -> Records \cup {NoRecord}]
  BY <1>2 DEF Placed
<1>5. head' \in Places /\ tail' \in Places /\ counter' \in 0 .. Depth
  BY <1>1, FollowingInRing, FifoAssumption DEF Placed, RingTyped, FIFO_IsFull
<1>6. tail' = At(head', counter' + 1)
  BY <1>1, FifoAssumption DEF Placed, RingTyped, FIFO_IsFull, At, Following, Places
<1> QED
  BY <1>2, <1>3, <1>4, <1>5, <1>6 DEF Placed, RingTyped

LEMMA InitTypes == Init => TypeOK /\ StoreOK
<1> SUFFICES ASSUME Init PROVE TypeOK /\ StoreOK
  OBVIOUS
<1>1. FlagsOK
  BY Zenon DEF Init, FlagsOK
<1>2. RingTyped
  <2>1. offsetdata \in BOOLEAN /\ IsFinishSend \in BOOLEAN
    BY Zenon DEF Init
  <2>2. head \in Places /\ tail \in Places /\ counter \in 0 .. Depth
        /\ tail = At(head, counter + 1)
    BY FifoAssumption DEF Init, FIFO_Init, At, Places
  <2> QED
    BY <2>1, <2>2 DEF RingTyped
<1>3. Blank \in [Places -> Records \cup {NoRecord}]
  BY DEF Blank
<1> QED
  BY <1>1, <1>2, <1>3, RingTypes, DeadZoneAssumption DEF Init, TypeOK, StoreOK

(* What a step leaves to be shown of the types. *)
LEMMA TypesPut ==
  ASSUME RingTyped', FlagsOK',
         Buff' \in [Places -> Records \cup {NoRecord}],
         config' \in Fields \cup {Erased, MarkOnly},
         config' \in Fields => FieldsAgree(config') /\ ~config'.finish,
         Reissue_Counter' \in 0 .. REISSUEDATA_COUNT - 1,
         flashbuf_2index' \in 0 .. 1,
         sys_status' \in {"INIT", "LOGIN", "LOGIN_ACK", "STORAGE"},
         pc' \in {"idle", "program", "erase", "mark", "fields", "rest"},
         WriteBuffer' \in [Places -> Records \cup {NoRecord}],
         stored' \in 0 .. MaxRecords, resets' \in 0 .. MaxResets,
         sent' \in [Records -> Nat]
  PROVE  TypeOK'
BY RingTypes DEF TypeOK, FieldsAgree, At

(* The steps that change neither the ring nor the saved configuration. *)
Quiet == \/ DoTasksCounts \/ RealDataTick \/ ModemStop \/ ModemRestart
         \/ Connect \/ LoginAck \/ SleepCalledOff \/ SleepWake

LEMMA QuietFrame ==
  ASSUME Quiet
  PROVE  /\ UNCHANGED <<head, tail, counter, Buff, offsetdata, IsFinishSend, tmrDeadData,
                        flashbuf_2index, WriteBuffer, config, stored, sent, torn>>
         /\ pc = "idle" /\ pc' \in {"idle", "rest"}
BY DEF Quiet, DoTasksCounts, RealDataTick, ModemStop, ModemRestart, Connect, LoginAck,
       SleepCalledOff, SleepWake, ring, fifo

LEMMA QuietFlags ==
  ASSUME FlagsOK, Quiet
  PROVE  FlagsOK'
<1>1. CASE DoTasksCounts
  BY <1>1, Zenon DEF DoTasksCounts, FlagsOK
<1>2. CASE RealDataTick
  BY <1>2, Zenon DEF RealDataTick, FlagsOK
<1>3. CASE ModemStop
  BY <1>3, Zenon DEF ModemStop, ring, FlagsOK
<1>4. CASE ModemRestart
  BY <1>4, Zenon DEF ModemRestart, ring, FlagsOK
<1>5. CASE Connect
  BY <1>5, Zenon DEF Connect, ring, FlagsOK
<1>6. CASE LoginAck
  BY <1>6, Zenon DEF LoginAck, ring, FlagsOK
<1>7. CASE SleepCalledOff
  BY <1>7, Zenon DEF SleepCalledOff, ring, FlagsOK
<1>8. CASE SleepWake
  BY <1>8, Zenon DEF SleepWake, ring, FlagsOK
<1> QED
  BY <1>1, <1>2, <1>3, <1>4, <1>5, <1>6, <1>7, <1>8, Zenon DEF Quiet

LEMMA QuietTypes ==
  ASSUME TypeOK, StoreOK, Quiet
  PROVE  TypeOK' /\ StoreOK'
<1>1. FlagsOK'
  BY QuietFlags DEF TypeOK
<1>2. RingTyped'
  BY QuietFrame, RingTypes DEF TypeOK, RingTyped, At
<1>3. /\ Reissue_Counter' \in 0 .. REISSUEDATA_COUNT - 1
      /\ sys_status' \in {"INIT", "LOGIN", "LOGIN_ACK", "STORAGE"}
      /\ resets' \in 0 .. MaxResets
  <2>1. CASE DoTasksCounts
    BY <2>1, DeadZoneAssumption DEF TypeOK, DoTasksCounts
  <2>2. CASE RealDataTick
    BY <2>2 DEF TypeOK, RealDataTick
  <2>3. CASE ModemStop
    BY <2>3 DEF TypeOK, ModemStop, ring
  <2>4. CASE ModemRestart
    BY <2>4 DEF TypeOK, ModemRestart, ring
  <2>5. CASE Connect
    BY <2>5 DEF TypeOK, Connect, ring
  <2>6. CASE LoginAck
    BY <2>6 DEF TypeOK, LoginAck, ring
  <2>7. CASE SleepCalledOff
    BY <2>7, DeadZoneAssumption DEF TypeOK, SleepCalledOff, ring
  <2>8. CASE SleepWake
    BY <2>8, DeadZoneAssumption DEF TypeOK, SleepWake, ring
  <2> QED
    BY <2>1, <2>2, <2>3, <2>4, <2>5, <2>6, <2>7, <2>8 DEF Quiet
<1>4. StoreOK'
  BY QuietFrame DEF StoreOK
<1>5. TypeOK'
  BY <1>1, <1>2, <1>3, QuietFrame, TypesPut DEF TypeOK
<1> QED
  BY <1>4, <1>5

(* DoTasks up to the configuration: storing, with or without an erase. *)
LEMMA StoreTypes ==
  ASSUME TypeOK, StoreOK, StoreFails \/ StoreInBlank \/ EraseSector \/ ProgramSector
  PROVE  TypeOK' /\ StoreOK'
<1>1. RingTyped /\ Buff \in [Places -> Records \cup {NoRecord}]
      /\ WriteBuffer \in [Places -> Records \cup {NoRecord}]
  BY RingTypes DEF TypeOK
<1>2. 0 \in 0 .. REISSUEDATA_COUNT - 1
  BY DeadZoneAssumption
<1>3. Blank \in [Places -> Records \cup {NoRecord}]
  BY DEF Blank
<1>4. CASE StoreFails
  <2>1. FlagsOK'
    BY <1>4, Zenon DEF StoreFails, StoreBegins, TypeOK, FlagsOK
  <2>2. RingTyped'
    BY <1>1, <1>4 DEF StoreFails, RingTyped, fifo, At
  <2>3. TypeOK'
    BY <1>2, <1>4, <2>1, <2>2, TypesPut DEF StoreFails, StoreBegins, TypeOK, fifo
  <2> QED
    BY <1>4, <2>3 DEF StoreFails, StoreOK
<1>5. CASE StoreInBlank
  <2>1. FlagsOK'
    BY <1>5, Zenon DEF StoreInBlank, StoreBegins, TypeOK, FlagsOK
  <2>2. /\ RingTyped' /\ Buff' \in [Places -> Records \cup {NoRecord}]
        /\ stored' \in 0 .. MaxRecords
    BY <1>1, <1>5, PlacedTyped DEF StoreInBlank
  <2>3. TypeOK'
    BY <1>2, <1>5, <2>1, <2>2, TypesPut DEF StoreInBlank, StoreBegins, TypeOK
  <2> QED
    BY <1>5, <2>3 DEF StoreInBlank, StoreOK
<1>6. CASE EraseSector
  <2>1. FlagsOK'
    BY <1>6, Zenon DEF EraseSector, StoreBegins, TypeOK, FlagsOK
  <2>2. RingTyped'
    BY <1>1, <1>6 DEF EraseSector, RingTyped, At
  <2>3. Buff' \in [Places -> Records \cup {NoRecord}]
    BY <1>1, <1>6 DEF EraseSector
  <2>4. TypeOK'
    BY <1>1, <1>2, <1>6, <2>1, <2>2, <2>3, TypesPut DEF EraseSector, StoreBegins, TypeOK
  <2> QED
    BY <1>6, <2>4 DEF EraseSector, StoreOK
<1>7. CASE ProgramSector
  <2>1. FlagsOK'
    BY <1>7, Zenon DEF ProgramSector, TypeOK, FlagsOK
  <2>2. /\ RingTyped' /\ Buff' \in [Places -> Records \cup {NoRecord}]
        /\ stored' \in 0 .. MaxRecords
    BY <1>1, <1>7, PlacedTyped DEF ProgramSector, StoreOK
  <2>3. TypeOK'
    BY <1>3, <1>7, <2>1, <2>2, TypesPut DEF ProgramSector, TypeOK
  <2> QED
    BY <1>7, <2>3 DEF ProgramSector, StoreOK
<1> QED
  BY <1>4, <1>5, <1>6, <1>7

LEMMA SaveTypes ==
  ASSUME TypeOK, StoreOK, SaveConfig
  PROVE  TypeOK' /\ StoreOK'
<1>1. FlagsOK'
  BY Zenon DEF SaveConfig, TypeOK, FlagsOK
<1>2. RingTyped'
  BY RingTypes DEF SaveConfig, TypeOK, RingTyped, fifo, At
<1>3. /\ config' \in Fields \cup {Erased, MarkOnly}
      /\ config' \in Fields => FieldsAgree(config') /\ ~config'.finish
  <2>1. CASE pc = "erase"
    BY <2>1, DeadZoneAssumption DEF SaveConfig
  <2>2. CASE pc = "mark"
    BY <2>2, DeadZoneAssumption DEF SaveConfig
  <2>3. CASE pc = "fields"
    <3>1. config' = RingFields /\ ~IsFinishSend
      BY <2>3 DEF SaveConfig, StoreOK
    <3>2. RingFields \in Fields /\ FieldsAgree(RingFields) /\ ~RingFields.finish
      BY <3>1 DEF TypeOK, RingFields
    <3> QED
      BY <3>1, <3>2
  <2> QED
    BY <2>1, <2>2, <2>3 DEF SaveConfig
<1>4. pc' \in {"mark", "fields", "rest"} /\ (pc' \in {"mark", "fields"} => ~IsFinishSend)
  BY DEF SaveConfig, StoreOK
<1>5. TypeOK'
  BY <1>1, <1>2, <1>3, <1>4, TypesPut DEF SaveConfig, TypeOK, fifo
<1> QED
  BY <1>4, <1>5 DEF SaveConfig, StoreOK

LEMMA RestTypes ==
  ASSUME TypeOK, StoreOK, DoTasksRest
  PROVE  TypeOK' /\ StoreOK'
<1>1. FlagsOK'
  BY Zenon DEF DoTasksRest, TypeOK, FlagsOK
<1>2. RingTyped'
  <2>1. CASE Finished
    BY <2>1, EmptyRingTypes, BecomesTyped DEF DoTasksRest
  <2>2. CASE ~Finished
    BY <2>2, LoadedTyped, BecomesTyped DEF DoTasksRest
  <2> QED
    BY <2>1, <2>2
<1>3. config' \in {config, Erased}
  BY DEF DoTasksRest
<1>4. TypeOK'
  BY <1>1, <1>2, <1>3, TypesPut, DeadZoneAssumption DEF DoTasksRest, TypeOK
<1> QED
  BY <1>4 DEF DoTasksRest, StoreOK

LEMMA UploadTypes ==
  ASSUME TypeOK, StoreOK, UploadOne \/ UploadEnds
  PROVE  TypeOK' /\ StoreOK'
<1>1. RingTyped
  BY RingTypes DEF TypeOK
<1>2. CASE UploadOne
  <2>1. FlagsOK'
    BY <1>2, Zenon DEF UploadOne, TypeOK, FlagsOK
  <2>2. RingTyped'
    <3>1. counter \in 1 .. Depth /\ head \in Places
      BY <1>1, <1>2, FifoAssumption DEF UploadOne, FIFO_GetOne, FIFO_IsEmpty, RingTyped
    <3>2. At(Following(head), counter) = At(head, counter + 1)
      BY <3>1, AtFollowing
    <3>3. head' \in Places /\ counter' \in 0 .. Depth
      BY <1>2, <3>1, FollowingInRing, FifoAssumption DEF UploadOne, FIFO_GetOne
    <3>4. tail' = At(head', counter' + 1)
      BY <1>1, <1>2, <3>1, <3>2, FifoAssumption DEF UploadOne, FIFO_GetOne, RingTyped
    <3> QED
      BY <1>1, <1>2, <3>3, <3>4 DEF UploadOne, FIFO_GetOne, RingTyped
  <2>3. sent' \in [Records -> Nat]
    BY <1>2 DEF UploadOne, TypeOK
  <2>4. TypeOK'
    BY <1>2, <2>1, <2>2, <2>3, TypesPut DEF UploadOne, FIFO_GetOne, TypeOK
  <2> QED
    BY <1>2, <2>4 DEF UploadOne, StoreOK
<1>3. CASE UploadEnds
  <2>1. FlagsOK'
    BY <1>3, Zenon DEF UploadEnds, TypeOK, FlagsOK
  <2>2. IsFinishSend' \in BOOLEAN
    <3>1. IsFinishSend \in BOOLEAN
      BY <1>1, Zenon DEF RingTyped
    <3> QED
      BY <1>3, <3>1, Zenon DEF UploadEnds
  <2>3. RingTyped'
    BY <1>1, <1>3, <2>2 DEF UploadEnds, RingTyped, fifo, At
  <2>4. flashbuf_2index' \in 0 .. 1
    BY <1>3 DEF UploadEnds, TypeOK
  <2>5. TypeOK'
    BY <1>3, <2>1, <2>3, <2>4, TypesPut DEF UploadEnds, TypeOK, fifo
  <2> QED
    BY <1>3, <2>5 DEF UploadEnds, StoreOK
<1> QED
  BY <1>2, <1>3

LEMMA ResetTypes ==
  ASSUME TypeOK, StoreOK, Reset
  PROVE  TypeOK' /\ StoreOK'
<1>1. FlagsOK'
  BY Zenon DEF Reset, TypeOK, FlagsOK
<1>2. RingTyped'
  BY EmptyRingTypes, BecomesTyped DEF Reset
<1>3. Blank \in [Places -> Records \cup {NoRecord}]
  BY DEF Blank
<1>4. TypeOK'
  BY <1>1, <1>2, <1>3, TypesPut, DeadZoneAssumption DEF Reset, TypeOK
<1> QED
  BY <1>4 DEF Reset, StoreOK

LEMMA NextCases ==
  ASSUME Next
  PROVE  \/ Quiet \/ StoreFails \/ StoreInBlank \/ EraseSector \/ ProgramSector
         \/ SaveConfig \/ DoTasksRest \/ UploadOne \/ UploadEnds \/ Reset
BY DEF Next, DoTasks, Quiet

LEMMA StutterTypes ==
  ASSUME TypeOK, StoreOK, UNCHANGED vars
  PROVE  TypeOK' /\ StoreOK'
<1>1. FlagsOK'
  BY Zenon DEF vars, ram, TypeOK, FlagsOK
<1>2. RingTyped'
  BY RingTypes DEF vars, ram, TypeOK, RingTyped, At
<1>3. TypeOK'
  BY <1>1, <1>2, TypesPut DEF vars, ram, TypeOK
<1> QED
  BY <1>3 DEF vars, ram, StoreOK

LEMMA NextTypes == TypeOK /\ StoreOK /\ [Next]_vars => TypeOK' /\ StoreOK'
BY NextCases, QuietTypes, StoreTypes, SaveTypes, RestTypes, UploadTypes, ResetTypes,
   StutterTypes

(***************************************************************************)
(* The ring in RAM, its saved copy and every flag keep their types, and    *)
(* the three index fields agree in both, in every state.                   *)
(***************************************************************************)
THEOREM TypesHold == Spec => []TypeOK
BY InitTypes, NextTypes, PTL DEF Spec
-----------------------------------------------------------------------------
(***************************************************************************)
(* The inductive invariant.  While a sector is rewritten, what its blocks  *)
(* hold is in the sector buffer.                                           *)
(***************************************************************************)
Blocks == IF pc = "program" THEN WriteBuffer ELSE Buff

InUse == Window(head, counter)
SavedInUse == Window(config.head, config.counter)

(* A block of the flash is blank or what it should be, and each record is  *)
(* in one block.                                                           *)
BlocksOK ==
  /\ \A p \in Places : Buff[p] \in {NoRecord, Blocks[p]}
  /\ \A p \in Places : Blocks[p] \in Records => Blocks[p] <= stored
  /\ \A p \in Places, q \in Places : Blocks[p] \in Records /\ Blocks[p] = Blocks[q] => p = q

(* No record that the ring or the saved configuration leads to was sent. *)
Unsent(w) == \A p \in w : Blocks[p] \in Records => sent[Blocks[p]] = 0

SentOK ==
  /\ \A r \in Records : sent[r] <= 1 /\ (sent[r] > 0 => r <= stored)
  /\ Unsent(InUse)
  /\ config \in Fields => Unsent(SavedInUse)

(* The c records from place h are in the order of their store, behind all  *)
(* that were sent.                                                         *)
Ordered(h, c) ==
  /\ \A j \in 1 .. c : /\ Blocks[At(h, j)] \in Records
                       /\ \A r \in Records : sent[r] > 0 => r < Blocks[At(h, j)]
  /\ \A j \in 1 .. c, k \in 1 .. c : j < k => Blocks[At(h, j)] < Blocks[At(h, k)]

OrderOK ==
  ~torn => /\ Ordered(head, counter)
           /\ config \in Fields /\ config.reissue /\ pc # "erase" =>
                Ordered(config.head, config.counter)

(* Where DoTasks stands, and what it has done by then. *)
StepsOK ==
  /\ pc \in {"program", "erase", "mark", "fields"} => IsDeadZone
  /\ pc = "mark" => config = Erased
  /\ pc = "fields" => config = MarkOnly
  /\ tmrDeadData => config = Erased \/ (IsDeadZone /\ pc # "idle")
  /\ tmrDeadData /\ pc = "rest" /\ config # Erased => ~IsFinishSend
  /\ IsFinishSend => counter = 0
  /\ counter > 0 => offsetdata

(* The saved configuration, once read, leads to no place that the ring in  *)
(* RAM does not lead to; and whenever it is there it leads to all of them. *)
SavedOK ==
  /\ ~unread /\ config \in Fields /\ config.reissue => SavedInUse \subseteq InUse
  /\ config = MarkOnly => counter = 0 \/ pc \in {"erase", "fields"}
  /\ config \in Fields /\ pc # "erase" /\ counter > 0 =>
       config.reissue /\ InUse \subseteq SavedInUse

(* What may go on without a connection. *)
OnlineOK == tmrRealData \/ DeadData_Sem \/ tmrDeadData => Connected \/ IsDeadZone \/ slept

Typed == TypeOK /\ StoreOK

LEMMA InitInv == Init => BlocksOK /\ SentOK /\ OrderOK /\ StepsOK /\ SavedOK /\ OnlineOK
<1> SUFFICES ASSUME Init PROVE BlocksOK /\ SentOK /\ OrderOK /\ StepsOK /\ SavedOK /\ OnlineOK
  OBVIOUS
<1>1. counter = 0 /\ pc = "idle" /\ config = Erased /\ config \notin Fields /\ Blocks = Blank
      /\ Buff = Blank
  BY DeadZoneAssumption DEF Init, FIFO_Init, Blocks
<1>2. \A p \in Places : Blank[p] \notin Records /\ Blank[p] = NoRecord
  BY FifoAssumption DEF Blank
<1>3. InUse = {}
  BY <1>1 DEF InUse, Window
<1>4. BlocksOK
  BY <1>1, <1>2 DEF BlocksOK
<1>5. SentOK
  BY <1>1, <1>3, DeadZoneAssumption DEF Init, SentOK, Unsent
<1>6. OrderOK
  BY <1>1 DEF OrderOK, Ordered
<1>7. StepsOK /\ SavedOK
  BY <1>1, DeadZoneAssumption DEF Init, StepsOK, SavedOK
<1>8. OnlineOK
  BY Zenon DEF Init, OnlineOK
<1> QED
  BY <1>4, <1>5, <1>6, <1>7, <1>8

(***************************************************************************)
(* The steps that neither write a record nor send one: they may at most    *)
(* erase what the sector buffer holds, and save the ring.                  *)
(***************************************************************************)
LEMMA SameData ==
  ASSUME Typed, BlocksOK, SentOK, OrderOK,
         Blocks' = Blocks, UNCHANGED <<head, counter, stored, sent, torn>>,
         \A p \in Places : Buff'[p] \in {NoRecord, Blocks[p]},
         \/ config' = config /\ (pc' # "erase" => pc # "erase")
         \/ config' = RingFields
         \/ config' \notin Fields
  PROVE  BlocksOK' /\ SentOK' /\ OrderOK'
<1>1. BlocksOK'
  BY DEF BlocksOK
<1>2. InUse' = InUse
  BY DEF InUse, Window, At
<1>3. CASE config' = config /\ (pc' # "erase" => pc # "erase")
  <2>1. SavedInUse' = SavedInUse
    BY <1>3 DEF SavedInUse, Window, At
  <2>2. SentOK'
    BY <1>2, <1>3, <2>1 DEF SentOK, Unsent
  <2>3. OrderOK'
    BY <1>3 DEF OrderOK, Ordered, At
  <2> QED
    BY <1>1, <2>2, <2>3
<1>4. CASE config' = RingFields
  <2>1. config'.head = head /\ config'.counter = counter
    BY <1>4 DEF RingFields
  <2>2. SavedInUse' = InUse
    BY <2>1 DEF SavedInUse, InUse, Window, At
  <2>3. SentOK'
    BY <1>2, <2>2 DEF SentOK, Unsent
  <2>4. OrderOK'
    BY <2>1 DEF OrderOK, Ordered, At
  <2> QED
    BY <1>1, <2>3, <2>4
<1>5. CASE config' \notin Fields
  BY <1>1, <1>2, <1>5 DEF SentOK, Unsent, OrderOK, Ordered, At
<1> QED
  BY <1>3, <1>4, <1>5

(* A record written at the tail. *)
LEMMA PlacedInUse ==
  ASSUME Typed, NEW blocks, Placed(blocks)
  PROVE  /\ tail \in Places
         /\ InUse' \subseteq InUse \cup {tail} /\ InUse \subseteq InUse'
         /\ \A j \in 1 .. counter' :
              \/ At(head', j) = tail /\ j = counter'
              \/ /\ counter = Depth /\ j < counter'
                 /\ At(head', j) = At(head, j + 1) /\ At(head', j) # tail
              \/ /\ counter < Depth /\ j < counter'
                 /\ At(head', j) = At(head, j) /\ At(head', j) # tail
<1>1. /\ head \in Places /\ counter \in 0 .. Depth /\ tail = At(head, counter + 1)
      /\ counter + 1 \in 1 .. Depth + 1
  BY RingTypes, FifoAssumption DEF Typed, TypeOK, RingTyped
<1>2. tail \in Places
  BY <1>1, AtInRing
<1>3. CASE counter = Depth
  <2>1. head' = Following(head) /\ counter' = Depth /\ tail = head
    BY <1>1, <1>3, AtOne DEF Placed, FIFO_IsFull
  <2>2. head' \in Places
    BY <1>1, <2>1, FollowingInRing
  <2>3. InUse = Places /\ InUse' = Places
    BY <1>1, <1>3, <2>1, <2>2, WindowFull DEF InUse, Window
  <2>4. ASSUME NEW j \in 1 .. Depth
        PROVE  At(head', j) = At(head, j + 1)
    BY <1>1, <2>1, AtFollowing
  <2>5. At(head', Depth) = tail
    BY <1>1, <2>1, <2>4, AtOne, FifoAssumption
  <2>6. ASSUME NEW j \in 1 .. Depth, j # Depth
        PROVE  At(head', j) # tail
    BY <2>2, <2>5, <2>6, AtInjective, FifoAssumption
  <2> QED
    BY <1>2, <1>3, <2>1, <2>3, <2>4, <2>5, <2>6, FifoAssumption
<1>4. CASE counter < Depth
  <2>1. head' = head /\ counter' = counter + 1
    BY <1>1, <1>4, FifoAssumption DEF Placed, FIFO_IsFull
  <2>2. InUse' = InUse \cup {tail} /\ tail \notin InUse
    <3>1. InUse' = Window(head, counter + 1)
      BY <2>1 DEF InUse, Window, At
    <3> QED
      BY <1>1, <1>4, <3>1, WindowAddOne DEF InUse
  <2>3. ASSUME NEW j \in 1 .. counter'
        PROVE  At(head', j) = At(head, j)
    BY <2>1 DEF At
  <2>4. ASSUME NEW j \in 1 .. counter
        PROVE  At(head, j) # tail
    BY <2>2 DEF InUse, Window
  <2> QED
    BY <1>1, <1>2, <1>4, <2>1, <2>2, <2>3, <2>4, FifoAssumption
<1> QED
  BY <1>1, <1>3, <1>4, FifoAssumption

LEMMA PlacedData ==
  ASSUME Typed, BlocksOK, SentOK, OrderOK, Placed(Blocks), stored < MaxRecords,
         pc' = "erase", UNCHANGED <<sent, torn, config>>
  PROVE  BlocksOK' /\ SentOK' /\ OrderOK'
<1>1. /\ tail \in Places /\ stored \in 0 .. MaxRecords /\ stored + 1 \in Records
      /\ stored' = stored + 1
      /\ InUse' \subseteq InUse \cup {tail}
      /\ \A j \in 1 .. counter' :
           \/ At(head', j) = tail /\ j = counter'
           \/ /\ counter = Depth /\ j < counter'
              /\ At(head', j) = At(head, j + 1) /\ At(head', j) # tail
           \/ /\ counter < Depth /\ j < counter'
              /\ At(head', j) = At(head, j) /\ At(head', j) # tail
  <2>1. stored \in 0 .. MaxRecords /\ stored + 1 \in Records /\ stored' = stored + 1
    BY DeadZoneAssumption DEF Placed, Typed, TypeOK
  <2> QED
    BY <2>1, PlacedInUse
<1>2. Blocks \in [Places -> Records \cup {NoRecord}]
  BY DEF Blocks, Typed, TypeOK
<1>3. Blocks' = Buff'
  BY DEF Blocks
<1>4. /\ Blocks' = [Blocks EXCEPT ![tail] = stored + 1]
      /\ Blocks'[tail] = stored + 1
      /\ \A p \in Places : p # tail => Blocks'[p] = Blocks[p]
  BY <1>1, <1>2, <1>3 DEF Placed
<1>5. \A p \in Places : Blocks[p] \in Records => Blocks[p] \in Nat /\ Blocks[p] <= stored
  BY DeadZoneAssumption DEF BlocksOK
<1>6. \A r \in Records : r \in Nat /\ sent[r] \in Nat
  BY DeadZoneAssumption DEF Typed, TypeOK
<1>7. sent[stored + 1] = 0
  BY <1>1, <1>6 DEF SentOK
<1>8. BlocksOK'
  <2>1. \A p \in Places : Buff'[p] \in {NoRecord, Blocks'[p]}
    BY <1>3
  <2>2. \A p \in Places : Blocks'[p] \in Records => Blocks'[p] <= stored'
    BY <1>1, <1>4, <1>5
  <2>3. \A p \in Places, q \in Places : Blocks'[p] \in Records /\ Blocks'[p] = Blocks'[q] => p = q
    BY <1>1, <1>4, <1>5 DEF BlocksOK
  <2> QED
    BY <2>1, <2>2, <2>3 DEF BlocksOK
<1>9. ASSUME NEW w \in SUBSET Places, Unsent(w), NEW p \in w \cup {tail}, Blocks'[p] \in Records
      PROVE  sent[Blocks'[p]] = 0
  BY <1>1, <1>4, <1>7, <1>9 DEF Unsent
<1>10. SentOK'
  <2>1. InUse \subseteq Places
    BY RingTypes, WindowInRing DEF InUse, Typed, TypeOK, RingTyped
  <2>2. Unsent(InUse)'
    BY <1>1, <1>9, <2>1 DEF SentOK, Unsent
  <2>3. config' \in Fields => Unsent(SavedInUse)'
    <3> SUFFICES ASSUME config \in Fields PROVE Unsent(SavedInUse)'
      OBVIOUS
    <3>1. SavedInUse \subseteq Places
      BY ConfigTypes, WindowInRing DEF SavedInUse, Typed
    <3>2. SavedInUse' = SavedInUse
      BY DEF SavedInUse, Window, At
    <3> QED
      BY <1>9, <3>1, <3>2 DEF SentOK, Unsent
  <2> QED
    BY <1>1, <1>6, <2>2, <2>3 DEF SentOK
<1>11. ASSUME ~torn PROVE Ordered(head, counter)'
  <2>1. Ordered(head, counter)
    BY <1>11 DEF OrderOK
  <2>2. /\ head \in Places /\ counter \in 0 .. Depth /\ counter' \in 0 .. Depth
        /\ head' \in Places /\ counter' = IF counter = Depth THEN Depth ELSE counter + 1
    BY RingTypes, FollowingInRing, FifoAssumption
       DEF Typed, TypeOK, RingTyped, Placed, FIFO_IsFull
  <2>3. ASSUME NEW j \in 1 .. counter
        PROVE  At(head, j) \in Places /\ Blocks[At(head, j)] \in Records /\ Blocks[At(head, j)] <= stored
    BY <1>5, <2>1, <2>2, AtInRing, FifoAssumption DEF Ordered
  <2>4. ASSUME NEW j \in 1 .. counter'
        PROVE  /\ Blocks'[At(head', j)] \in Records
               /\ \A r \in Records : sent[r] > 0 => r < Blocks'[At(head', j)]
    <3>1. CASE At(head', j) = tail
      BY <1>1, <1>4, <1>6, <3>1 DEF SentOK
    <3>2. CASE \E i \in 1 .. counter : At(head', j) = At(head, i) /\ At(head', j) # tail
      BY <1>4, <2>1, <2>3, <3>2 DEF Ordered
    <3> QED
      BY <1>1, <2>2, <3>1, <3>2, FifoAssumption
  <2>5. ASSUME NEW j \in 1 .. counter', NEW k \in 1 .. counter', j < k
        PROVE  Blocks'[At(head', j)] < Blocks'[At(head', k)]
    <3>1. j < counter'
      BY <2>2, <2>5
    <3>2. PICK i \in 1 .. counter : /\ At(head', j) = At(head, i) /\ At(head', j) # tail
                                    /\ \/ i = j /\ counter < Depth
                                       \/ i = j + 1 /\ counter = Depth
      BY <1>1, <2>2, <3>1, FifoAssumption
    <3>3. CASE At(head', k) = tail
      BY <1>1, <1>4, <1>5, <2>3, <3>2, <3>3, DeadZoneAssumption
    <3>4. CASE At(head', k) # tail
      <4>1. PICK m \in 1 .. counter : At(head', k) = At(head, m) /\ i < m
        BY <1>1, <2>2, <2>5, <3>2, <3>4, FifoAssumption
      <4> QED
        BY <1>4, <2>1, <2>3, <3>2, <3>4, <4>1 DEF Ordered
    <3> QED
      BY <3>3, <3>4
  <2> QED
    BY <2>4, <2>5 DEF Ordered
<1>12. OrderOK'
  BY <1>11 DEF OrderOK
<1> QED
  BY <1>8, <1>10, <1>12

DataOK == BlocksOK /\ SentOK /\ OrderOK
ControlOK == StepsOK /\ SavedOK /\ OnlineOK
Inv == Typed /\ DataOK /\ ControlOK

LEMMA QuietKeeps == ASSUME Inv, Quiet PROVE DataOK' /\ ControlOK'
<1>1. DataOK'
  <2>1. Blocks' = Blocks /\ \A p \in Places : Buff'[p] \in {NoRecord, Blocks[p]}
    BY QuietFrame DEF Blocks
  <2>2. UNCHANGED <<head, counter, stored, sent, torn>> /\ config' = config /\ pc # "erase"
    BY QuietFrame
  <2> QED
    BY <2>1, <2>2, SameData DEF Inv, DataOK
<1>2. InUse' = InUse /\ SavedInUse' = SavedInUse
  BY QuietFrame DEF InUse, SavedInUse, Window, At
<1>3. StepsOK'
  <2>1. pc' = "rest" => config = Erased \/ ~tmrDeadData
    BY QuietFrame DEF Inv, ControlOK, StepsOK
  <2> QED
    BY <2>1, QuietFrame DEF Inv, ControlOK, StepsOK
<1>4. ~unread' => ~unread
  BY Zenon DEF Quiet, DoTasksCounts, RealDataTick, ModemStop, ModemRestart, Connect,
     LoginAck, SleepCalledOff, SleepWake, ring
<1>5. SavedOK'
  BY <1>2, <1>4, QuietFrame DEF Inv, ControlOK, SavedOK
<1>6. OnlineOK'
  <2> USE DEF Inv, ControlOK, OnlineOK, Connected, ring
  <2>1. CASE DoTasksCounts
    BY <2>1, Zenon DEF DoTasksCounts
  <2>2. CASE RealDataTick
    BY <2>2, Zenon DEF RealDataTick
  <2>3. CASE ModemStop
    BY <2>3, Zenon DEF ModemStop
  <2>4. CASE ModemRestart
    BY <2>4 DEF ModemRestart
  <2>5. CASE Connect
    BY <2>5 DEF Connect
  <2>6. CASE LoginAck
    BY <2>6 DEF LoginAck
  <2>7. CASE SleepCalledOff
    BY <2>7 DEF SleepCalledOff
  <2>8. CASE SleepWake
    BY <2>8, Zenon DEF SleepWake
  <2> QED
    BY <2>1, <2>2, <2>3, <2>4, <2>5, <2>6, <2>7, <2>8 DEF Quiet
<1> QED
  BY <1>1, <1>3, <1>5, <1>6 DEF DataOK, ControlOK

(* Storing begins, with nothing written of the record yet. *)
LEMMA BeginsKeeps == ASSUME Inv, StoreFails \/ EraseSector PROVE DataOK' /\ ControlOK'
<1>1. /\ UNCHANGED <<head, counter, stored, sent, torn, config, offsetdata, unread, tmrDeadData>>
      /\ pc = "idle" /\ IsDeadZone /\ IsDeadZone' /\ pc' \in {"erase", "program"}
      /\ IsFinishSend' => IsFinishSend
  BY DEF StoreFails, EraseSector, StoreBegins, fifo
<1>2. Blocks' = Blocks /\ \A p \in Places : Buff'[p] \in {NoRecord, Blocks[p]}
  <2>1. CASE StoreFails
    BY <2>1 DEF StoreFails, StoreBegins, fifo, Blocks
  <2>2. CASE EraseSector
    BY <2>2 DEF EraseSector, StoreBegins, Blocks
  <2> QED
    BY <2>1, <2>2
<1>3. DataOK'
  BY <1>1, <1>2, SameData DEF Inv, DataOK
<1>4. InUse' = InUse /\ SavedInUse' = SavedInUse
  BY <1>1 DEF InUse, SavedInUse, Window, At
<1>5. StepsOK' /\ SavedOK'
  BY <1>1, <1>4 DEF Inv, ControlOK, StepsOK, SavedOK
<1>6. OnlineOK'
  BY <1>1 DEF OnlineOK
<1> QED
  BY <1>3, <1>5, <1>6 DEF DataOK, ControlOK

(* The record is written. *)
LEMMA PlacedKeeps == ASSUME Inv, StoreInBlank \/ ProgramSector PROVE DataOK' /\ ControlOK'
<1>1. /\ Placed(Blocks) /\ stored < MaxRecords /\ pc' = "erase" /\ IsFinishSend' = FALSE
      /\ UNCHANGED <<sent, torn, config, unread, tmrDeadData, IsDeadZone>>
  <2>1. CASE StoreInBlank
    BY <2>1 DEF StoreInBlank, StoreBegins, Blocks
  <2>2. CASE ProgramSector
    BY <2>2 DEF ProgramSector, Blocks, Inv, Typed, StoreOK
  <2> QED
    BY <2>1, <2>2
<1>2. IsDeadZone
  BY DEF StoreInBlank, ProgramSector, StoreBegins, Inv, ControlOK, StepsOK
<1>3. DataOK'
  BY <1>1, PlacedData DEF Inv, DataOK
<1>4. InUse \subseteq InUse'
  BY <1>1, PlacedInUse DEF Inv
<1>5. SavedInUse' = SavedInUse
  BY <1>1 DEF SavedInUse, Window, At
<1>6. StepsOK'
  BY <1>1, <1>2 DEF Inv, ControlOK, StepsOK, Placed
<1>7. SavedOK'
  BY <1>1, <1>4, <1>5 DEF Inv, ControlOK, SavedOK
<1>8. OnlineOK'
  BY <1>1, <1>2 DEF OnlineOK
<1> QED
  BY <1>3, <1>6, <1>7, <1>8 DEF DataOK, ControlOK

LEMMA SaveKeeps == ASSUME Inv, SaveConfig PROVE DataOK' /\ ControlOK'
<1>1. /\ UNCHANGED <<head, counter, Buff, stored, sent, torn, offsetdata, IsFinishSend,
                     unread, tmrDeadData, IsDeadZone>>
      /\ pc \in {"erase", "mark", "fields"} /\ pc' \in {"mark", "fields", "rest"}
      /\ IsDeadZone
  BY DEF SaveConfig, fifo, Inv, ControlOK, StepsOK
<1>2. \/ pc = "erase" /\ config' = Erased /\ pc' = "mark"
      \/ pc = "mark" /\ config' = MarkOnly /\ pc' = "fields"
      \/ pc = "fields" /\ config' = RingFields /\ pc' = "rest"
  BY DEF SaveConfig
<1>3. DataOK'
  <2>1. Blocks' = Blocks
    BY <1>1 DEF Blocks
  <2>2. \A p \in Places : Buff'[p] \in {NoRecord, Blocks[p]}
    BY <1>1 DEF Blocks
  <2>3. config' = RingFields \/ config' \notin Fields
    BY <1>2, DeadZoneAssumption
  <2> QED
    BY <1>1, <2>1, <2>2, <2>3, SameData DEF Inv, DataOK
<1>4. pc \in {"erase", "mark", "fields"} => ~IsFinishSend
  BY DEF Inv, Typed, StoreOK
<1>5. StepsOK'
  BY <1>1, <1>2, <1>4 DEF Inv, ControlOK, StepsOK
<1>6. SavedOK'
  <2>1. CASE config' = RingFields
    <3>1. config'.head = head /\ config'.counter = counter /\ config'.reissue = offsetdata
      BY <2>1 DEF RingFields
    <3>2. SavedInUse' = InUse'
      BY <1>1, <3>1 DEF SavedInUse, InUse, Window, At
    <3>3. config' # MarkOnly
      BY <2>1, DeadZoneAssumption DEF Inv, Typed, TypeOK
    <3>4. counter' > 0 => config'.reissue
      BY <1>1, <3>1 DEF Inv, ControlOK, StepsOK
    <3> QED
      BY <3>2, <3>3, <3>4 DEF SavedOK
  <2>2. CASE config' # RingFields
    BY <1>2, <2>2, DeadZoneAssumption DEF SavedOK
  <2> QED
    BY <2>1, <2>2
<1>7. OnlineOK'
  BY <1>1 DEF OnlineOK
<1> QED
  BY <1>3, <1>5, <1>6, <1>7 DEF DataOK, ControlOK

(***************************************************************************)
(* The rest of DoTasks.  The ring is left alone, or taken over from the    *)
(* saved configuration, or emptied; and it is emptied only when there is   *)
(* nothing in it and nothing to be taken over.                             *)
(***************************************************************************)
LEMMA RestCases ==
  ASSUME Inv, DoTasksRest
  PROVE  \/ /\ Becomes(RingFields) /\ config' \in {config, Erased}
            /\ Reads => config \notin Fields
         \/ /\ Becomes(EmptyRing) /\ counter = 0 /\ config' \in {config, Erased}
            /\ config \in Fields => Reads /\ ~config.reissue
         \/ /\ Becomes(config) /\ config \in Fields /\ config.reissue /\ config' = Erased
            /\ counter > 0 => InUse \subseteq SavedInUse
<1>1. pc = "rest" /\ config' = (IF Reissues THEN Erased ELSE config)
      /\ config \in Fields \cup {Erased, MarkOnly}
  BY DEF DoTasksRest, Inv, Typed, TypeOK
<1>2. counter \in Nat
  BY DEF Inv, Typed, TypeOK, RingFields, Fields
<1>3. RingFields.reissue = offsetdata /\ RingFields.finish = IsFinishSend
  BY DEF RingFields
<1>4. EmptyRing.reissue = FALSE
  BY DEF EmptyRing
<1>5. CASE ~Reads
  <2>1. ReadBack = RingFields /\ Loaded = RingFields /\ ~Reissues
    BY <1>5 DEF ReadBack, Loaded, Reissues
  <2>2. CASE Finished
    <3>1. tmrDeadData /\ IsFinishSend
      BY <1>3, <2>1, <2>2 DEF Finished, Uploading
    <3>2. counter = 0 /\ config = Erased
      BY <1>1, <3>1 DEF Inv, ControlOK, StepsOK
    <3> QED
      BY <1>1, <2>2, <3>2, DeadZoneAssumption DEF DoTasksRest
  <2>3. CASE ~Finished
    BY <1>1, <1>5, <2>1, <2>3 DEF DoTasksRest
  <2> QED
    BY <2>2, <2>3
<1>6. CASE Reads /\ config = Erased
  <2>1. ReadBack = RingFields
    BY <1>6, DeadZoneAssumption DEF ReadBack
  <2>2. Becomes(EmptyRing) \/ Becomes(RingFields)
    BY <2>1 DEF DoTasksRest, Loaded
  <2>3. Becomes(RingFields) \/ (Becomes(EmptyRing) /\ counter = 0)
    <3>1. CASE ~offsetdata
      BY <1>2, <2>2, <3>1 DEF Inv, ControlOK, StepsOK
    <3>2. CASE offsetdata /\ IsFinishSend
      BY <2>2, <3>2 DEF Inv, ControlOK, StepsOK
    <3>3. CASE offsetdata /\ ~IsFinishSend
      <4>1. Loaded = RingFields /\ ~Finished
        BY <1>3, <2>1, <3>3 DEF Loaded, Finished
      <4> QED
        BY <4>1 DEF DoTasksRest
    <3> QED
      BY <3>1, <3>2, <3>3
  <2> QED
    BY <1>1, <1>6, <2>3, DeadZoneAssumption
<1>7. CASE Reads /\ config = MarkOnly
  <2>1. ReadBack = EmptyRing
    BY <1>7, DeadZoneAssumption DEF ReadBack
  <2>2. Becomes(EmptyRing)
    BY <1>4, <2>1 DEF DoTasksRest, Loaded
  <2>3. counter = 0
    BY <1>1, <1>7 DEF Inv, ControlOK, SavedOK
  <2> QED
    BY <1>1, <1>7, <2>2, <2>3, DeadZoneAssumption
<1>8. CASE Reads /\ config \in Fields
  <2>1. ReadBack = config
    BY <1>8, DeadZoneAssumption DEF ReadBack
  <2>2. config.finish = FALSE /\ (counter > 0 => config.reissue /\ InUse \subseteq SavedInUse)
    BY <1>1, <1>8, ConfigTypes DEF Inv, Typed, ControlOK, SavedOK
  <2>3. CASE config.reissue
    <3>1. Reissues /\ Loaded = config /\ ~Finished
      BY <1>8, <2>1, <2>2, <2>3 DEF Reissues, Loaded, Finished
    <3> QED
      BY <1>1, <1>8, <2>2, <2>3, <3>1 DEF DoTasksRest
  <2>4. CASE ~config.reissue
    <3>1. ~Reissues /\ Loaded = EmptyRing
      BY <1>8, <2>1, <2>4 DEF Reissues, Loaded
    <3>2. Becomes(EmptyRing)
      BY <3>1 DEF DoTasksRest
    <3> QED
      BY <1>1, <1>2, <1>8, <2>2, <2>4, <3>1, <3>2
  <2> QED
    BY <2>3, <2>4
<1> QED
  BY <1>1, <1>5, <1>6, <1>7, <1>8

LEMMA RestKeeps == ASSUME Inv, DoTasksRest PROVE DataOK' /\ ControlOK'
<1>1. /\ UNCHANGED <<Buff, stored, sent, torn, IsDeadZone, sys_status, slept>>
      /\ pc = "rest" /\ pc' = "idle"
  BY DEF DoTasksRest
<1>2. Blocks' = Blocks
  BY <1>1 DEF Blocks
<1>3. \A p \in Places : Buff'[p] \in {NoRecord, Blocks[p]}
  BY <1>1 DEF Blocks
<1>4. Erased \notin Fields /\ MarkOnly \notin Fields /\ Erased # MarkOnly
  BY DeadZoneAssumption
<1>5. tmrDeadData' => config' = Erased
  BY DEF DoTasksRest, Uploading, Inv, ControlOK, StepsOK
<1>6. ~unread' => Reads \/ ~unread
  BY Zenon DEF DoTasksRest, Reads
<1>7. OnlineOK'
  <2>1. tmrRealData' => sys_status = "LOGIN_ACK"
    BY Zenon DEF DoTasksRest
  <2>2. tmrDeadData' \/ DeadData_Sem' => tmrDeadData \/ DeadData_Sem
    BY Zenon DEF DoTasksRest, Uploading, Reissues, Reads
  <2> QED
    BY <1>1, <2>1, <2>2 DEF OnlineOK, Connected, Inv, ControlOK
<1>8. CASE /\ Becomes(RingFields) /\ config' \in {config, Erased}
           /\ Reads => config \notin Fields
  <2>1. UNCHANGED <<head, counter, offsetdata, IsFinishSend>>
    BY <1>8 DEF Becomes, RingFields
  <2>2. DataOK'
    BY <1>1, <1>2, <1>3, <1>4, <1>8, <2>1, SameData DEF Inv, DataOK
  <2>3. InUse' = InUse /\ (config' = config => SavedInUse' = SavedInUse)
    BY <2>1 DEF InUse, SavedInUse, Window, At
  <2>4. StepsOK'
    BY <1>1, <1>5, <2>1 DEF Inv, ControlOK, StepsOK
  <2>5. SavedOK'
    BY <1>1, <1>4, <1>6, <1>8, <2>1, <2>3 DEF Inv, ControlOK, SavedOK
  <2> QED
    BY <1>7, <2>2, <2>4, <2>5 DEF ControlOK
<1>9. CASE /\ Becomes(EmptyRing) /\ counter = 0 /\ config' \in {config, Erased}
           /\ config \in Fields => Reads /\ ~config.reissue
  <2>1. counter' = 0 /\ IsFinishSend' = FALSE
    BY <1>9 DEF Becomes, EmptyRing
  <2>2. InUse' = {} /\ (config' = config => SavedInUse' = SavedInUse)
    BY <2>1 DEF InUse, SavedInUse, Window, At
  <2>3. BlocksOK'
    BY <1>1, <1>2, <1>3 DEF Inv, DataOK, BlocksOK
  <2>4. SentOK'
    BY <1>1, <1>2, <1>4, <1>9, <2>2 DEF Inv, DataOK, SentOK, Unsent
  <2>5. OrderOK'
    BY <1>1, <1>2, <1>4, <1>9, <2>1 DEF Inv, DataOK, OrderOK, Ordered, At
  <2>6. StepsOK'
    BY <1>1, <1>5, <2>1 DEF StepsOK
  <2>7. SavedOK'
    BY <1>1, <1>4, <1>9, <2>1 DEF SavedOK
  <2> QED
    BY <1>7, <2>3, <2>4, <2>5, <2>6, <2>7 DEF DataOK, ControlOK
<1>10. CASE Becomes(config) /\ config \in Fields /\ config.reissue /\ config' = Erased
  <2>1. head' = config.head /\ counter' = config.counter /\ offsetdata' = config.reissue
        /\ IsFinishSend' = config.finish /\ config.finish = FALSE
    BY <1>10, ConfigTypes DEF Becomes, Inv, Typed
  <2>2. InUse' = SavedInUse
    BY <2>1 DEF InUse, SavedInUse, Window, At
  <2>3. BlocksOK'
    BY <1>1, <1>2, <1>3 DEF Inv, DataOK, BlocksOK
  <2>4. SentOK'
    BY <1>1, <1>2, <1>4, <1>10, <2>2 DEF Inv, DataOK, SentOK, Unsent
  <2>5. OrderOK'
    BY <1>1, <1>2, <1>4, <1>10, <2>1 DEF Inv, DataOK, OrderOK, Ordered, At
  <2>6. StepsOK'
    BY <1>1, <1>5, <1>10, <2>1 DEF StepsOK
  <2>7. SavedOK'
    BY <1>4, <1>10 DEF SavedOK
  <2> QED
    BY <1>7, <2>3, <2>4, <2>5, <2>6, <2>7 DEF DataOK, ControlOK
<1> QED
  BY <1>8, <1>9, <1>10, RestCases

(* The upload of a record: it leaves the ring, and no other place that is  *)
(* in use holds it.                                                        *)
LEMMA UploadKeeps == ASSUME Inv, UploadOne PROVE DataOK' /\ ControlOK'
<1>1. /\ UNCHANGED <<Buff, config, stored, torn, pc, offsetdata, IsFinishSend, unread,
                     DeadData_Sem, IsDeadZone, tmrDeadData, tmrRealData, sys_status, slept>>
      /\ pc = "idle" /\ head' = Following(head) /\ counter' = counter - 1
      /\ sent' = IF Connected /\ Buff[head] \in Records
                 THEN [sent EXCEPT ![Buff[head]] = @ + 1] ELSE sent
  BY DEF UploadOne, FIFO_GetOne
<1>2. config = Erased /\ Erased \notin Fields /\ Erased # MarkOnly
  BY <1>1, DeadZoneAssumption DEF UploadOne, Inv, ControlOK, StepsOK
<1>3. head \in Places /\ counter \in 1 .. Depth
  BY RingTypes, FifoAssumption
     DEF Inv, Typed, TypeOK, RingTyped, UploadOne, FIFO_GetOne, FIFO_IsEmpty
<1>4. Blocks = Buff /\ Blocks' = Buff
  BY <1>1 DEF Blocks
<1>5. /\ head \in InUse /\ head \notin InUse' /\ InUse' \subseteq InUse /\ InUse \subseteq Places
  <2>1. InUse' = Window(Following(head), counter - 1)
    BY <1>1 DEF InUse, Window, At
  <2> QED
    BY <1>3, <2>1, WindowGetOne, WindowInRing, FifoAssumption DEF InUse
<1>6. /\ \A r \in Records : sent[r] \in Nat /\ r \in Nat
      /\ sent \in [Records -> Nat]
  BY DeadZoneAssumption DEF Inv, Typed, TypeOK
<1>7. /\ \A r \in Records : r # Blocks[head] => sent'[r] = sent[r]
      /\ Blocks[head] \in Records => sent[Blocks[head]] = 0 /\ sent'[Blocks[head]] <= 1
      /\ Blocks[head] \in Records => Blocks[head] <= stored
  <2>1. Blocks[head] \in Records => sent[Blocks[head]] = 0 /\ Blocks[head] <= stored
    BY <1>3, <1>5 DEF Inv, DataOK, SentOK, Unsent, BlocksOK
  <2> QED
    BY <1>1, <1>4, <1>6, <2>1
<1>8. BlocksOK'
  BY <1>1, <1>4 DEF Inv, DataOK, BlocksOK
<1>9. SentOK'
  <2>1. \A r \in Records : sent'[r] <= 1 /\ (sent'[r] > 0 => r <= stored')
    BY <1>1, <1>7 DEF Inv, DataOK, SentOK
  <2>2. Unsent(InUse)'
    <3> SUFFICES ASSUME NEW p \in InUse', Blocks'[p] \in Records PROVE sent'[Blocks'[p]] = 0
      BY DEF Unsent
    <3>1. p # head /\ p \in InUse /\ p \in Places
      BY <1>5
    <3>2. Blocks[p] # Blocks[head]
      BY <1>3, <1>4, <3>1 DEF Inv, DataOK, BlocksOK
    <3> QED
      BY <1>4, <1>7, <3>1, <3>2 DEF Inv, DataOK, SentOK, Unsent
  <2> QED
    BY <1>1, <1>2, <2>1, <2>2 DEF SentOK
<1>10. OrderOK'
  <2> SUFFICES ASSUME ~torn PROVE Ordered(head, counter)'
    BY <1>1, <1>2 DEF OrderOK
  <2>1. Ordered(head, counter)
    BY DEF Inv, DataOK, OrderOK
  <2>2. \A j \in 1 .. counter' : At(head', j) = At(head, j + 1) /\ j + 1 \in 1 .. counter
    BY <1>1, <1>3, AtFollowing, FifoAssumption
  <2>3. 1 \in 1 .. counter /\ At(head, 1) = head
    BY <1>3, AtOne
  <2>4. ASSUME NEW j \in 1 .. counter'
        PROVE  /\ Blocks[At(head, j + 1)] \in Records
               /\ Blocks[head] < Blocks[At(head, j + 1)]
               /\ \A r \in Records : sent'[r] > 0 => r < Blocks[At(head, j + 1)]
    <3>1. j + 1 \in 1 .. counter /\ 1 < j + 1
      BY <2>2
    <3>2. Blocks[At(head, j + 1)] \in Records /\ Blocks[head] < Blocks[At(head, j + 1)]
      BY <2>1, <2>3, <3>1 DEF Ordered
    <3> QED
      BY <1>7, <2>1, <3>1, <3>2 DEF Ordered
  <2>5. ASSUME NEW j \in 1 .. counter', NEW k \in 1 .. counter', j < k
        PROVE  Blocks[At(head, j + 1)] < Blocks[At(head, k + 1)]
    BY <2>1, <2>2, <2>5 DEF Ordered
  <2> QED
    BY <1>4, <2>2, <2>4, <2>5 DEF Ordered
<1>11. StepsOK'
  BY <1>1, <1>2, <1>3 DEF Inv, ControlOK, StepsOK
<1>12. SavedOK'
  BY <1>1, <1>2 DEF SavedOK
<1>13. OnlineOK'
  BY <1>1 DEF Inv, ControlOK, OnlineOK, Connected
<1> QED
  BY <1>8, <1>9, <1>10, <1>11, <1>12, <1>13 DEF DataOK, ControlOK

LEMMA UploadEndsKeeps == ASSUME Inv, UploadEnds PROVE DataOK' /\ ControlOK'
<1>1. /\ UNCHANGED <<Buff, head, counter, config, stored, sent, torn, pc, offsetdata, unread,
                     DeadData_Sem, IsDeadZone, tmrDeadData, tmrRealData, sys_status, slept>>
      /\ pc = "idle" /\ counter = 0
  BY DEF UploadEnds, fifo, FIFO_IsEmpty
<1>2. DataOK'
  <2>1. Blocks' = Blocks /\ \A p \in Places : Buff'[p] \in {NoRecord, Blocks[p]}
    BY <1>1 DEF Blocks
  <2> QED
    BY <1>1, <2>1, SameData DEF Inv, DataOK
<1>3. InUse' = InUse /\ SavedInUse' = SavedInUse
  BY <1>1 DEF InUse, SavedInUse, Window, At
<1>4. StepsOK' /\ SavedOK'
  BY <1>1, <1>3 DEF Inv, ControlOK, StepsOK, SavedOK
<1>5. OnlineOK'
  BY <1>1 DEF Inv, ControlOK, OnlineOK, Connected
<1> QED
  BY <1>2, <1>4, <1>5 DEF ControlOK

(* A reset between the erase of a sector and its programming loses what    *)
(* the sector held, and can leave no wrong record.                         *)
LEMMA ResetKeeps == ASSUME Inv, Reset PROVE DataOK' /\ ControlOK'
<1>1. /\ UNCHANGED <<Buff, config, stored, sent>>
      /\ counter' = 0 /\ IsFinishSend' = FALSE /\ unread' = TRUE /\ pc' = "idle"
      /\ torn' = (torn \/ pc \in {"program", "erase"})
      /\ tmrDeadData' = FALSE /\ tmrRealData' = FALSE /\ DeadData_Sem' = FALSE
  BY DEF Reset, Becomes, EmptyRing
<1>2. Blocks' = Buff
  BY <1>1 DEF Blocks
<1>3. \A p \in Places : Buff[p] \in Records => Buff[p] = Blocks[p]
  BY FifoAssumption DEF Inv, DataOK, BlocksOK
<1>4. BlocksOK'
  BY <1>1, <1>2, <1>3 DEF Inv, DataOK, BlocksOK
<1>5. InUse' = {} /\ SavedInUse' = SavedInUse
  BY <1>1 DEF InUse, SavedInUse, Window, At
<1>6. config \in Fields => SavedInUse \subseteq Places
  BY ConfigTypes, WindowInRing DEF Inv, Typed, SavedInUse
<1>7. SentOK'
  BY <1>1, <1>2, <1>3, <1>5, <1>6 DEF Inv, DataOK, SentOK, Unsent
<1>8. OrderOK'
  <2> SUFFICES ASSUME ~torn'
               PROVE  /\ Ordered(head, counter)'
                      /\ config' \in Fields /\ config'.reissue /\ pc' # "erase" =>
                           Ordered(config.head, config.counter)'
    BY DEF OrderOK
  <2>1. ~torn /\ pc # "program" /\ pc # "erase"
    BY <1>1, Zenon
  <2>2. Blocks' = Blocks
    BY <1>2, <2>1 DEF Blocks
  <2>3. Ordered(head, counter)'
    BY <1>1 DEF Ordered
  <2>4. ASSUME config \in Fields, config.reissue PROVE Ordered(config.head, config.counter)'
    BY <1>1, <2>1, <2>2, <2>4 DEF Inv, DataOK, OrderOK, Ordered, At
  <2> QED
    BY <1>1, <2>3, <2>4
<1>9. StepsOK' /\ SavedOK'
  BY <1>1 DEF StepsOK, SavedOK
<1>10. OnlineOK'
  BY <1>1, Zenon DEF OnlineOK
<1> QED
  BY <1>4, <1>7, <1>8, <1>9, <1>10 DEF DataOK, ControlOK

LEMMA StutterKeeps == ASSUME Inv, UNCHANGED vars PROVE DataOK' /\ ControlOK'
<1>1. UNCHANGED <<Buff, head, counter, config, stored, sent, torn, pc, offsetdata, IsFinishSend,
                  unread, DeadData_Sem, IsDeadZone, tmrDeadData, tmrRealData, sys_status, slept,
                  WriteBuffer>>
  BY DEF vars, ram
<1>2. DataOK'
  <2>1. Blocks' = Blocks /\ \A p \in Places : Buff'[p] \in {NoRecord, Blocks[p]}
    BY <1>1 DEF Blocks, Inv, DataOK, BlocksOK
  <2> QED
    BY <1>1, <2>1, SameData DEF Inv, DataOK
<1>3. InUse' = InUse /\ SavedInUse' = SavedInUse
  BY <1>1 DEF InUse, SavedInUse, Window, At
<1>4. StepsOK' /\ SavedOK'
  BY <1>1, <1>3 DEF Inv, ControlOK, StepsOK, SavedOK
<1>5. OnlineOK'
  BY <1>1 DEF Inv, ControlOK, OnlineOK, Connected
<1> QED
  BY <1>2, <1>4, <1>5 DEF ControlOK

LEMMA InvHolds == Spec => []Inv
<1>1. Init => Inv
  BY InitTypes, InitInv DEF Inv, Typed, DataOK, ControlOK
<1>2. Inv /\ [Next]_vars => Inv'
  <2> SUFFICES ASSUME Inv, [Next]_vars PROVE Inv'
    OBVIOUS
  <2>1. Typed'
    BY NextTypes DEF Inv, Typed
  <2>2. DataOK' /\ ControlOK'
    BY NextCases, QuietKeeps, BeginsKeeps, PlacedKeeps, SaveKeeps, RestKeeps, UploadKeeps,
       UploadEndsKeeps, ResetKeeps, StutterKeeps
  <2> QED
    BY <2>1, <2>2 DEF Inv
<1> QED
  BY <1>1, <1>2, PTL DEF Spec

(***************************************************************************)
(* No record is uploaded twice, whatever resets, sleeps and reconnections  *)
(* come: the configuration is cleared before the first record it leads to  *)
(* goes out, and no two places hold one record.                            *)
(***************************************************************************)
THEOREM SentOnce == Spec => []SentAtMostOnce
<1>1. Inv => SentAtMostOnce
  BY DEF Inv, DataOK, SentOK, SentAtMostOnce
<1> QED
  BY <1>1, InvHolds, PTL

(***************************************************************************)
(* Unless a reset tore a block from its configuration, the upload takes    *)
(* records from the flash, in the order in which they were stored.         *)
(***************************************************************************)
THEOREM UploadsInOrder == Spec => SentInOrder
<1>1. Inv /\ [Next]_vars =>
        [UploadOne /\ ~torn => /\ Buff[head] \in Records
                               /\ \A r \in Records : r >= Buff[head] => sent[r] = 0]_vars
  <2> SUFFICES ASSUME Inv, UploadOne, ~torn
               PROVE  /\ Buff[head] \in Records
                      /\ \A r \in Records : r >= Buff[head] => sent[r] = 0
    OBVIOUS
  <2>1. head \in Places /\ 1 \in 1 .. counter
    BY RingTypes, FifoAssumption
       DEF Inv, Typed, TypeOK, RingTyped, UploadOne, FIFO_GetOne, FIFO_IsEmpty
  <2>2. At(head, 1) = head /\ Blocks = Buff
    BY <2>1, AtOne DEF Blocks, UploadOne
  <2>3. /\ Buff[head] \in Records
        /\ \A r \in Records : sent[r] > 0 => r < Buff[head]
    BY <2>1, <2>2 DEF Inv, DataOK, OrderOK, Ordered
  <2>4. \A r \in Records : r \in Nat /\ sent[r] \in Nat
    BY DeadZoneAssumption DEF Inv, Typed, TypeOK
  <2> QED
    BY <2>3, <2>4
<1> QED
  BY <1>1, InvHolds, PTL DEF Spec, SentInOrder
-----------------------------------------------------------------------------
(* What can still be uploaded.                                             *)

LEMMA WaitingPlaces ==
  /\ InRing(RingFields) = {Buff[p] : p \in InUse}
  /\ InConfig = IF config \in Fields /\ config.reissue
                THEN {Buff[p] : p \in SavedInUse} ELSE {}
  /\ InRing(RingFields)' = {Buff'[p] : p \in InUse'}
  /\ InConfig' = IF config' \in Fields /\ config'.reissue
                 THEN {Buff'[p] : p \in SavedInUse'} ELSE {}
BY DEF InRing, RingFields, InUse, InConfig, SavedInUse, Window, At

(***************************************************************************)
(* A record stops waiting only where the property names a step: it is      *)
(* uploaded, written over, or lost in a reset that finds no configuration. *)
(***************************************************************************)
THEOREM NothingWaitingLost == Spec => KeepsWaiting
<1>1. Inv /\ [Next]_vars =>
        [(UploadOne /\ (Connected \/ IsDeadZone \/ slept))
           \/ StoreInBlank \/ EraseSector \/ ProgramSector
           \/ (SaveConfig /\ unread) \/ (Reset /\ (config = Erased \/ pc # "idle"))
         \/ Waiting \subseteq Waiting']_vars
  <2> SUFFICES ASSUME Inv, [Next]_vars
               PROVE  \/ UploadOne /\ (Connected \/ IsDeadZone \/ slept)
                      \/ StoreInBlank \/ EraseSector \/ ProgramSector
                      \/ SaveConfig /\ unread
                      \/ Reset /\ (config = Erased \/ pc # "idle")
                      \/ Waiting \subseteq Waiting'
    OBVIOUS
  <2>0. ASSUME Buff' = Buff, UNCHANGED <<head, counter, config>>
        PROVE  Waiting \subseteq Waiting'
    <3>1. InUse' = InUse /\ SavedInUse' = SavedInUse
      BY <2>0 DEF InUse, SavedInUse, Window, At
    <3> QED
      BY <2>0, <3>1, WaitingPlaces DEF Waiting
  <2>1. CASE Quiet
    BY <2>0, <2>1, QuietFrame
  <2>2. CASE StoreFails
    BY <2>0, <2>2 DEF StoreFails, StoreBegins, fifo
  <2>3. CASE SaveConfig /\ ~unread
    <3>1. Buff' = Buff /\ UNCHANGED <<head, counter>>
      BY <2>3 DEF SaveConfig, fifo
    <3>2. InUse' = InUse
      BY <3>1 DEF InUse, Window, At
    <3>3. InConfig \subseteq InRing(RingFields)
      <4>1. CASE config \in Fields /\ config.reissue
        <5>1. SavedInUse \subseteq InUse
          BY <2>3, <4>1 DEF Inv, ControlOK, SavedOK
        <5> QED
          BY <4>1, <5>1, WaitingPlaces
      <4>2. CASE ~(config \in Fields /\ config.reissue)
        BY <4>2, WaitingPlaces
      <4> QED
        BY <4>1, <4>2
    <3> QED
      BY <3>1, <3>2, <3>3, WaitingPlaces DEF Waiting
  <2>4. CASE DoTasksRest
    <3>1. Buff' = Buff
      BY <2>4 DEF DoTasksRest
    <3>2. counter = 0 => InUse = {}
      BY DEF InUse, Window
    <3>3. Erased \notin Fields
      BY DeadZoneAssumption
    <3>4. counter \in Nat
      BY RingTypes, FifoAssumption DEF Inv, Typed, TypeOK, RingTyped
    <3>5. CASE /\ Becomes(RingFields) /\ config' \in {config, Erased}
               /\ Reads => config \notin Fields
      <4>1. UNCHANGED <<head, counter>>
        BY <3>5 DEF Becomes, RingFields
      <4>2. CASE config \notin Fields
        <5>1. InUse' = InUse
          BY <4>1 DEF InUse, Window, At
        <5> QED
          BY <3>1, <4>2, <5>1, WaitingPlaces DEF Waiting
      <4>3. CASE ~Reads
        <5>1. config' = config
          BY <2>4, <4>3 DEF DoTasksRest, Reissues
        <5> QED
          BY <2>0, <3>1, <4>1, <5>1
      <4> QED
        BY <3>5, <4>2, <4>3
    <3>6. CASE /\ Becomes(EmptyRing) /\ counter = 0 /\ config' \in {config, Erased}
               /\ config \in Fields => Reads /\ ~config.reissue
      BY <3>2, <3>6, WaitingPlaces DEF Waiting
    <3>7. CASE /\ Becomes(config) /\ config \in Fields /\ config.reissue /\ config' = Erased
               /\ counter > 0 => InUse \subseteq SavedInUse
      <4>1. head' = config.head /\ counter' = config.counter
        BY <3>7 DEF Becomes
      <4>2. InUse' = SavedInUse
        BY <4>1 DEF InUse, SavedInUse, Window, At
      <4>3. InUse \subseteq SavedInUse
        BY <3>2, <3>4, <3>7
      <4> QED
        BY <3>1, <4>2, <4>3, WaitingPlaces DEF Waiting
    <3> QED
      BY <2>4, <3>5, <3>6, <3>7, RestCases
  <2>5. CASE UploadOne
    BY <2>5, Zenon DEF UploadOne, Inv, ControlOK, OnlineOK
  <2>6. CASE UploadEnds
    BY <2>0, <2>6 DEF UploadEnds, fifo
  <2>7. CASE Reset /\ config # Erased /\ pc = "idle"
    <3>1. Buff' = Buff /\ config' = config
      BY <2>7 DEF Reset
    <3>2. SavedInUse' = SavedInUse
      BY <3>1 DEF SavedInUse, Window, At
    <3>3. counter \in Nat /\ config \in Fields \cup {Erased, MarkOnly}
      BY RingTypes, FifoAssumption DEF Inv, Typed, TypeOK, RingTyped
    <3>4. counter = 0 => InUse = {}
      BY DEF InUse, Window
    <3>5. counter > 0 => config \in Fields /\ config.reissue /\ InUse \subseteq SavedInUse
      BY <2>7, <3>3 DEF Inv, ControlOK, SavedOK
    <3> QED
      BY <3>1, <3>2, <3>3, <3>4, <3>5, WaitingPlaces DEF Waiting
  <2>8. CASE UNCHANGED vars
    BY <2>0, <2>8 DEF vars, ram
  <2> QED
    BY <2>1, <2>2, <2>3, <2>4, <2>5, <2>6, <2>7, <2>8, NextCases
<1> QED
  BY <1>1, InvHolds, PTL DEF Spec, KeepsWaiting
=============================================================================
