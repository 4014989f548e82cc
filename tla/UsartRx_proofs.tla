---------------------------- MODULE UsartRx_proofs ----------------------------
(***************************************************************************)
(* The bytes of a USART reach the data handler in order and once, for      *)
(* halves of every size, every time-out and every number of bytes.         *)
(***************************************************************************)
EXTENDS UsartRx, TLAPS

Handling == {"readOlder", "clearOlder", "readNewer", "clearNewer"}
Reading  == {"readOlder", "readNewer"}

(* The bytes handed over before the half that is given now. *)
Base == IF pc \in Handling THEN Len(handed) - pos ELSE Len(handed)

(* Without an overrun the half the interrupt does not write to holds what   *)
(* follows the bytes handed over, and the other one what follows these; and *)
(* the choice of the switch statement stays right until the digest has gone *)
(* over to the other half itself.                                           *)
Places ==
  LET o == Other(bufferType) IN
  /\ \A i \in 1 .. Len(handed) : handed[i] = i
  /\ \A i \in 1 .. counter[o] : buffer[o][i] = Base + i
  /\ \A i \in 1 .. counter[bufferType] : buffer[bufferType][i] = Base + counter[o] + i
  /\ arrived = Base + counter[o] + counter[bufferType]

Choice ==
  /\ pc \in {"older", "readOlder", "clearOlder", "newer"} => bufferType = active
  /\ pc = "newer" => counter[Other(active)] = 0
  /\ pc \in {"give", "readNewer", "clearNewer"} => bufferType = Other(active)
  /\ pc \in Handling => length = counter[Other(bufferType)] /\ pos <= length /\ pos <= Len(handed)
  /\ pc \in Handling \ Reading => pos = length

OrderInv == overrun \/ (Places /\ Choice)

(* The places of a half whose byte was not handed over: those that count,   *)
(* and those the data handler is still to read, whatever became of the count. *)
Fresh(b, i) ==
  /\ \/ i \in 1 .. counter[b]
     \/ pc \in Reading /\ b = Given /\ i \in 1 .. length
  /\ pc \in Handling /\ b = Given => i > pos

(* Bytes are handed over once: none that was is in such a place, and none is *)
(* in two.  The bytes to come are larger than all of them.                   *)
OnceInv ==
  /\ HandedOnce
  /\ \A k \in 1 .. Len(handed) : handed[k] <= arrived
  /\ \A b \in Buffers : \A i \in 1 .. HalfBufferSize : Fresh(b, i) =>
       /\ buffer[b][i] <= arrived
       /\ \A k \in 1 .. Len(handed) : handed[k] # buffer[b][i]
  /\ \A b, c \in Buffers : \A i, j \in 1 .. HalfBufferSize :
       Fresh(b, i) /\ Fresh(c, j) /\ buffer[b][i] = buffer[c][j] => b = c /\ i = j

(* The types of the Booleans, and the others. *)
BoolOK == queued \in BOOLEAN /\ timeout \in BOOLEAN /\ overrun \in BOOLEAN
NumOK ==
  /\ bufferType \in Buffers /\ active \in Buffers
  /\ counter \in [Buffers -> 0 .. HalfBufferSize]
  /\ buffer \in [Buffers -> [1 .. HalfBufferSize -> 0 .. LastByte]]
  /\ procCount \in 0 .. RxTimeout
  /\ pc \in {"idle", "count", "switch", "older", "readOlder", "clearOlder",
             "newer", "give", "readNewer", "clearNewer"}
  /\ length \in Nat /\ pos \in Nat
  /\ pc \in Reading => length <= HalfBufferSize /\ pos <= length
  /\ arrived \in 0 .. LastByte
  /\ handed \in Seq(0 .. LastByte)

LEMMA Types == TypeOK <=> NumOK /\ BoolOK
BY DEF TypeOK, NumOK, BoolOK, Reading

(* The steps, one by one. *)
LEMMA Actions ==
  ASSUME [Next]_vars
  PROVE  \/ Store \/ GoOver \/ LowLevelDataProcess \/ Load \/ Count \/ Switch \/ Older
         \/ Newer \/ Give \/ Read \/ HandlerReturns \/ Clear \/ UNCHANGED vars
BY DEF Next, ReceiveHandler, Digest

(* What the interrupt writes. *)
LEMMA StoreDoes ==
  ASSUME TypeOK, Store
  PROVE  /\ counter' \in [Buffers -> 0 .. HalfBufferSize]
         /\ buffer' \in [Buffers -> [1 .. HalfBufferSize -> 0 .. LastByte]]
         /\ counter[bufferType] + 1 \in 1 .. HalfBufferSize
         /\ \A b \in Buffers : counter'[b] = IF b = bufferType THEN counter[b] + 1 ELSE counter[b]
         /\ \A b \in Buffers : \A i \in 1 .. HalfBufferSize :
              buffer'[b][i] = IF b = bufferType /\ i = counter[b] + 1 THEN arrived + 1 ELSE buffer[b][i]
<1>1. counter[bufferType] \in 0 .. HalfBufferSize /\ bufferType \in Buffers
  BY DEF TypeOK
<1>2. counter[bufferType] + 1 \in 1 .. HalfBufferSize
  BY <1>1, UsartAssumption DEF Store
<1>3. arrived + 1 \in 0 .. LastByte
  BY UsartAssumption DEF TypeOK, Store
<1>4. /\ counter \in [Buffers -> 0 .. HalfBufferSize]
      /\ buffer \in [Buffers -> [1 .. HalfBufferSize -> 0 .. LastByte]]
  BY DEF TypeOK
<1>5. counter' = [counter EXCEPT ![bufferType] = counter[bufferType] + 1]
  BY DEF Store
<1>6. buffer' = [buffer EXCEPT ![bufferType] =
                   [buffer[bufferType] EXCEPT ![counter[bufferType] + 1] = arrived + 1]]
  BY DEF Store
<1>7. [buffer[bufferType] EXCEPT ![counter[bufferType] + 1] = arrived + 1]
        \in [1 .. HalfBufferSize -> 0 .. LastByte]
  BY <1>1, <1>2, <1>3, <1>4
<1> QED BY <1>1, <1>2, <1>4, <1>5, <1>6, <1>7, UsartAssumption

LEMMA GoOverDoes ==
  ASSUME TypeOK, GoOver
  PROVE  /\ Other(bufferType) \in Buffers /\ bufferType' = Other(bufferType)
         /\ Other(bufferType') = bufferType
         /\ counter' \in [Buffers -> 0 .. HalfBufferSize]
         /\ buffer' \in [Buffers -> [1 .. HalfBufferSize -> 0 .. LastByte]]
         /\ \A b \in Buffers : counter'[b] = IF b = Other(bufferType) THEN 1 ELSE counter[b]
         /\ \A b \in Buffers : \A i \in 1 .. HalfBufferSize :
              buffer'[b][i] = IF b = Other(bufferType) /\ i = 1 THEN arrived + 1 ELSE buffer[b][i]
<1> DEFINE o == Other(bufferType)
<1>1. o \in Buffers /\ bufferType' = o /\ Other(o) = bufferType
  BY DEF TypeOK, GoOver, Other, Buffers
<1>2. 1 \in 1 .. HalfBufferSize /\ 1 \in 0 .. HalfBufferSize
  BY UsartAssumption
<1>3. arrived + 1 \in 0 .. LastByte
  BY UsartAssumption DEF TypeOK, GoOver
<1>4. /\ counter \in [Buffers -> 0 .. HalfBufferSize]
      /\ buffer \in [Buffers -> [1 .. HalfBufferSize -> 0 .. LastByte]]
  BY DEF TypeOK
<1>5. counter' = [counter EXCEPT ![o] = 1]
  BY DEF GoOver
<1>6. buffer' = [buffer EXCEPT ![o] = [buffer[o] EXCEPT ![1] = arrived + 1]]
  BY DEF GoOver
<1>7. [buffer[o] EXCEPT ![1] = arrived + 1] \in [1 .. HalfBufferSize -> 0 .. LastByte]
  BY <1>1, <1>2, <1>3, <1>4
<1> HIDE DEF o
<1>8. /\ counter' \in [Buffers -> 0 .. HalfBufferSize]
      /\ buffer' \in [Buffers -> [1 .. HalfBufferSize -> 0 .. LastByte]]
      /\ \A b \in Buffers : counter'[b] = IF b = o THEN 1 ELSE counter[b]
      /\ \A b \in Buffers : \A i \in 1 .. HalfBufferSize :
           buffer'[b][i] = IF b = o /\ i = 1 THEN arrived + 1 ELSE buffer[b][i]
  BY <1>1, <1>2, <1>4, <1>5, <1>6, <1>7
<1> QED BY <1>1, <1>8 DEF o

(* The initial state. *)
LEMMA InitHolds ==
  ASSUME Init
  PROVE  TypeOK /\ OrderInv /\ OnceInv
<1>1. TypeOK
  <2>1. NumOK
    BY UsartAssumption DEF Init, NumOK, Buffers, Reading
  <2> QED BY <2>1, Types DEF Init, BoolOK
<1>2. OrderInv
  BY DEF Init, OrderInv, Places, Choice, Base, Handling, Reading, Buffers, Other
<1>3. OnceInv
  <2>1. ASSUME NEW b \in Buffers, NEW i PROVE ~Fresh(b, i)
    BY <2>1 DEF Init, Fresh, Handling, Reading
  <2> QED BY <2>1 DEF Init, OnceInv, HandedOnce
<1> QED BY <1>1, <1>2, <1>3

(* Every step keeps the types. *)
LEMMA TypeStep ==
  ASSUME TypeOK, [Next]_vars
  PROVE  TypeOK'
<1>1. NumOK /\ BoolOK
  BY Types
<1>2. NumOK'
  <2> USE <1>1 DEF NumOK, Reading, line, locals
  <2>1. CASE Store
    <3>1. arrived + 1 \in 0 .. LastByte /\ 0 \in 0 .. RxTimeout
      BY <2>1, UsartAssumption DEF Store
    <3> QED BY <2>1, <3>1, StoreDoes DEF Store
  <2>2. CASE GoOver
    <3>1. arrived + 1 \in 0 .. LastByte /\ 0 \in 0 .. RxTimeout
      BY <2>2, UsartAssumption DEF GoOver
    <3> QED BY <2>2, <3>1, GoOverDoes DEF GoOver
  <2>3. CASE LowLevelDataProcess \/ Load \/ Switch
    BY <2>3 DEF LowLevelDataProcess, Load, Switch
  <2>4. CASE Count
    BY <2>4, UsartAssumption DEF Count
  <2>5. CASE Older
    <3>1. Other(active) \in Buffers
      BY DEF Other, Buffers
    <3>2. counter[Other(active)] \in 0 .. HalfBufferSize
      BY <3>1
    <3>3. pc' \in {"readOlder", "newer"} /\ length' \in 0 .. HalfBufferSize /\ pos' = 0
      BY <2>5, <3>2, UsartAssumption DEF Older
    <3>4. UNCHANGED <<bufferType, counter, buffer, procCount, active, arrived, handed>>
      BY <2>5 DEF Older
    <3> QED BY <3>3, <3>4, UsartAssumption
  <2>6. CASE Clear
    <3>1. Given \in Buffers
      BY DEF Given, Other, Buffers
    <3>2. counter' = [counter EXCEPT ![Given] = 0] /\ pc' \in {"newer", "idle"}
      BY <2>6 DEF Clear
    <3>3. counter' \in [Buffers -> 0 .. HalfBufferSize]
      BY <3>1, <3>2, UsartAssumption
    <3> QED BY <2>6, <3>2, <3>3 DEF Clear
  <2>7. CASE Read
    <3>1. pos + 1 \in 1 .. HalfBufferSize /\ Given \in Buffers
      BY <2>7, UsartAssumption DEF Read, Given, Other, Buffers
    <3>2. buffer[Given][pos + 1] \in 0 .. LastByte
      BY <3>1
    <3> QED BY <2>7, <3>2 DEF Read
  <2>8. CASE UNCHANGED vars
    BY <2>8 DEF vars
  <2>9. CASE Newer
    BY <2>9 DEF Newer, Buffers, Other
  <2>10. CASE Give
    BY <2>10, UsartAssumption DEF Give
  <2>11. CASE HandlerReturns
    BY <2>11 DEF HandlerReturns
  <2> QED BY Actions, <2>1, <2>2, <2>3, <2>4, <2>5, <2>6, <2>7, <2>8, <2>9, <2>10, <2>11
<1>3. BoolOK'
  <2>1. queued' \in BOOLEAN
    BY <1>1, Actions DEF BoolOK, Store, GoOver, LowLevelDataProcess, Load, Count, Switch, Older, Newer,
       Give, Read, HandlerReturns, Clear, vars
  <2>2. timeout' \in BOOLEAN
    <3>1. CASE Count
      BY <3>1 DEF Count
    <3> QED BY <1>1, <3>1, Actions DEF BoolOK, Store, GoOver, LowLevelDataProcess, Load, Switch, Older,
            Newer, Give, Read, HandlerReturns, Clear, vars, locals
  <2>3. overrun' \in BOOLEAN
    BY <1>1, Actions DEF BoolOK, Store, GoOver, LowLevelDataProcess, Load, Count, Switch, Older, Newer,
       Give, Read, HandlerReturns, Clear, vars
  <2> QED BY <2>1, <2>2, <2>3 DEF BoolOK
<1> QED BY <1>2, <1>3, Types DEF TypeOK, NumOK, BoolOK, Reading

(* Without an overrun every step keeps the bytes in their places. *)
LEMMA OrderStep ==
  ASSUME TypeOK, OrderInv, [Next]_vars
  PROVE  OrderInv'
<1> USE DEF Handling, Reading
<1>1. NumOK /\ BoolOK
  BY Types
<1>2. overrun => overrun'
  BY <1>1, Actions DEF Store, GoOver, LowLevelDataProcess, Load, Count, Switch, Older,
     Newer, Give, Read, HandlerReturns, Clear, vars, BoolOK
<1> SUFFICES ASSUME ~overrun'
             PROVE  Places' /\ Choice'
  BY DEF OrderInv
<1>3. Places /\ Choice
  BY <1>2 DEF OrderInv
<1>4. /\ Len(handed) \in Nat /\ pos \in Nat /\ arrived \in Nat
      /\ bufferType \in Buffers /\ Other(bufferType) \in Buffers /\ Other(bufferType) # bufferType
      /\ \A b \in Buffers : counter[b] \in 0 .. HalfBufferSize /\ counter[b] \in Nat
  BY <1>1, UsartAssumption DEF NumOK, Buffers, Other
<1>5. CASE Store
  <2>1. UNCHANGED <<bufferType, pc, active, length, pos, handed>> /\ arrived' = arrived + 1
    BY <1>5 DEF Store, locals
  <2>2. Choice'
    BY <1>3, <1>4, <1>5, <2>1, StoreDoes DEF Choice, Other, Buffers
  <2>3. Base' = Base /\ Base \in Int
    BY <1>4, <2>1 DEF Base
  <2>4. Places'
    <3> DEFINE o == Other(bufferType)
               b == bufferType
    <3>1. counter'[o] = counter[o] /\ counter'[b] = counter[b] + 1 /\ counter[b] + 1 \in 1 .. HalfBufferSize
      BY <1>4, <1>5, StoreDoes
    <3>2. \A i \in 1 .. counter[o] : buffer'[o][i] = buffer[o][i]
      BY <1>4, <1>5, StoreDoes, UsartAssumption, SMTT(30)
    <3>3. \A i \in 1 .. counter[b] + 1 :
            buffer'[b][i] = IF i = counter[b] + 1 THEN arrived + 1 ELSE buffer[b][i]
      BY <1>4, <1>5, <3>1, StoreDoes, UsartAssumption
    <3>4. /\ \A i \in 1 .. Len(handed) : handed[i] = i
          /\ \A i \in 1 .. counter[o] : buffer[o][i] = Base + i
          /\ \A i \in 1 .. counter[b] : buffer[b][i] = Base + counter[o] + i
          /\ arrived = Base + counter[o] + counter[b]
      BY <1>3 DEF Places
    <3>5. o' = o /\ b' = b
      BY <2>1
    <3> HIDE DEF o, b
    <3>6. counter[o] \in Nat /\ counter[b] \in Nat
      BY <1>4 DEF o, b
    <3>7. /\ \A i \in 1 .. counter'[o] : buffer'[o][i] = Base' + i
          /\ arrived' = Base' + counter'[o] + counter'[b]
      BY <1>4, <2>1, <2>3, <3>1, <3>2, <3>4, <3>6
    <3>8. ASSUME NEW i \in 1 .. counter'[b]
          PROVE  buffer'[b][i] = Base' + counter'[o] + i
      <4>1. i \in 1 .. counter[b] + 1 /\ (i # counter[b] + 1 => i \in 1 .. counter[b])
        BY <3>1, <3>6
      <4>2. CASE i = counter[b] + 1
        BY <2>3, <3>1, <3>3, <3>4, <3>6, <4>1, <4>2, SMTT(30)
      <4>3. CASE i # counter[b] + 1
        BY <2>3, <3>1, <3>3, <3>4, <4>1, <4>3
      <4> QED BY <4>2, <4>3
    <3> QED BY <2>1, <3>4, <3>5, <3>7, <3>8 DEF Places, o, b
  <2> QED BY <2>2, <2>4
<1>6. CASE GoOver
  <2>1. UNCHANGED <<pc, active, length, pos, handed>> /\ arrived' = arrived + 1
    BY <1>6 DEF GoOver, locals
  <2>2. ~InUse(Other(bufferType)) /\ counter[bufferType] >= HalfBufferSize
    BY <1>6 DEF GoOver
  <2>3. counter[Other(bufferType)] = 0 /\ pc \in {"idle", "count", "switch"}
    BY <1>4, <2>2 DEF InUse
  <2>4. Choice'
    BY <2>1, <2>3 DEF Choice
  <2>5. Base' = Base /\ Base \in Int
    BY <1>4, <2>1 DEF Base
  <2>6. Places'
    <3> DEFINE o == Other(bufferType)
               b == bufferType
    <3>1. counter'[o] = 1 /\ counter'[b] = counter[b] /\ bufferType' = o /\ Other(bufferType') = b
      BY <1>4, <1>6, GoOverDoes
    <3>2. \A i \in 1 .. counter[b] : buffer'[b][i] = buffer[b][i]
      BY <1>4, <1>6, GoOverDoes, UsartAssumption
    <3>3. buffer'[o][1] = arrived + 1
      BY <1>4, <1>6, GoOverDoes, UsartAssumption
    <3>4. /\ \A i \in 1 .. Len(handed) : handed[i] = i
          /\ \A i \in 1 .. counter[b] : buffer[b][i] = Base + counter[o] + i
          /\ arrived = Base + counter[o] + counter[b] /\ counter[o] = 0
      BY <1>3, <2>3 DEF Places
    <3> HIDE DEF o, b
    <3>5. counter[b] \in Nat
      BY <1>4 DEF b
    <3>6. \A i \in 1 .. counter'[b] : buffer'[b][i] = Base' + i
      BY <2>5, <3>1, <3>2, <3>4, <3>5
    <3>7. /\ \A i \in 1 .. counter'[o] : buffer'[o][i] = Base' + counter'[b] + i
          /\ arrived' = Base' + counter'[b] + counter'[o]
      BY <2>1, <2>5, <3>1, <3>3, <3>4, <3>5
    <3> QED BY <2>1, <3>1, <3>4, <3>6, <3>7 DEF Places
  <2> QED BY <2>4, <2>6
<1>7. CASE Read
  <2>1. /\ UNCHANGED <<bufferType, counter, buffer, pc, active, length, arrived>>
        /\ handed' = Append(handed, buffer[Given][pos + 1]) /\ pos' = pos + 1 /\ pos < length
        /\ pc \in Reading
    BY <1>7 DEF Read, line
  <2>2. Given = Other(bufferType) /\ length = counter[Other(bufferType)] /\ pos <= Len(handed)
    BY <1>1, <1>3, <2>1 DEF Choice, Given, Other, Buffers, NumOK
  <2>3. buffer[Given][pos + 1] = Len(handed) + 1
    BY <1>3, <1>4, <2>1, <2>2 DEF Places, Base
  <2>4. /\ Len(handed') = Len(handed) + 1
        /\ \A i \in 1 .. Len(handed') :
             handed'[i] = IF i = Len(handed) + 1 THEN Len(handed) + 1 ELSE handed[i]
    BY <1>1, <2>1, <2>3 DEF NumOK
  <2>5. Base' = Base
    BY <1>4, <2>1, <2>4 DEF Base
  <2>6. Choice'
    BY <1>3, <1>4, <2>1, <2>2, <2>4 DEF Choice, Other
  <2>7. Places'
    BY <1>3, <1>4, <2>1, <2>4, <2>5 DEF Places
  <2> QED BY <2>6, <2>7
<1>8. CASE Clear
  <2>1. /\ UNCHANGED <<bufferType, buffer, active, length, pos, arrived, handed>>
        /\ counter' = [counter EXCEPT ![Given] = 0] /\ pc \in {"clearOlder", "clearNewer"}
        /\ pc' = IF pc = "clearOlder" THEN "newer" ELSE "idle"
    BY <1>8 DEF Clear, locals
  <2>2. Given = Other(bufferType) /\ pos = counter[Other(bufferType)] /\ pos <= Len(handed)
    BY <1>1, <1>3, <2>1 DEF Choice, Given, Other, Buffers, NumOK
  <2>3. counter'[Other(bufferType)] = 0 /\ counter'[bufferType] = counter[bufferType]
    BY <1>1, <1>4, <2>1, <2>2 DEF NumOK
  <2>4. Base' = Base + pos /\ Base = Len(handed) - pos
    BY <1>4, <2>1 DEF Base
  <2>5. Choice'
    BY <1>3, <2>1, <2>3 DEF Choice, Other
  <2>6. Places'
    <3> DEFINE o == Other(bufferType)
               b == bufferType
    <3>1. /\ \A i \in 1 .. Len(handed) : handed[i] = i
          /\ \A i \in 1 .. counter[b] : buffer[b][i] = Base + counter[o] + i
          /\ arrived = Base + counter[o] + counter[b]
      BY <1>3 DEF Places
    <3>2. counter'[o] = 0 /\ counter'[b] = counter[b] /\ Base' = Base + counter[o]
      BY <2>2, <2>3, <2>4
    <3>3. counter[b] \in Nat /\ counter[o] \in Nat /\ Base \in Int
      BY <1>4, <2>4
    <3>4. o' = o /\ b' = b
      BY <2>1
    <3> HIDE DEF o, b
    <3>5. /\ \A i \in 1 .. counter'[o] : buffer'[o][i] = Base' + i
          /\ \A i \in 1 .. counter'[b] : buffer'[b][i] = Base' + counter'[o] + i
          /\ arrived' = Base' + counter'[o] + counter'[b]
      BY <2>1, <3>1, <3>2, <3>3
    <3> QED BY <2>1, <3>1, <3>4, <3>5 DEF Places, o, b
  <2> QED BY <2>5, <2>6
<1>9. CASE Newer
  <2>1. UNCHANGED <<counter, buffer, active, length, pos, arrived, handed>> /\ pc = "newer"
    BY <1>9 DEF Newer, locals
  <2>2. bufferType = active /\ counter[Other(active)] = 0
    BY <1>3, <2>1 DEF Choice
  <2>3. Base = Len(handed) /\ Base' = Len(handed)
    BY <1>9, <2>1 DEF Base, Newer
  <2>4. CASE pc' = "give"
    <3>1. bufferType' = Other(active) /\ Other(bufferType') = bufferType
      BY <1>4, <1>9, <2>2, <2>4 DEF Newer, Other, Buffers
    <3>2. Choice'
      BY <2>4, <2>1, <3>1 DEF Choice
    <3>3. Places'
      BY <1>3, <1>4, <2>1, <2>2, <2>3, <3>1 DEF Places
    <3> QED BY <3>2, <3>3
  <2>5. CASE pc' = "idle" /\ UNCHANGED bufferType
    BY <1>3, <2>1, <2>3, <2>5 DEF Places, Choice
  <2> QED BY <1>9, <2>4, <2>5 DEF Newer
<1>10. CASE Older \/ Give
  <2>1. /\ UNCHANGED <<bufferType, counter, buffer, active, arrived, handed>> /\ pos' = 0
        /\ pc \in {"older", "give"} /\ pc' \in {"readOlder", "readNewer", "newer"}
    BY <1>10 DEF Older, Give, line
  <2>2. Base = Len(handed) /\ Base' = Len(handed)
    BY <1>4, <2>1 DEF Base
  <2>3. Choice'
    <3>1. CASE Older
      BY <1>3, <1>4, <2>1, <3>1 DEF Older, Choice
    <3>2. CASE Give
      BY <1>1, <1>3, <1>4, <2>1, <3>2 DEF Give, Choice, NumOK, Other, Buffers
    <3> QED BY <1>10, <3>1, <3>2
  <2>4. Places'
    BY <1>3, <2>1, <2>2 DEF Places
  <2> QED BY <2>3, <2>4
<1>11. CASE HandlerReturns
  <2>1. /\ UNCHANGED <<bufferType, counter, buffer, active, length, pos, arrived, handed>>
        /\ pc \in Reading /\ pos >= length
        /\ pc' = IF pc = "readOlder" THEN "clearOlder" ELSE "clearNewer"
    BY <1>11 DEF HandlerReturns, line, locals
  <2>2. Base' = Base
    BY <2>1 DEF Base
  <2>3. Choice'
    BY <1>1, <1>3, <1>4, <2>1 DEF Choice, NumOK
  <2>4. Places'
    BY <1>3, <2>1, <2>2 DEF Places
  <2> QED BY <2>3, <2>4
<1>12. CASE LowLevelDataProcess \/ Load \/ Count \/ Switch \/ UNCHANGED vars
  <2>1. UNCHANGED <<bufferType, counter, buffer, pos, arrived, handed>>
    BY <1>12 DEF LowLevelDataProcess, Load, Count, Switch, line, locals, vars
  <2>2. Base' = Base
    BY <1>12, <2>1 DEF Base, LowLevelDataProcess, Load, Count, Switch, locals, vars
  <2>3. Places'
    BY <1>3, <2>1, <2>2 DEF Places
  <2>4. Choice'
    BY <1>3, <1>12, <2>1 DEF Choice, LowLevelDataProcess, Load, Count, Switch, locals, vars
  <2> QED BY <2>3, <2>4
<1> QED BY Actions, <1>5, <1>6, <1>7, <1>8, <1>9, <1>10, <1>11, <1>12

(* The interrupt makes one place fresh, with a byte larger than any other. *)
LEMMA ArrivalOnce ==
  ASSUME TypeOK, OnceInv, Store \/ GoOver
  PROVE  OnceInv'
<1>1. NumOK
  BY Types
<1>2. UNCHANGED <<pc, active, length, pos, handed>> /\ arrived' = arrived + 1 /\ arrived \in Nat
  BY <1>1, UsartAssumption DEF Store, GoOver, locals, NumOK
<1>3. PICK b1 \in Buffers, i1 \in 1 .. HalfBufferSize :
        /\ \A b \in Buffers : \A i \in 1 .. HalfBufferSize :
             buffer'[b][i] = IF b = b1 /\ i = i1 THEN arrived + 1 ELSE buffer[b][i]
        /\ \A b \in Buffers : \A i : i \in 1 .. counter'[b] => i \in 1 .. counter[b] \/ (b = b1 /\ i = i1)
  <2>1. CASE Store
    <3>1. /\ bufferType \in Buffers /\ counter[bufferType] + 1 \in 1 .. HalfBufferSize
          /\ \A b \in Buffers : counter[b] \in Nat
      BY <1>1, <2>1, StoreDoes, UsartAssumption DEF NumOK
    <3>2. \A b \in Buffers : \A i : i \in 1 .. counter'[b] =>
            i \in 1 .. counter[b] \/ (b = bufferType /\ i = counter[bufferType] + 1)
      BY <2>1, <3>1, StoreDoes
    <3>3. \A b \in Buffers : \A i \in 1 .. HalfBufferSize :
            buffer'[b][i] = IF b = bufferType /\ i = counter[bufferType] + 1 THEN arrived + 1 ELSE buffer[b][i]
      BY <2>1, StoreDoes
    <3> QED BY <3>1, <3>2, <3>3
  <2>2. CASE GoOver
    <3>1. Other(bufferType) \in Buffers /\ 1 \in 1 .. HalfBufferSize
      BY <2>2, GoOverDoes, UsartAssumption
    <3>2. \A b \in Buffers : \A i : i \in 1 .. counter'[b] =>
            i \in 1 .. counter[b] \/ (b = Other(bufferType) /\ i = 1)
      BY <2>2, GoOverDoes
    <3>3. \A b \in Buffers : \A i \in 1 .. HalfBufferSize :
            buffer'[b][i] = IF b = Other(bufferType) /\ i = 1 THEN arrived + 1 ELSE buffer[b][i]
      BY <2>2, GoOverDoes
    <3> QED BY <3>1, <3>2, <3>3
  <2> QED BY <2>1, <2>2
<1>4. ASSUME NEW b \in Buffers, NEW i \in 1 .. HalfBufferSize, Fresh(b, i)'
      PROVE  Fresh(b, i) \/ (b = b1 /\ i = i1)
  <2>1. Given' = Given
    BY <1>2 DEF Given, Other
  <2> QED BY <1>2, <1>3, <1>4, <2>1 DEF Fresh
<1>5. \A b \in Buffers : \A i \in 1 .. HalfBufferSize : buffer[b][i] \in Nat
  BY <1>1, UsartAssumption DEF NumOK
<1>6. \A k \in 1 .. Len(handed) : handed[k] \in Nat
  BY <1>1, UsartAssumption DEF NumOK
<1>7. HandedOnce'
  BY <1>2 DEF OnceInv, HandedOnce
<1>8. \A k \in 1 .. Len(handed') : handed'[k] <= arrived'
  BY <1>2, <1>6 DEF OnceInv
<1>9. ASSUME NEW b \in Buffers, NEW i \in 1 .. HalfBufferSize, Fresh(b, i)'
      PROVE  buffer'[b][i] <= arrived' /\ \A k \in 1 .. Len(handed') : handed'[k] # buffer'[b][i]
  <2>1. CASE b = b1 /\ i = i1
    <3>1. buffer'[b][i] = arrived + 1
      BY <1>3, <2>1
    <3> QED BY <1>2, <1>6, <3>1 DEF OnceInv
  <2>2. CASE ~(b = b1 /\ i = i1)
    <3>1. buffer'[b][i] = buffer[b][i] /\ Fresh(b, i)
      BY <1>3, <1>4, <1>9, <2>2
    <3> QED BY <1>2, <1>5, <3>1 DEF OnceInv
  <2> QED BY <2>1, <2>2
<1>10. ASSUME NEW b \in Buffers, NEW c \in Buffers, NEW i \in 1 .. HalfBufferSize, NEW j \in 1 .. HalfBufferSize,
              Fresh(b, i)', Fresh(c, j)', buffer'[b][i] = buffer'[c][j]
       PROVE  b = c /\ i = j
  <2>1. Fresh(b, i) => buffer[b][i] \in Nat /\ buffer[b][i] <= arrived
    BY <1>5 DEF OnceInv
  <2>2. Fresh(c, j) => buffer[c][j] \in Nat /\ buffer[c][j] <= arrived
    BY <1>5 DEF OnceInv
  <2>3. Fresh(b, i) /\ Fresh(c, j) /\ buffer[b][i] = buffer[c][j] => b = c /\ i = j
    BY DEF OnceInv
  <2>4. /\ Fresh(b, i) \/ (b = b1 /\ i = i1)
        /\ Fresh(c, j) \/ (c = b1 /\ j = i1)
    BY <1>4, <1>10
  <2>5. /\ buffer'[b][i] = IF b = b1 /\ i = i1 THEN arrived + 1 ELSE buffer[b][i]
        /\ buffer'[c][j] = IF c = b1 /\ j = i1 THEN arrived + 1 ELSE buffer[c][j]
    BY <1>3
  <2>6. CASE b = b1 /\ i = i1
    <3>1. ~(c = b1 /\ j = i1) => buffer'[c][j] <= arrived
      BY <2>2, <2>4, <2>5
    <3> QED BY <1>2, <1>10, <2>5, <2>6, <3>1
  <2>7. CASE c = b1 /\ j = i1
    <3>1. ~(b = b1 /\ i = i1) => buffer'[b][i] <= arrived
      BY <2>1, <2>4, <2>5
    <3>2. buffer'[b][i] = arrived + 1
      BY <1>10, <2>5, <2>7
    <3> QED BY <1>2, <2>7, <3>1, <3>2
  <2>8. CASE ~(b = b1 /\ i = i1) /\ ~(c = b1 /\ j = i1)
    BY <1>10, <2>3, <2>4, <2>5, <2>8
  <2> QED BY <2>6, <2>7, <2>8
<1> QED BY <1>7, <1>8, <1>9, <1>10 DEF OnceInv

(* The data handler takes a fresh byte and leaves it behind. *)
LEMMA ReadOnce ==
  ASSUME TypeOK, OnceInv, Read
  PROVE  OnceInv'
<1> DEFINE v == buffer[Given][pos + 1]
<1>1. NumOK
  BY Types
<1>2. /\ UNCHANGED <<counter, buffer, pc, active, length, arrived>> /\ pos' = pos + 1 /\ pos < length
      /\ pc \in Reading /\ handed' = Append(handed, v)
  BY DEF Read, line, Reading
<1>3. Given' = Given /\ Given \in Buffers
  BY <1>1, <1>2 DEF Given, NumOK, Buffers, Other
<1>4. pos + 1 \in 1 .. HalfBufferSize /\ pos \in Nat /\ length \in Nat
  BY <1>1, <1>2, UsartAssumption DEF NumOK
<1>5. Fresh(Given, pos + 1)
  BY <1>2, <1>4 DEF Fresh
<1>6. ASSUME NEW b \in Buffers, NEW i \in 1 .. HalfBufferSize, Fresh(b, i)'
      PROVE  Fresh(b, i) /\ ~(b = Given /\ i = pos + 1)
  BY <1>2, <1>3, <1>4, <1>6 DEF Fresh, Handling, Reading
<1>7. v <= arrived /\ \A k \in 1 .. Len(handed) : handed[k] # v
  BY <1>3, <1>4, <1>5 DEF OnceInv
<1>8. /\ Len(handed) \in Nat /\ Len(handed') = Len(handed) + 1
      /\ \A k \in 1 .. Len(handed') : handed'[k] = IF k = Len(handed) + 1 THEN v ELSE handed[k]
  <2>1. handed \in Seq(0 .. LastByte) /\ v \in 0 .. LastByte
    BY <1>1, <1>3, <1>4 DEF NumOK
  <2> HIDE DEF v
  <2> QED BY <1>2, <2>1
<1> HIDE DEF v
<1>9. HandedOnce'
  <2>1. \A i, j \in 1 .. Len(handed) : handed[i] = handed[j] => i = j
    BY DEF OnceInv, HandedOnce
  <2>2. ASSUME NEW i \in 1 .. Len(handed'), NEW j \in 1 .. Len(handed'), handed'[i] = handed'[j]
        PROVE  i = j
    BY <1>7, <1>8, <2>1, <2>2
  <2> QED BY <2>2 DEF HandedOnce
<1>10. \A k \in 1 .. Len(handed') : handed'[k] <= arrived'
  BY <1>2, <1>7, <1>8 DEF OnceInv
<1>11. ASSUME NEW b \in Buffers, NEW i \in 1 .. HalfBufferSize, Fresh(b, i)'
       PROVE  buffer'[b][i] <= arrived' /\ \A k \in 1 .. Len(handed') : handed'[k] # buffer'[b][i]
  <2>1. Fresh(b, i) /\ ~(b = Given /\ i = pos + 1)
    BY <1>6, <1>11
  <2>2. buffer[b][i] # v
    BY <1>3, <1>4, <1>5, <2>1 DEF OnceInv, v
  <2>3. buffer[b][i] <= arrived /\ \A k \in 1 .. Len(handed) : handed[k] # buffer[b][i]
    BY <2>1 DEF OnceInv
  <2> QED BY <1>2, <1>8, <2>2, <2>3
<1>12. ASSUME NEW b \in Buffers, NEW c \in Buffers, NEW i \in 1 .. HalfBufferSize, NEW j \in 1 .. HalfBufferSize,
              Fresh(b, i)', Fresh(c, j)', buffer'[b][i] = buffer'[c][j]
       PROVE  b = c /\ i = j
  BY <1>2, <1>6, <1>12 DEF OnceInv
<1> QED BY <1>9, <1>10, <1>11, <1>12 DEF OnceInv

(* Every step keeps what was handed over out of the places to come. *)
LEMMA OnceStep ==
  ASSUME TypeOK, OnceInv, [Next]_vars
  PROVE  OnceInv'
<1>1. NumOK
  BY Types
<1>2. CASE Store \/ GoOver
  BY <1>2, ArrivalOnce
<1>3. CASE Read
  BY <1>3, ReadOnce
<1>4. ASSUME UNCHANGED <<buffer, arrived, handed>>,
             \A b \in Buffers : \A i \in 1 .. HalfBufferSize : Fresh(b, i)' => Fresh(b, i)
      PROVE  OnceInv'
  <2>1. HandedOnce' /\ \A k \in 1 .. Len(handed') : handed'[k] <= arrived'
    BY <1>4 DEF OnceInv, HandedOnce
  <2>2. ASSUME NEW b \in Buffers, NEW i \in 1 .. HalfBufferSize, Fresh(b, i)'
        PROVE  buffer'[b][i] <= arrived' /\ \A k \in 1 .. Len(handed') : handed'[k] # buffer'[b][i]
    BY <1>4, <2>2 DEF OnceInv
  <2>3. ASSUME NEW b \in Buffers, NEW c \in Buffers, NEW i \in 1 .. HalfBufferSize,
               NEW j \in 1 .. HalfBufferSize, Fresh(b, i)', Fresh(c, j)', buffer'[b][i] = buffer'[c][j]
        PROVE  b = c /\ i = j
    BY <1>4, <2>3 DEF OnceInv
  <2> QED BY <2>1, <2>2, <2>3 DEF OnceInv
<1>5. CASE LowLevelDataProcess \/ Load \/ Count \/ Switch \/ Newer \/ UNCHANGED vars
  <2>1. UNCHANGED <<buffer, counter, pos, arrived, handed>>
    BY <1>5 DEF LowLevelDataProcess, Load, Count, Switch, Newer, line, locals, vars
  <2>2. (pc \notin Handling /\ pc' \notin Handling) \/ UNCHANGED <<pc, length, active>>
    BY <1>5 DEF LowLevelDataProcess, Load, Count, Switch, Newer, Handling, locals, vars
  <2>3. ASSUME NEW b \in Buffers, NEW i \in 1 .. HalfBufferSize, Fresh(b, i)' PROVE Fresh(b, i)
    BY <2>1, <2>2, <2>3 DEF Fresh, Handling, Reading, Given, Other
  <2> QED BY <1>4, <2>1, <2>3
<1>6. CASE Older \/ Give
  <2>1. /\ UNCHANGED <<buffer, counter, active, arrived, handed>>
        /\ pc \notin Handling
        /\ pc' \in Reading => length' = counter[Given']
    BY <1>6 DEF Older, Give, line, locals, Given, Handling, Reading, Other
  <2>2. ASSUME NEW b \in Buffers, NEW i \in 1 .. HalfBufferSize, Fresh(b, i)' PROVE Fresh(b, i)
    BY <2>1, <2>2 DEF Fresh, Handling, Reading
  <2> QED BY <1>4, <2>1, <2>2
<1>7. CASE HandlerReturns
  <2>1. /\ UNCHANGED <<buffer, counter, pos, length, active, arrived, handed>>
        /\ pc \in Reading /\ pc' \in Handling \ Reading /\ Given' = Given
    BY <1>7 DEF HandlerReturns, line, locals, Given, Handling, Reading, Other
  <2>2. ASSUME NEW b \in Buffers, NEW i \in 1 .. HalfBufferSize, Fresh(b, i)' PROVE Fresh(b, i)
    BY <2>1, <2>2 DEF Fresh, Handling, Reading
  <2> QED BY <1>4, <2>1, <2>2
<1>8. CASE Clear
  <2>1. /\ UNCHANGED <<buffer, active, arrived, handed>> /\ counter' = [counter EXCEPT ![Given] = 0]
        /\ pc \in Handling \ Reading /\ pc' \notin Handling
    BY <1>8 DEF Clear, locals, Handling, Reading
  <2>2. ASSUME NEW b \in Buffers, NEW i \in 1 .. HalfBufferSize, Fresh(b, i)' PROVE Fresh(b, i)
    <3>1. counter'[b] = IF b = Given THEN 0 ELSE counter[b]
      BY <1>1, <2>1 DEF NumOK
    <3>2. i \in 1 .. counter'[b]
      BY <2>1, <2>2 DEF Fresh, Handling, Reading
    <3>3. b # Given /\ i \in 1 .. counter[b]
      BY <3>1, <3>2
    <3> QED BY <3>3 DEF Fresh
  <2> QED BY <1>4, <2>1, <2>2
<1> QED BY Actions, <1>2, <1>3, <1>5, <1>6, <1>7, <1>8
-------------------------------------------------------------------------------
(* The inductive invariant: the types, the places of the bytes until an      *)
(* overrun, and the places of those not handed over yet.                     *)
THEOREM Invariants == Spec => [](TypeOK /\ OrderInv /\ OnceInv)
<1>1. Init => TypeOK /\ OrderInv /\ OnceInv
  BY InitHolds
<1>2. TypeOK /\ OrderInv /\ OnceInv /\ [Next]_vars => (TypeOK /\ OrderInv /\ OnceInv)'
  BY TypeStep, OrderStep, OnceStep
<1> QED BY <1>1, <1>2, PTL DEF Spec

(* The digest indexes neither half beyond its end, for every size of them. *)
THEOREM TypeCorrect == Spec => []TypeOK
BY Invariants, PTL

(* As long as no half in use was overrun the bytes reach the modem layer in  *)
(* order, and none is missing but those still in the halves.                 *)
THEOREM BytesInOrder == Spec => []InOrder
<1>1. TypeOK /\ OrderInv => InOrder
  <2> SUFFICES ASSUME TypeOK, OrderInv, ~overrun
               PROVE  /\ \A i \in 1 .. Len(handed) : handed[i] = i
                      /\ Len(handed) + Left("rx") + Left("sw") = arrived
    BY DEF InOrder
  <2>1. Places /\ Choice /\ NumOK
    BY Types DEF OrderInv
  <2> DEFINE o == Other(bufferType)
             b == bufferType
  <2>2. (o = "rx" /\ b = "sw") \/ (o = "sw" /\ b = "rx")
    BY <2>1 DEF NumOK, Buffers, Other
  <2>3. counter[o] \in Nat /\ counter[b] \in Nat /\ Len(handed) \in Nat /\ pos \in Nat /\ length \in Nat
    BY <2>1, <2>2, UsartAssumption DEF NumOK, Buffers
  <2>4. pc \in Handling => Given = o
    BY <2>1 DEF Choice, NumOK, Given, Handling, Reading, Buffers, Other
  <2>5. Left(b) = counter[b]
    BY <2>2, <2>4 DEF Left, Handling
  <2>6. Len(handed) + Left(o) = Base + counter[o]
    BY <2>1, <2>3, <2>4 DEF Left, Base, Choice, Handling, Reading
  <2>7. Left(o) \in Int
    BY <2>3, <2>4 DEF Left, Handling
  <2>8. Len(handed) + Left(o) + Left(b) = arrived
    BY <2>1, <2>5, <2>6 DEF Places
  <2>9. Left(b) \in Int
    BY <2>3, <2>5
  <2> HIDE DEF o, b
  <2>10. Len(handed) + Left("rx") + Left("sw") = arrived
    <3>1. CASE o = "rx" /\ b = "sw"
      BY <2>8, <3>1
    <3>2. CASE o = "sw" /\ b = "rx"
      BY <2>3, <2>7, <2>8, <2>9, <3>2
    <3> QED BY <2>2, <3>1, <3>2
  <2> QED BY <2>1, <2>10 DEF Places
<1> QED BY <1>1, Invariants, PTL

(* No byte is handed over twice, whatever was overrun. *)
THEOREM BytesOnce == Spec => []HandedOnce
<1>1. OnceInv => HandedOnce
  BY DEF OnceInv
<1> QED BY <1>1, Invariants, PTL
===============================================================================
