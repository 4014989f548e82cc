--------------------------- MODULE SoftTimer_proofs ---------------------------
(***************************************************************************)
(* As long as no task has come between another's search and its critical   *)
(* section on the same slot, the timer table is in order: counters exact,  *)
(* every slot its subscriber's, every handler run on its tick; for tables  *)
(* of every size, any timers, any tasks, and any handlers they run.        *)
(***************************************************************************)
EXTENDS SoftTimer, FiniteSetTheorems, TLAPS

(* A task in a critical section's call has one. *)
Called == \A t \in Types : pc[t] \in {"fill", "clear"} => call[t] \in [user : Users, slot : Slots]

(* A live slot is the timer of the user that is armed with it. *)
SlotOK(i) ==
  Live(i) => /\ slot[i].hdlr \in Users
             /\ armed[slot[i].hdlr] /\ handle[slot[i].hdlr] = i
             /\ slot[i].type = TypeOf[slot[i].hdlr]
             /\ slot[i].value = Value[slot[i].hdlr]
             /\ (slot[i].cyclic <=> Cyclic[slot[i].hdlr])
             /\ slot[i].count >= 1

(* An armed user's slot is live, but between the end of a one-shot and the   *)
(* call of its handler.                                                      *)
Calling(ty, i) == pc[ty] \in {"call", "enter"} /\ at[ty] = i
UserOK(h) ==
  armed[h] => /\ handle[h] \in Slots
              /\ slot[handle[h]].hdlr = h
              /\ (Live(handle[h]) \/ Calling(TypeOf[h], handle[h]))

(* What the update task, or the user's handler in it, has found still holds. *)
FillOK(t) ==
  pc[t] = "fill" => /\ Owner[call[t].user] = t
                    /\ handle[call[t].user] = None
                    /\ ~armed[call[t].user]
ClearOK(t) ==
  pc[t] = "clear" => /\ Owner[call[t].user] = t
                     /\ handle[call[t].user] = call[t].slot
WalkOK(t) ==
  /\ pc[t] \in {"count", "due", "expire"} => Live(at[t])
  /\ pc[t] \in {"count", "down", "due", "expire", "reload"} /\ Live(at[t]) => slot[at[t]].type = t
  /\ pc[t] = "down" /\ Live(at[t]) => slot[at[t]].count > 1
  /\ pc[t] \in {"due", "expire", "reload"} /\ Live(at[t]) => slot[at[t]].count <= 1
  /\ pc[t] = "expire" => ~slot[at[t]].cyclic
  /\ pc[t] = "reload" => (Live(at[t]) <=> slot[at[t]].cyclic)
  /\ pc[t] = "reload" /\ ~Live(at[t]) => slot[at[t]].hdlr = None
CallOK(t) ==
  pc[t] \in {"call", "enter"} =>
    /\ (pc[t] = "enter" => slot[at[t]].hdlr # None)
    /\ (Live(at[t]) <=> slot[at[t]].cyclic)
    /\ slot[at[t]].hdlr # None =>
         /\ armed[slot[at[t]].hdlr] /\ handle[slot[at[t]].hdlr] = at[t]
         /\ TypeOf[slot[at[t]].hdlr] = t
         /\ elapsed[slot[at[t]].hdlr] \in {Value[slot[at[t]].hdlr] - 1, Value[slot[at[t]].hdlr]}
         /\ (slot[at[t]].cyclic => slot[at[t]].count = Value[slot[at[t]].hdlr])

(* The ticks a timer has seen and those it still counts make up its period,  *)
(* but for one tick until the walk has come by, and one after a subscription *)
(* the same walk has come by.                                                *)
Behind(ty, i) ==
  \/ pc[ty] = "pend" \/ at[ty] > i
  \/ at[ty] = i /\ pc[ty] \in {"handler", "fill", "clear"}
Midway == {"visit", "count", "down", "due", "expire", "reload"}
Ahead(ty, i) ==
  /\ pc[ty] # "pend"
  /\ at[ty] < i \/ (at[ty] = i /\ pc[ty] \in Midway)
TimeOK(i) ==
  Live(i) =>
    LET h   == slot[i].hdlr
        sum == elapsed[h] + slot[i].count
    IN  /\ (Behind(TypeOf[h], i) => sum \in {Value[h] - 1, Value[h]})
        /\ (Ahead(TypeOf[h], i) => sum \in {Value[h], Value[h] + 1})

(* The places of a task. *)
Pcs == {"pend", "visit", "count", "down", "due", "expire", "reload",
        "call", "enter", "handler", "fill", "clear"}

(* The counters, of sets with a name. *)
LiveSlots  == {i \in Slots : Live(i)}
LiveOf(ty) == {i \in Slots : Live(i) /\ slot[i].type = ty}
Counted ==
  /\ tmr_nbr = Cardinality(LiveSlots)
  /\ \A ty \in Types : typeNbr[ty] = Cardinality(LiveOf(ty))

SlotsOK == \A i \in Slots : SlotOK(i)
UsersOK == \A h \in Users : UserOK(h)
TasksOK == \A t \in Types : FillOK(t) /\ ClearOK(t) /\ WalkOK(t) /\ CallOK(t)
TimesOK == \A i \in Slots : TimeOK(i)
InOrder == SlotsOK /\ UsersOK /\ TasksOK /\ TimesOK /\ Counted

Base == TypeOK /\ Called /\ raced \in BOOLEAN
Inv  == Base /\ (raced \/ InOrder)

(* The steps, one by one. *)
LEMMA Actions ==
  ASSUME [Next]_vars
  PROVE  \/ \E ty \in Types : \/ Tick(ty) \/ Pend(ty) \/ VisitOther(ty) \/ VisitMine(ty) \/ VisitCount(ty)
                             \/ CountDown(ty) \/ VisitDue(ty) \/ Expire(ty) \/ Reload(ty)
                             \/ TestHandler(ty) \/ CallHandler(ty) \/ CallNull(ty) \/ Return(ty)
                             \/ SubscribeFill(ty) \/ UnSubscribeClear(ty)
         \/ \E t \in Types, h \in Users : SubscribeScan(t, h) \/ UnSubscribeScan(t, h) \/ Forget(t, h)
         \/ UNCHANGED vars
BY DEF Next, UpdateStep, UserStep

(* A byte, and the step of a walk. *)
LEMMA Byte ==
  \A n \in 0 .. 255 : /\ U8(n + 1) \in 0 .. 255 /\ (n < 255 => U8(n + 1) = n + 1)
                      /\ U8(n - 1) \in 0 .. 255 /\ (n > 0 => U8(n - 1) = n - 1)
<1> SUFFICES ASSUME NEW n \in 0 .. 255
             PROVE  /\ U8(n + 1) \in 0 .. 255 /\ (n < 255 => U8(n + 1) = n + 1)
                    /\ U8(n - 1) \in 0 .. 255 /\ (n > 0 => U8(n - 1) = n - 1)
  OBVIOUS
<1>1. U8(n + 1) \in 0 .. 255 /\ U8(n - 1) \in 0 .. 255
  BY DEF U8
<1>2. n < 255 => U8(n + 1) = n + 1
  BY DEF U8
<1>3. n > 0 => U8(n - 1) = n - 1
  BY DEF U8
<1> QED BY <1>1, <1>2, <1>3

LEMMA AdvanceType ==
  ASSUME Base, NEW ty \in Types, Advance(ty)
  PROVE  /\ at' \in [Types -> Slots]
         /\ \A u \in Types : u # ty => at'[u] = at[u] /\ pc'[u] = pc[u]
         /\ \/ pc'[ty] = "visit" /\ at[ty] + 1 < TMR_ID_COUNT /\ at'[ty] = at[ty] + 1
            \/ pc'[ty] = "pend" /\ ~(at[ty] + 1 < TMR_ID_COUNT)
         /\ pc' \in [Types -> Pcs]
<1>1. at \in [Types -> Slots] /\ pc \in [Types -> Pcs]
  BY DEF Base, TypeOK, Pcs
<1>2. CASE at[ty] + 1 < TMR_ID_COUNT
  <2>1. at' = [at EXCEPT ![ty] = at[ty] + 1] /\ pc' = [pc EXCEPT ![ty] = "visit"]
    BY <1>2 DEF Advance
  <2>2. at[ty] + 1 \in Slots
    BY <1>1, <1>2, TimerAssumption DEF Slots
  <2> QED BY <1>1, <1>2, <2>1, <2>2 DEF Pcs
<1>3. CASE ~(at[ty] + 1 < TMR_ID_COUNT)
  <2>1. at' = at /\ pc' = [pc EXCEPT ![ty] = "pend"]
    BY <1>3 DEF Advance
  <2> QED BY <1>1, <1>3, <2>1 DEF Pcs
<1> QED BY <1>2, <1>3
--------------------------------------------------------------------------------
(* The types. *)
LEMMA InitBase == Init => Base
<1> SUFFICES ASSUME Init PROVE Base
  OBVIOUS
<1>0. /\ Boot \in Seq(Users) /\ Len(Boot) \in Nat /\ DOMAIN Boot = 1 .. Len(Boot)
      /\ \A k \in 1 .. Len(Boot) : Boot[k] \in Users
      /\ TMR_ID_COUNT \in 1 .. 255 /\ Len(Boot) <= TMR_ID_COUNT
  BY TimerAssumption
<1>1. \A i \in Slots : i < Len(Boot) => Boot[i + 1] \in Users /\ i + 1 \in DOMAIN Boot
  <2> SUFFICES ASSUME NEW i \in 0 .. TMR_ID_COUNT - 1, i < Len(Boot)
               PROVE  i + 1 \in 1 .. Len(Boot)
    BY <1>0 DEF Slots
  <2> QED BY <1>0
<1>2. slot \in [Slots -> [id : 0 .. 255, type : Types \cup {None}, cyclic : BOOLEAN,
                         value : Nat, count : Int, hdlr : Users \cup {None}]]
  <2>1. ASSUME NEW i \in Slots, i < Len(Boot)
        PROVE  Timer(i + 1, Boot[i + 1]) \in
                 [id : 0 .. 255, type : Types \cup {None}, cyclic : BOOLEAN,
                  value : Nat, count : Int, hdlr : Users \cup {None}]
    <3>1. Boot[i + 1] \in Users /\ i + 1 \in 0 .. 255
      BY <1>0, <1>1, <2>1 DEF Slots
    <3>2. \A h \in Users : TypeOf[h] \in Types /\ Cyclic[h] \in BOOLEAN /\ Value[h] \in Nat \ {0}
      BY TimerAssumption
    <3> QED BY <3>1, <3>2 DEF Timer
  <2>2. [id |-> 0, type |-> None, cyclic |-> FALSE, value |-> 0, count |-> 0, hdlr |-> None] \in
          [id : 0 .. 255, type : Types \cup {None}, cyclic : BOOLEAN,
           value : Nat, count : Int, hdlr : Users \cup {None}]
    OBVIOUS
  <2>3. ASSUME NEW i \in Slots
        PROVE  slot[i] \in [id : 0 .. 255, type : Types \cup {None}, cyclic : BOOLEAN,
                            value : Nat, count : Int, hdlr : Users \cup {None}]
    <3>1. CASE i < Len(Boot)
      <4>1. slot[i] = Timer(i + 1, Boot[i + 1])
        BY <3>1 DEF Init, BootSlot, BootNbr, BootHandle
      <4> QED BY <2>1, <3>1, <4>1
    <3>2. CASE ~(i < Len(Boot))
      <4>1. slot[i] = [id |-> 0, type |-> None, cyclic |-> FALSE, value |-> 0, count |-> 0, hdlr |-> None]
        BY <3>2 DEF Init, BootSlot, BootNbr, BootHandle
      <4> QED BY <2>2, <4>1
    <3> QED BY <3>1, <3>2
  <2> DEFINE e(i) == IF i < Len(Boot) THEN Timer(i + 1, Boot[i + 1])
                     ELSE [id |-> 0, type |-> None, cyclic |-> FALSE, value |-> 0, count |-> 0, hdlr |-> None]
         R == [id : 0 .. 255, type : Types \cup {None}, cyclic : BOOLEAN,
               value : Nat, count : Int, hdlr : Users \cup {None}]
  <2>4. slot = [i \in Slots |-> e(i)]
    BY DEF Init, BootSlot, BootNbr, BootHandle
  <2>5. \A i \in Slots : slot[i] \in R
    BY <2>3
  <2> HIDE DEF e, R
  <2>6. slot \in [Slots -> R]
    BY <2>4, <2>5
  <2> QED BY <2>6 DEF R
<1>3. tmr_nbr \in 0 .. 255
  <2>1. tmr_nbr = Len(Boot)
    BY DEF Init, BootSlot, BootNbr, BootHandle
  <2>2. Len(Boot) \in Nat /\ Len(Boot) <= TMR_ID_COUNT /\ TMR_ID_COUNT \in 1 .. 255
    BY <1>0
  <2> DEFINE n == Len(Boot)
  <2>3. n \in Nat /\ n <= 255
    BY <2>2
  <2> HIDE DEF n
  <2>4. n \in 0 .. 255
    BY <2>3
  <2> QED BY <2>1, <2>4 DEF n
<1>4. typeNbr \in [Types -> 0 .. 255]
  <2> SUFFICES ASSUME NEW ty \in Types
               PROVE  Cardinality({i \in Slots : i < Len(Boot) /\ TypeOf[Boot[i + 1]] = ty}) \in 0 .. 255
    BY DEF Init, BootSlot, BootNbr, BootHandle
  <2> DEFINE S == {i \in Slots : i < Len(Boot) /\ TypeOf[Boot[i + 1]] = ty}
  <2>1. 0 \in Int /\ TMR_ID_COUNT - 1 \in Int /\ Slots = 0 .. TMR_ID_COUNT - 1
    BY TimerAssumption DEF Slots
  <2>2. IsFiniteSet(Slots) /\ Cardinality(Slots) = TMR_ID_COUNT
    <3>1. TMR_ID_COUNT \in 1 .. 255
      BY <1>0
    <3> QED BY <2>1, <3>1, FS_Interval
  <2>3. S \in SUBSET Slots
    OBVIOUS
  <2>4. IsFiniteSet(S) /\ Cardinality(S) <= Cardinality(Slots)
    BY <2>2, <2>3, FS_Subset
  <2>5. Cardinality(S) \in Nat
    BY <2>4, FS_CardinalityType
  <2> HIDE DEF S
  <2>6. Cardinality(S) \in 0 .. 255
    <3>1. TMR_ID_COUNT \in 1 .. 255
      BY <1>0
    <3> QED BY <2>2, <2>4, <2>5, <3>1
  <2> QED BY <2>6 DEF S
<1>5. handle \in [Users -> Slots \cup {None}]
  <2>1. ASSUME NEW h \in Users, Booted(h)
        PROVE  (CHOOSE k \in DOMAIN Boot : Boot[k] = h) - 1 \in Slots
    <3>1. PICK k \in DOMAIN Boot : Boot[k] = h /\ k = CHOOSE j \in DOMAIN Boot : Boot[j] = h
      BY <2>1 DEF Booted
    <3> QED BY <3>1, TimerAssumption DEF Slots
  <2> QED BY <2>1 DEF Init, BootSlot, BootNbr, BootHandle
<1>6. 0 \in Slots
  BY TimerAssumption DEF Slots
<1>7. armed \in [Users -> BOOLEAN]
  BY DEF Init, Booted
<1> QED BY <1>2, <1>3, <1>4, <1>5, <1>6, <1>7 DEF Init, Base, TypeOK, Called

LEMMA BaseStep ==
  ASSUME Base, [Next]_vars
  PROVE  Base'
<1> DEFINE Rec == [id : 0 .. 255, type : Types \cup {None}, cyclic : BOOLEAN,
                   value : Nat, count : Int, hdlr : Users \cup {None}]
<1>1. /\ slot \in [Slots -> Rec] /\ tmr_nbr \in 0 .. 255 /\ typeNbr \in [Types -> 0 .. 255]
      /\ sem \in [Types -> Nat] /\ pc \in [Types -> Pcs] /\ at \in [Types -> Slots]
      /\ call \in [Types -> [user : Users, slot : Slots] \cup {None}]
      /\ handle \in [Users -> Slots \cup {None}] /\ armed \in [Users -> BOOLEAN]
      /\ elapsed \in [Users -> Nat] /\ raced \in BOOLEAN /\ Called
  BY DEF Base, TypeOK, Pcs
<1>2. ASSUME /\ slot' \in [Slots -> Rec] /\ tmr_nbr' \in 0 .. 255 /\ typeNbr' \in [Types -> 0 .. 255]
             /\ sem' \in [Types -> Nat] /\ pc' \in [Types -> Pcs] /\ at' \in [Types -> Slots]
             /\ call' \in [Types -> [user : Users, slot : Slots] \cup {None}]
             /\ handle' \in [Users -> Slots \cup {None}] /\ armed' \in [Users -> BOOLEAN]
             /\ elapsed' \in [Users -> Nat] /\ raced' \in BOOLEAN /\ Called'
      PROVE  Base'
  BY <1>2 DEF Base, TypeOK, Pcs
<1>3. \A h \in Users : /\ TypeOf[h] \in Types /\ Cyclic[h] \in BOOLEAN /\ Value[h] \in Nat \ {0}
                       /\ \A id \in 0 .. 255 : Timer(id, h) \in Rec
  <2>1. \A h \in Users : TypeOf[h] \in Types /\ Cyclic[h] \in BOOLEAN /\ Value[h] \in Nat \ {0}
    BY TimerAssumption
  <2> QED BY <2>1 DEF Timer
<1> HIDE DEF Rec
<1>4. CASE UNCHANGED vars
  BY <1>1, <1>2, <1>4 DEF vars, table, users, Called
<1>5. ASSUME NEW ty \in Types, Tick(ty)
      PROVE  Base'
  BY <1>1, <1>2, <1>5 DEF Tick, table, users, Called
<1>6. ASSUME NEW t \in Types, NEW h \in Users, SubscribeScan(t, h)
      PROVE  Base'
  <2>1. PICK i \in Slots : call' = [call EXCEPT ![t] = [user |-> h, slot |-> i]]
    BY <1>6 DEF SubscribeScan, FreeSlots
  <2>2. pc' = [pc EXCEPT ![t] = "fill"] /\ UNCHANGED <<table, sem, at, users>>
    BY <1>6 DEF SubscribeScan
  <2>3. pc' \in [Types -> Pcs]
    BY <1>1, <2>2 DEF Pcs
  <2>4. call'[t] \in [user : Users, slot : Slots] /\ call' \in [Types -> [user : Users, slot : Slots] \cup {None}]
    BY <1>1, <2>1
  <2>5. Called'
    BY <1>1, <2>1, <2>2, <2>4 DEF Called
  <2> QED BY <1>1, <1>2, <2>2, <2>3, <2>4, <2>5 DEF table, users
<1>7. ASSUME NEW t \in Types, NEW h \in Users, UnSubscribeScan(t, h)
      PROVE  Base'
  <2>1. handle[h] \in Slots /\ call' = [call EXCEPT ![t] = [user |-> h, slot |-> handle[h]]]
    BY <1>1, <1>7 DEF UnSubscribeScan
  <2>2. pc' = [pc EXCEPT ![t] = "clear"] /\ UNCHANGED <<table, sem, at, users>>
    BY <1>7 DEF UnSubscribeScan
  <2>3. pc' \in [Types -> Pcs]
    BY <1>1, <2>2 DEF Pcs
  <2>4. call'[t] \in [user : Users, slot : Slots] /\ call' \in [Types -> [user : Users, slot : Slots] \cup {None}]
    BY <1>1, <2>1
  <2>5. Called'
    BY <1>1, <2>1, <2>2, <2>4 DEF Called
  <2> QED BY <1>1, <1>2, <2>2, <2>3, <2>4, <2>5 DEF table, users
<1>8. ASSUME NEW t \in Types, NEW h \in Users, Forget(t, h)
      PROVE  Base'
  BY <1>1, <1>2, <1>8 DEF Forget, table, Called
<1>9. ASSUME NEW t \in Types, SubscribeFill(t)
      PROVE  Base'
  <2> DEFINE h == call[t].user
             i == call[t].slot
  <2>1. h \in Users /\ i \in Slots
    BY <1>1, <1>9 DEF SubscribeFill, Called
  <2>2. /\ slot' = [slot EXCEPT ![i] = Timer(U8(tmr_nbr + 1), h)]
        /\ typeNbr' = [typeNbr EXCEPT ![TypeOf[h]] = U8(typeNbr[TypeOf[h]] + 1)]
        /\ handle' = [handle EXCEPT ![h] = i]
        /\ armed' = [armed EXCEPT ![h] = TRUE]
        /\ elapsed' = [elapsed EXCEPT ![h] = 0]
        /\ raced' = (raced \/ Taken(i) \/ tmr_nbr = TMR_ID_COUNT)
        /\ tmr_nbr' = U8(tmr_nbr + 1)
        /\ call' = [call EXCEPT ![t] = None]
        /\ pc' = [pc EXCEPT ![t] = "handler"]
        /\ UNCHANGED <<sem, at>>
    BY <1>9 DEF SubscribeFill
  <2> HIDE DEF h, i
  <2>3. U8(tmr_nbr + 1) \in 0 .. 255 /\ U8(typeNbr[TypeOf[h]] + 1) \in 0 .. 255
    BY <1>1, <1>3, <2>1, Byte
  <2>4. slot' \in [Slots -> Rec]
    BY <1>1, <1>3, <2>1, <2>2, <2>3
  <2>5. pc' \in [Types -> Pcs] /\ Called'
    BY <1>1, <2>2 DEF Pcs, Called
  <2>6. typeNbr' \in [Types -> 0 .. 255] /\ tmr_nbr' \in 0 .. 255
    BY <1>1, <2>2, <2>3
  <2>7. handle' \in [Users -> Slots \cup {None}] /\ armed' \in [Users -> BOOLEAN] /\ elapsed' \in [Users -> Nat]
    BY <1>1, <2>1, <2>2
  <2>8. raced' \in BOOLEAN
    BY <2>2
  <2>9. call' \in [Types -> [user : Users, slot : Slots] \cup {None}]
    BY <1>1, <2>2
  <2> QED BY <1>1, <1>2, <2>2, <2>4, <2>5, <2>6, <2>7, <2>8, <2>9
<1>10. ASSUME NEW t \in Types, UnSubscribeClear(t)
       PROVE  Base'
  <2> DEFINE h == call[t].user
             i == call[t].slot
             s == [id |-> 0, type |-> TypeOf[h], cyclic |-> FALSE, value |-> 0, count |-> 0, hdlr |-> None]
  <2>1. h \in Users /\ i \in Slots
    BY <1>1, <1>10 DEF UnSubscribeClear, Called
  <2>2. /\ slot' = [slot EXCEPT ![i] = s]
        /\ typeNbr' = [typeNbr EXCEPT ![TypeOf[h]] = U8(typeNbr[TypeOf[h]] - 1)]
        /\ handle' = [handle EXCEPT ![h] = None]
        /\ armed' = [armed EXCEPT ![h] = FALSE]
        /\ raced' = (raced \/ ~Found(h) \/ Examined(i))
        /\ tmr_nbr' = U8(tmr_nbr - 1)
        /\ call' = [call EXCEPT ![t] = None]
        /\ pc' = [pc EXCEPT ![t] = "handler"]
        /\ UNCHANGED <<sem, at, elapsed>>
    BY <1>10 DEF UnSubscribeClear
  <2>3. s \in Rec
    <3>1. \A ty \in Types : [id |-> 0, type |-> ty, cyclic |-> FALSE, value |-> 0, count |-> 0, hdlr |-> None] \in Rec
      BY DEF Rec
    <3>2. TypeOf[h] \in Types
      BY <1>3, <2>1
    <3> QED BY <3>1, <3>2
  <2> HIDE DEF h, i, s
  <2>4. U8(tmr_nbr - 1) \in 0 .. 255 /\ U8(typeNbr[TypeOf[h]] - 1) \in 0 .. 255
    BY <1>1, <1>3, <2>1, Byte
  <2>5. slot' \in [Slots -> Rec]
    BY <1>1, <2>1, <2>2, <2>3
  <2>6. pc' \in [Types -> Pcs] /\ Called'
    BY <1>1, <2>2 DEF Pcs, Called
  <2>7. typeNbr' \in [Types -> 0 .. 255] /\ tmr_nbr' \in 0 .. 255
    BY <1>1, <2>2, <2>4
  <2>8. handle' \in [Users -> Slots \cup {None}] /\ armed' \in [Users -> BOOLEAN]
    BY <1>1, <2>1, <2>2
  <2>9. raced' \in BOOLEAN
    BY <2>2
  <2>10. call' \in [Types -> [user : Users, slot : Slots] \cup {None}]
    BY <1>1, <2>2
  <2> QED BY <1>1, <1>2, <2>2, <2>5, <2>6, <2>7, <2>8, <2>9, <2>10
<1>11. ASSUME NEW ty \in Types, Pend(ty)
       PROVE  Base'
  <2>1. /\ sem' = [sem EXCEPT ![ty] = sem[ty] - 1] /\ sem[ty] > 0
        /\ pc' = [pc EXCEPT ![ty] = IF tmr_nbr > 0 /\ typeNbr[ty] > 0 THEN "visit" ELSE "pend"]
        /\ at' = [at EXCEPT ![ty] = 0] /\ elapsed' = Aged(ty)
        /\ UNCHANGED <<table, call, handle, armed, raced>>
    BY <1>11 DEF Pend
  <2>2. 0 \in Slots
    BY TimerAssumption DEF Slots
  <2>3. sem' \in [Types -> Nat] /\ at' \in [Types -> Slots]
    BY <1>1, <2>1, <2>2
  <2>4. pc' \in [Types -> Pcs] /\ Called'
    BY <1>1, <2>1 DEF Pcs, Called
  <2>5. elapsed' \in [Users -> Nat]
    BY <1>1, <2>1 DEF Aged
  <2> QED BY <1>1, <1>2, <2>1, <2>3, <2>4, <2>5 DEF table
<1>12. ASSUME NEW ty \in Types, Advance(ty),
              slot' \in [Slots -> Rec], UNCHANGED <<tmr_nbr, typeNbr, sem, call, users>>
       PROVE  Base'
  <2>1. at' \in [Types -> Slots] /\ pc' \in [Types -> Pcs]
    BY <1>12, AdvanceType DEF Pcs
  <2>2. \A t \in Types : pc'[t] \in {"fill", "clear"} => pc'[t] = pc[t]
    BY <1>12, AdvanceType
  <2>3. Called'
    BY <1>1, <1>12, <2>2 DEF Called
  <2> QED BY <1>1, <1>2, <1>12, <2>1, <2>3 DEF users
<1>13. ASSUME NEW ty \in Types, VisitOther(ty) \/ Return(ty)
       PROVE  Base'
  BY <1>1, <1>12, <1>13 DEF VisitOther, Return, table
<1>14. ASSUME NEW ty \in Types, CountDown(ty)
       PROVE  Base'
  <2>1. at[ty] \in Slots /\ slot[at[ty]] \in Rec /\ slot' = [slot EXCEPT ![at[ty]].count = slot[at[ty]].count - 1]
    BY <1>1, <1>14 DEF CountDown
  <2>2. [slot[at[ty]] EXCEPT !.count = slot[at[ty]].count - 1] \in Rec
    BY <2>1 DEF Rec
  <2>3. slot' \in [Slots -> Rec]
    BY <1>1, <2>1, <2>2
  <2> QED BY <1>12, <1>14, <2>3 DEF CountDown
<1>15. ASSUME NEW ty \in Types, NEW p \in Pcs \ {"fill", "clear"}, pc' = [pc EXCEPT ![ty] = p],
              slot' \in [Slots -> Rec], UNCHANGED <<tmr_nbr, typeNbr, sem, at, call, users>>
       PROVE  Base'
  <2>1. pc' \in [Types -> Pcs] /\ Called'
    BY <1>1, <1>15 DEF Called
  <2> QED BY <1>1, <1>2, <1>15, <2>1 DEF users
<1>18. ASSUME NEW ty \in Types, VisitMine(ty) \/ VisitCount(ty) \/ VisitDue(ty)
       PROVE  Base'
  <2>1. /\ slot' = slot /\ UNCHANGED <<tmr_nbr, typeNbr, sem, at, call, users>>
        /\ \E p \in {"count", "due", "down", "reload", "expire"} : pc' = [pc EXCEPT ![ty] = p]
    BY <1>18 DEF VisitMine, VisitCount, VisitDue, Walks, table
  <2> QED BY <1>1, <1>15, <2>1 DEF Pcs
<1>19. ASSUME NEW ty \in Types, Reload(ty)
       PROVE  Base'
  <2>1. /\ at[ty] \in Slots /\ slot[at[ty]] \in Rec /\ slot' = [slot EXCEPT ![at[ty]].count = slot[at[ty]].value]
        /\ pc' = [pc EXCEPT ![ty] = "call"] /\ UNCHANGED <<tmr_nbr, typeNbr, sem, at, call, users>>
    BY <1>1, <1>19 DEF Reload, Walks
  <2>2. [slot[at[ty]] EXCEPT !.count = slot[at[ty]].value] \in Rec
    BY <2>1 DEF Rec
  <2>3. slot' \in [Slots -> Rec]
    BY <1>1, <2>1, <2>2
  <2> QED BY <1>15, <2>1, <2>3 DEF Pcs
<1>20. ASSUME NEW ty \in Types, TestHandler(ty)
       PROVE  Base'
  <2>1. slot' = slot /\ UNCHANGED <<tmr_nbr, typeNbr, sem, call, users>>
    BY <1>20 DEF TestHandler, table
  <2>2. CASE Advance(ty)
    BY <1>1, <1>12, <2>1, <2>2
  <2>3. CASE at' = at /\ pc' = [pc EXCEPT ![ty] = "enter"]
    BY <1>1, <1>15, <2>1, <2>3 DEF Pcs
  <2> QED BY <1>20, <2>2, <2>3 DEF TestHandler
<1>21. ASSUME NEW ty \in Types, CallNull(ty)
       PROVE  Base'
  <2>1. Init'
    BY <1>21 DEF CallNull, Init
  <2>2. Init' => Base'
    BY InitBase, PTL
  <2> QED BY <2>1, <2>2
<1>16. ASSUME NEW ty \in Types, Expire(ty)
       PROVE  Base'
  <2>1. /\ at[ty] \in Slots /\ slot[at[ty]] \in Rec /\ UNCHANGED <<sem, at, call, users>>
        /\ slot' = [slot EXCEPT ![at[ty]].id = 0] /\ tmr_nbr' = U8(tmr_nbr - 1)
        /\ typeNbr' = [c \in Types |-> IF c = GivesBack(ty) THEN U8(typeNbr[c] - 1) ELSE typeNbr[c]]
        /\ pc' = [pc EXCEPT ![ty] = "call"]
    BY <1>1, <1>16 DEF Expire
  <2>2. [slot[at[ty]] EXCEPT !.id = 0] \in Rec
    BY <2>1 DEF Rec
  <2>3. slot' \in [Slots -> Rec]
    BY <1>1, <2>1, <2>2
  <2>4. tmr_nbr' \in 0 .. 255 /\ \A c \in Types : U8(typeNbr[c] - 1) \in 0 .. 255
    BY <1>1, <2>1, Byte
  <2>5. typeNbr' \in [Types -> 0 .. 255]
    BY <1>1, <2>1, <2>4
  <2>6. pc' \in [Types -> Pcs] /\ Called'
    BY <1>1, <2>1 DEF Pcs, Called
  <2> QED BY <1>1, <1>2, <2>1, <2>3, <2>4, <2>5, <2>6 DEF users
<1>17. ASSUME NEW ty \in Types, CallHandler(ty)
       PROVE  Base'
  <2> DEFINE h == slot[at[ty]].hdlr
  <2>1. /\ pc' = [pc EXCEPT ![ty] = "handler"]
        /\ armed' = [armed EXCEPT ![h] = armed[h] /\ slot[at[ty]].cyclic]
        /\ elapsed' = [elapsed EXCEPT ![h] = 0]
        /\ UNCHANGED <<at, handle, raced, table, sem, call>>
    BY <1>17 DEF CallHandler, Walks
  <2>2. armed' \in [Users -> BOOLEAN] /\ elapsed' \in [Users -> Nat]
    BY <1>1, <2>1
  <2>3. pc' \in [Types -> Pcs] /\ Called'
    BY <1>1, <2>1 DEF Pcs, Called
  <2> QED BY <1>1, <1>2, <2>1, <2>2, <2>3 DEF table
<1> QED BY Actions, <1>4, <1>5, <1>6, <1>7, <1>8, <1>9, <1>10, <1>11, <1>13, <1>14,
           <1>16, <1>17, <1>18, <1>19, <1>20, <1>21
--------------------------------------------------------------------------------
(* The order of the table. *)
LEMMA Kinds ==
  ASSUME Base
  PROVE  /\ \A i \in Slots : /\ slot[i].id \in 0 .. 255 /\ slot[i].cyclic \in BOOLEAN
                            /\ slot[i].count \in Int /\ slot[i].hdlr \in Users \cup {None}
                            /\ i \in Int
         /\ \A t \in Types : /\ at[t] \in Slots
                            /\ pc[t] \in Pcs
         /\ \A t \in Types : pc[t] \in {"fill", "clear"} => call[t].user \in Users /\ call[t].slot \in Slots
         /\ \A h \in Users : /\ handle[h] \in Slots \cup {None} /\ armed[h] \in BOOLEAN /\ elapsed[h] \in Nat
                            /\ TypeOf[h] \in Types /\ Value[h] \in Nat \ {0} /\ Cyclic[h] \in BOOLEAN
         /\ pc = [t \in Types |-> pc[t]] /\ at = [t \in Types |-> at[t]]
         /\ call = [t \in Types |-> call[t]] /\ slot = [i \in Slots |-> slot[i]]
         /\ handle = [h \in Users |-> handle[h]] /\ armed = [h \in Users |-> armed[h]]
         /\ elapsed = [h \in Users |-> elapsed[h]] /\ typeNbr = [t \in Types |-> typeNbr[t]]
         /\ None \notin Users /\ None \notin Types /\ None \notin Slots
<1>1. \A h \in Users : TypeOf[h] \in Types /\ Value[h] \in Nat \ {0} /\ Cyclic[h] \in BOOLEAN
  BY TimerAssumption
<1>2. Slots \subseteq Int /\ None \notin Users /\ None \notin Types /\ None \notin Slots
  BY TimerAssumption DEF Slots
<1>3. \A i \in Slots : /\ slot[i].id \in 0 .. 255 /\ slot[i].cyclic \in BOOLEAN
                      /\ slot[i].count \in Int /\ slot[i].hdlr \in Users \cup {None}
  BY DEF Base, TypeOK
<1>4. \A t \in Types : pc[t] \in {"fill", "clear"} => call[t].user \in Users /\ call[t].slot \in Slots
  BY DEF Base, Called
<1> QED BY <1>1, <1>2, <1>3, <1>4 DEF Base, TypeOK, Pcs

(* Where the slots keep what counts, so do the counters. *)
LEMMA CountedKept ==
  ASSUME Counted, UNCHANGED <<tmr_nbr, typeNbr>>,
         \A i \in Slots : (Live(i)' <=> Live(i)) /\ slot'[i].type = slot[i].type
  PROVE  Counted'
<1>1. LiveSlots' = LiveSlots /\ \A ty \in Types : LiveOf(ty)' = LiveOf(ty)
  BY DEF LiveSlots, LiveOf
<1> QED BY <1>1 DEF Counted

LEMMA InitOrder == Init => InOrder
<1> SUFFICES ASSUME Init PROVE InOrder
  OBVIOUS
<1> DEFINE n == Len(Boot)
<1>1. /\ n \in Nat /\ DOMAIN Boot = 1 .. n /\ \A k \in 1 .. n : Boot[k] \in Users
      /\ n <= TMR_ID_COUNT /\ TMR_ID_COUNT \in 1 .. 255
  BY TimerAssumption
<1>2. \A j, k \in 1 .. n : Boot[j] = Boot[k] => j = k
  BY <1>1, TimerAssumption
<1> HIDE DEF n
<1>3. /\ \A i \in Slots : i < n => slot[i] = Timer(i + 1, Boot[i + 1])
      /\ \A i \in Slots : ~(i < n) => slot[i].id = 0
      /\ \A t \in Types : pc[t] = "pend"
      /\ \A h \in Users : elapsed[h] = 0 /\ (armed[h] <=> Booted(h))
      /\ tmr_nbr = n
      /\ \A ty \in Types : typeNbr[ty] = Cardinality({i \in Slots : i < n /\ TypeOf[Boot[i + 1]] = ty})
  BY DEF Init, BootSlot, BootNbr, BootHandle, n
<1>4. \A i \in Slots : i \in Nat /\ (i < n => i + 1 \in 1 .. n /\ Boot[i + 1] \in Users)
  BY <1>1 DEF Slots
<1>5. ASSUME NEW i \in Slots, i < n
      PROVE  /\ Live(i) /\ slot[i].hdlr = Boot[i + 1] /\ slot[i].type = TypeOf[Boot[i + 1]]
             /\ slot[i].value = Value[Boot[i + 1]] /\ slot[i].count = Value[Boot[i + 1]]
             /\ (slot[i].cyclic <=> Cyclic[Boot[i + 1]])
  <2>1. slot[i] = Timer(i + 1, Boot[i + 1]) /\ i + 1 > 0
    BY <1>3, <1>4, <1>5
  <2> QED BY <2>1 DEF Timer, Live
<1>6. \A i \in Slots : Live(i) <=> i < n
  <2>1. \A i \in Slots : ~(i < n) => ~Live(i)
    BY <1>3 DEF Live
  <2> QED BY <1>5, <2>1
<1>7. ASSUME NEW k \in 1 .. n
      PROVE  Booted(Boot[k]) /\ handle[Boot[k]] = k - 1 /\ k - 1 \in Slots
  <2>1. Booted(Boot[k])
    BY <1>1 DEF Booted
  <2>2. (CHOOSE j \in DOMAIN Boot : Boot[j] = Boot[k]) = k
    BY <1>1, <1>2
  <2>3. handle[Boot[k]] = (CHOOSE j \in DOMAIN Boot : Boot[j] = Boot[k]) - 1
    BY <1>1, <2>1 DEF Init, BootSlot, BootNbr, BootHandle
  <2>4. k - 1 \in Slots
    <3>1. k \in Int /\ 1 <= k /\ k <= TMR_ID_COUNT /\ TMR_ID_COUNT \in Int
      BY <1>1
    <3> QED BY <3>1 DEF Slots
  <2>5. (CHOOSE j \in DOMAIN Boot : Boot[j] = Boot[k]) - 1 = k - 1
    BY <2>2
  <2> QED BY <2>1, <2>3, <2>4, <2>5
<1>8. \A h \in Users : TypeOf[h] \in Types /\ Value[h] \in Nat \ {0}
  BY TimerAssumption
<1>9. SlotsOK
  <2> SUFFICES ASSUME NEW i \in Slots, Live(i)
               PROVE  /\ slot[i].hdlr \in Users
                      /\ armed[slot[i].hdlr] /\ handle[slot[i].hdlr] = i
                      /\ slot[i].type = TypeOf[slot[i].hdlr]
                      /\ slot[i].value = Value[slot[i].hdlr]
                      /\ (slot[i].cyclic <=> Cyclic[slot[i].hdlr])
                      /\ slot[i].count >= 1
    BY DEF SlotsOK, SlotOK
  <2>1. i < n /\ i \in Nat /\ i + 1 \in 1 .. n /\ Boot[i + 1] \in Users
    BY <1>4, <1>6
  <2>2. handle[Boot[i + 1]] = i /\ armed[Boot[i + 1]]
    BY <1>3, <1>7, <2>1
  <2>3. slot[i].count >= 1
    BY <1>5, <1>8, <2>1
  <2> QED BY <1>5, <2>1, <2>2, <2>3
<1>10. UsersOK
  <2> SUFFICES ASSUME NEW h \in Users, armed[h]
               PROVE  handle[h] \in Slots /\ slot[handle[h]].hdlr = h /\ Live(handle[h])
    BY DEF UsersOK, UserOK
  <2>1. PICK k \in 1 .. n : Boot[k] = h
    BY <1>1, <1>3 DEF Booted
  <2>2. handle[h] = k - 1 /\ k - 1 \in Slots /\ k - 1 < n /\ (k - 1) + 1 = k
    BY <1>1, <1>7, <2>1
  <2> QED BY <1>5, <2>1, <2>2
<1>11. TasksOK
  BY <1>3 DEF TasksOK, FillOK, ClearOK, WalkOK, CallOK
<1>12. TimesOK
  <2> SUFFICES ASSUME NEW i \in Slots, Live(i)
               PROVE  /\ elapsed[slot[i].hdlr] + slot[i].count = Value[slot[i].hdlr]
                      /\ Value[slot[i].hdlr] \in Nat
                      /\ pc[TypeOf[slot[i].hdlr]] = "pend"
    BY DEF TimesOK, TimeOK, Ahead
  <2>1. slot[i].hdlr = Boot[i + 1] /\ slot[i].count = Value[Boot[i + 1]] /\ Boot[i + 1] \in Users
    BY <1>4, <1>5, <1>6
  <2> QED BY <1>3, <1>8, <2>1
<1>13. Counted
  <2>1. LiveSlots = 0 .. n - 1
    BY <1>1, <1>6 DEF LiveSlots, Slots
  <2>2. Cardinality(0 .. n - 1) = n
    <3>1. 0 \in Int /\ n - 1 \in Int
      BY <1>1
    <3>2. Cardinality(0 .. n - 1) = IF 0 > n - 1 THEN 0 ELSE (n - 1) - 0 + 1
      BY <3>1, FS_Interval
    <3> QED BY <1>1, <3>2
  <2>3. ASSUME NEW ty \in Types
        PROVE  LiveOf(ty) = {i \in Slots : i < n /\ TypeOf[Boot[i + 1]] = ty}
    BY <1>5, <1>6 DEF LiveOf
  <2> QED BY <1>3, <2>1, <2>2, <2>3 DEF Counted
<1> QED BY <1>9, <1>10, <1>11, <1>12, <1>13 DEF InOrder

(* What a step that leaves the table and the users alone may do to the tasks. *)
LEMMA QuietStep ==
  ASSUME InOrder, UNCHANGED <<table, pc, at, call, handle, armed, elapsed>>
  PROVE  InOrder'
<1>1. SlotsOK' /\ UsersOK'
  BY DEF InOrder, table, SlotsOK, SlotOK, UsersOK, UserOK, Live, Calling
<1>2. TasksOK'
  BY DEF InOrder, table, TasksOK, FillOK, ClearOK, WalkOK, CallOK, Live
<1>3. TimesOK'
  BY DEF InOrder, table, TimesOK, TimeOK, Live, Behind, Ahead, Midway
<1>4. Counted'
  BY CountedKept DEF InOrder, table, Live
<1> QED BY <1>1, <1>2, <1>3, <1>4 DEF InOrder

LEMMA ScanStep ==
  ASSUME Base, InOrder, NEW t \in Types, NEW h \in Users, SubscribeScan(t, h) \/ UnSubscribeScan(t, h)
  PROVE  InOrder'
<1>1. /\ UNCHANGED <<slot, tmr_nbr, typeNbr, at, handle, armed, elapsed>>
      /\ pc[t] = "handler" /\ pc'[t] \in {"fill", "clear"}
      /\ \A u \in Types : u # t => pc'[u] = pc[u] /\ call'[u] = call[u]
      /\ Owner[h] = t /\ call'[t].user = h
      /\ pc'[t] = "fill" => handle[h] = None
      /\ pc'[t] = "clear" => handle[h] = call'[t].slot
  <2>1. pc = [u \in Types |-> pc[u]] /\ call = [u \in Types |-> call[u]]
    BY Kinds
  <2>2. CASE SubscribeScan(t, h)
    <3>1. PICK i \in Slots : call' = [call EXCEPT ![t] = [user |-> h, slot |-> i]]
      BY <2>2 DEF SubscribeScan, FreeSlots
    <3> QED BY <2>1, <2>2, <3>1 DEF SubscribeScan, table, users
  <2>3. CASE UnSubscribeScan(t, h)
    BY <2>1, <2>3 DEF UnSubscribeScan, table, users
  <2> QED BY <2>2, <2>3
<1>2. SlotsOK' /\ Counted'
  BY <1>1, CountedKept DEF InOrder, SlotsOK, SlotOK, Live
<1>3. UsersOK'
  <2>1. \A u \in Types, i \in Slots : Calling(u, i)' <=> Calling(u, i)
    BY <1>1 DEF Calling
  <2> QED BY <1>1, <2>1, Kinds DEF InOrder, UsersOK, UserOK, Live
<1>4. TasksOK'
  <2> SUFFICES ASSUME NEW u \in Types
               PROVE  FillOK(u)' /\ ClearOK(u)' /\ WalkOK(u)' /\ CallOK(u)'
    BY DEF TasksOK
  <2>1. CASE u = t
    <3>1. handle[h] = None => ~armed[h]
      BY Kinds DEF InOrder, UsersOK, UserOK
    <3> QED BY <1>1, <2>1, <3>1 DEF FillOK, ClearOK, WalkOK, CallOK
  <2>2. CASE u # t
    <3>1. FillOK(u) /\ ClearOK(u) /\ WalkOK(u) /\ CallOK(u)
      BY DEF InOrder, TasksOK
    <3> QED BY <1>1, <2>2, <3>1 DEF FillOK, ClearOK, WalkOK, CallOK, Live
  <2> QED BY <2>1, <2>2
<1>5. TimesOK'
  <2>1. \A u \in Types, i \in Slots : (Behind(u, i)' <=> Behind(u, i)) /\ (Ahead(u, i)' <=> Ahead(u, i))
    BY <1>1 DEF Behind, Ahead, Midway
  <2>2. ASSUME NEW i \in Slots
        PROVE  TimeOK(i)'
    <3>1. TimeOK(i) /\ (Live(i) => TypeOf[slot[i].hdlr] \in Types)
      BY Kinds DEF InOrder, TimesOK, SlotsOK, SlotOK
    <3> QED BY <1>1, <2>1, <3>1 DEF TimeOK, Live
  <2> QED BY <2>2 DEF TimesOK
<1> QED BY <1>2, <1>3, <1>4, <1>5 DEF InOrder

LEMMA ForgetStep ==
  ASSUME Base, InOrder, NEW t \in Types, NEW h \in Users, Forget(t, h)
  PROVE  InOrder'
<1>1. /\ UNCHANGED <<slot, tmr_nbr, typeNbr, pc, at, call, armed, elapsed>>
      /\ pc[t] = "handler" /\ Owner[h] = t /\ ~armed[h]
      /\ handle' = [handle EXCEPT ![h] = None]
  BY DEF Forget, table
<1>2. \A g \in Users : g # h => handle'[g] = handle[g]
  BY <1>1, Kinds
<1>3. handle'[h] = None
  BY <1>1, Kinds
<1>4. SlotsOK'
  BY <1>1, <1>2 DEF InOrder, SlotsOK, SlotOK, Live
<1>5. UsersOK'
  BY <1>1, <1>2 DEF InOrder, UsersOK, UserOK, Live, Calling
<1>6. TasksOK'
  <2> SUFFICES ASSUME NEW u \in Types
               PROVE  FillOK(u)' /\ ClearOK(u)' /\ WalkOK(u)' /\ CallOK(u)'
    BY DEF TasksOK
  <2>1. FillOK(u) /\ ClearOK(u) /\ WalkOK(u) /\ CallOK(u)
    BY DEF InOrder, TasksOK
  <2>2. FillOK(u)' /\ ClearOK(u)'
    BY <1>1, <1>2, <1>3, <2>1, Kinds DEF FillOK, ClearOK
  <2>3. WalkOK(u)' /\ CallOK(u)'
    <3>1. at[u] \in Slots /\ slot[at[u]].hdlr \in Users \cup {None}
      BY Kinds
    <3> QED BY <1>1, <1>2, <2>1, <3>1 DEF WalkOK, CallOK, Live
  <2> QED BY <2>2, <2>3
<1>7. TimesOK' /\ Counted'
  BY <1>1, CountedKept DEF InOrder, TimesOK, TimeOK, Live, Behind, Ahead, Midway
<1> QED BY <1>4, <1>5, <1>6, <1>7 DEF InOrder

(* The walk goes on to the next slot: the one it leaves is empty, another    *)
(* type's, or has had its tick.                                              *)
LEMMA AdvanceStep ==
  ASSUME Base, InOrder, NEW ty \in Types, Advance(ty),
         pc[ty] \in {"visit", "down", "call", "handler"},
         pc[ty] = "call" => slot[at[ty]].hdlr = None,
         UNCHANGED <<tmr_nbr, typeNbr, call, handle, armed, elapsed>>,
         \A i \in Slots :
           /\ slot'[i].id = slot[i].id /\ slot'[i].type = slot[i].type /\ slot'[i].hdlr = slot[i].hdlr
           /\ slot'[i].cyclic = slot[i].cyclic /\ slot'[i].value = slot[i].value
           /\ Live(i) => slot'[i].count = slot[i].count \/ (i = at[ty] /\ slot[i].type = ty),
         Live(at[ty]) /\ slot[at[ty]].type = ty =>
           /\ slot'[at[ty]].count >= 1
           /\ elapsed[slot[at[ty]].hdlr] + slot'[at[ty]].count \in
                {Value[slot[at[ty]].hdlr] - 1, Value[slot[at[ty]].hdlr]}
  PROVE  InOrder'
<1>1. /\ \A u \in Types : u # ty => at'[u] = at[u] /\ pc'[u] = pc[u]
      /\ \/ pc'[ty] = "visit" /\ at[ty] + 1 < TMR_ID_COUNT /\ at'[ty] = at[ty] + 1
         \/ pc'[ty] = "pend" /\ ~(at[ty] + 1 < TMR_ID_COUNT)
  BY AdvanceType
<1>2. \A i \in Slots : Live(i)' <=> Live(i)
  BY DEF Live
<1>3. \A t \in Types : at[t] \in Slots
  BY Kinds
<1>4. SlotsOK'
  <2> SUFFICES ASSUME NEW i \in Slots
               PROVE  SlotOK(i)'
    BY DEF SlotsOK
  <2>1. SlotOK(i)
    BY DEF InOrder, SlotsOK
  <2> QED BY <1>2, <2>1 DEF SlotOK
<1>5. UsersOK'
  <2> SUFFICES ASSUME NEW h \in Users, armed[h]
               PROVE  /\ handle[h] \in Slots
                      /\ slot'[handle[h]].hdlr = h
                      /\ Live(handle[h])' \/ Calling(TypeOf[h], handle[h])'
    BY DEF UsersOK, UserOK
  <2>1. handle[h] \in Slots /\ slot[handle[h]].hdlr = h /\ (Live(handle[h]) \/ Calling(TypeOf[h], handle[h]))
    BY DEF InOrder, UsersOK, UserOK
  <2>2. h # None /\ TypeOf[h] \in Types
    BY Kinds
  <2>3. Calling(TypeOf[h], handle[h]) => Calling(TypeOf[h], handle[h])'
    BY <1>1, <2>1, <2>2 DEF Calling
  <2> QED BY <1>2, <2>1, <2>3
<1>6. TasksOK'
  <2> SUFFICES ASSUME NEW u \in Types
               PROVE  FillOK(u)' /\ ClearOK(u)' /\ WalkOK(u)' /\ CallOK(u)'
    BY DEF TasksOK
  <2>1. CASE u = ty
    BY <1>1, <2>1 DEF FillOK, ClearOK, WalkOK, CallOK
  <2>2. CASE u # ty
    <3>1. FillOK(u) /\ ClearOK(u) /\ WalkOK(u) /\ CallOK(u)
      BY DEF InOrder, TasksOK
    <3>2. pc'[u] = pc[u] /\ at'[u] = at[u] /\ at[u] \in Slots
      BY <1>1, <1>3, <2>2
    <3>3. FillOK(u)' /\ ClearOK(u)'
      BY <3>1, <3>2 DEF FillOK, ClearOK
    <3>4. WalkOK(u)'
      BY <1>2, <2>2, <3>1, <3>2 DEF WalkOK
    <3>5. CallOK(u)'
      <4>1. SlotOK(at[u])
        BY <3>2 DEF InOrder, SlotsOK
      <4>2. pc[u] \in {"call", "enter"} /\ slot[at[u]].hdlr # None /\ slot[at[u]].cyclic =>
              slot'[at[u]].count = slot[at[u]].count
        BY <2>2, <3>1, <3>2, <4>1 DEF CallOK, SlotOK
      <4> QED BY <1>2, <3>1, <3>2, <4>2 DEF CallOK
    <3> QED BY <3>3, <3>4, <3>5
  <2> QED BY <2>1, <2>2
<1>7. TimesOK'
  <2> SUFFICES ASSUME NEW i \in Slots, Live(i)
               PROVE  TimeOK(i)'
    BY <1>2 DEF TimesOK, TimeOK
  <2> DEFINE h == slot[i].hdlr
  <2>1. TimeOK(i) /\ h \in Users /\ slot[i].type = TypeOf[h]
    BY DEF InOrder, TimesOK, SlotsOK, SlotOK
  <2>2. TypeOf[h] \in Types /\ i \in Int /\ i < TMR_ID_COUNT /\ at[ty] \in Int /\ TMR_ID_COUNT \in Int
    <3>1. TypeOf[h] \in Types
      BY <2>1, Kinds
    <3>2. TMR_ID_COUNT \in 1 .. 255
      BY TimerAssumption
    <3> QED BY <1>3, <3>1, <3>2 DEF Slots
  <2>3. CASE TypeOf[h] # ty
    <3>1. slot'[i].count = slot[i].count
      BY <2>1, <2>3
    <3>2. (Behind(TypeOf[h], i)' <=> Behind(TypeOf[h], i)) /\ (Ahead(TypeOf[h], i)' <=> Ahead(TypeOf[h], i))
      BY <1>1, <2>2, <2>3 DEF Behind, Ahead, Midway
    <3> QED BY <1>2, <2>1, <3>1, <3>2 DEF TimeOK
  <2>4. CASE TypeOf[h] = ty /\ i = at[ty]
    <3>1. ~Ahead(ty, i)'
      BY <1>1, <2>2, <2>4 DEF Ahead, Midway
    <3>2. elapsed[h] + slot'[i].count \in {Value[h] - 1, Value[h]}
      BY <2>1, <2>4
    <3> QED BY <2>4, <3>1, <3>2 DEF TimeOK
  <2>5. CASE TypeOf[h] = ty /\ i # at[ty]
    <3>1. slot'[i].count = slot[i].count
      BY <2>5
    <3>2. CASE at'[ty] = at[ty] + 1 /\ pc'[ty] = "visit"
      <4>1. (Behind(ty, i)' => Behind(ty, i)) /\ (Ahead(ty, i)' => Ahead(ty, i))
        BY <2>2, <2>5, <3>2 DEF Behind, Ahead, Midway
      <4> QED BY <2>1, <2>5, <3>1, <4>1 DEF TimeOK
    <3>3. CASE ~(at[ty] + 1 < TMR_ID_COUNT) /\ pc'[ty] = "pend"
      <4>1. Behind(ty, i) /\ ~Ahead(ty, i)'
        BY <2>2, <2>5, <3>3 DEF Behind, Ahead, Midway
      <4> QED BY <2>1, <2>5, <3>1, <4>1 DEF TimeOK
    <3> QED BY <1>1, <3>2, <3>3
  <2> QED BY <2>3, <2>4, <2>5
<1>8. Counted'
  BY <1>2, CountedKept DEF InOrder
<1> QED BY <1>4, <1>5, <1>6, <1>7, <1>8 DEF InOrder

(* What a due or counting slot of its own type tells the update task. *)
LEMMA MineIs ==
  ASSUME Base, InOrder, NEW ty \in Types, Mine(ty)
  PROVE  LET i == at[ty]
             h == slot[i].hdlr
         IN  /\ i \in Slots /\ i \in Int /\ Live(i) /\ slot[i].type = ty /\ h \in Users
             /\ armed[h] /\ handle[h] = i /\ TypeOf[h] = ty /\ slot[i].value = Value[h]
             /\ Value[h] \in Nat \ {0} /\ elapsed[h] \in Nat /\ slot[i].count \in Nat \ {0}
             /\ pc[ty] = "handler" => elapsed[h] + slot[i].count \in {Value[h] - 1, Value[h]}
             /\ pc[ty] \in Midway => elapsed[h] + slot[i].count \in {Value[h], Value[h] + 1}
<1> DEFINE i == at[ty]
           h == slot[i].hdlr
<1>1. i \in Slots /\ i \in Int /\ Live(i) /\ slot[i].type = ty /\ slot[i].count \in Int
  BY Kinds DEF Mine
<1>2. /\ h \in Users /\ armed[h] /\ handle[h] = i /\ TypeOf[h] = ty
      /\ slot[i].value = Value[h] /\ slot[i].count >= 1
  BY <1>1 DEF InOrder, SlotsOK, SlotOK
<1>3. Value[h] \in Nat \ {0} /\ elapsed[h] \in Nat
  BY <1>2, Kinds
<1>4. TimeOK(i)
  BY <1>1 DEF InOrder, TimesOK
<1>5. pc[ty] = "handler" => elapsed[h] + slot[i].count \in {Value[h] - 1, Value[h]}
  BY <1>1, <1>2, <1>4 DEF TimeOK, Behind
<1>6. pc[ty] \in Midway => elapsed[h] + slot[i].count \in {Value[h], Value[h] + 1}
  BY <1>1, <1>2, <1>4 DEF TimeOK, Ahead, Midway
<1> QED BY <1>1, <1>2, <1>3, <1>5, <1>6

LEMMA VisitOtherStep ==
  ASSUME Base, InOrder, NEW ty \in Types, VisitOther(ty)
  PROVE  InOrder'
BY AdvanceStep DEF VisitOther, Mine, table, users

LEMMA ReturnStep ==
  ASSUME Base, InOrder, NEW ty \in Types, Return(ty)
  PROVE  InOrder'
<1>1. Mine(ty) => /\ slot[at[ty]].count >= 1
                  /\ elapsed[slot[at[ty]].hdlr] + slot[at[ty]].count \in
                       {Value[slot[at[ty]].hdlr] - 1, Value[slot[at[ty]].hdlr]}
  BY MineIs DEF Return
<1> QED BY <1>1, AdvanceStep DEF Return, Mine, table, users

LEMMA CountDownStep ==
  ASSUME Base, InOrder, NEW ty \in Types, CountDown(ty)
  PROVE  InOrder'
<1> DEFINE k == at[ty]
           h == slot[k].hdlr
<1>1. /\ pc[ty] = "down" /\ Advance(ty) /\ k \in Slots
      /\ slot' = [slot EXCEPT ![k].count = slot[k].count - 1]
      /\ UNCHANGED <<tmr_nbr, typeNbr, call, handle, armed, elapsed>>
  BY Kinds DEF CountDown, users
<1>2. ASSUME Live(k)
      PROVE  /\ slot[k].type = ty /\ slot[k].count > 1
             /\ elapsed[h] + slot[k].count \in {Value[h], Value[h] + 1}
             /\ Value[h] \in Nat /\ elapsed[h] \in Nat /\ slot[k].count \in Nat
  <2>1. slot[k].type = ty /\ slot[k].count > 1
    BY <1>1, <1>2 DEF InOrder, TasksOK, WalkOK
  <2> QED BY <1>1, <1>2, <2>1, MineIs DEF Mine, Midway
<1>3. \A i \in Slots :
           /\ slot'[i].id = slot[i].id /\ slot'[i].type = slot[i].type /\ slot'[i].hdlr = slot[i].hdlr
           /\ slot'[i].cyclic = slot[i].cyclic /\ slot'[i].value = slot[i].value
           /\ i # k => slot'[i].count = slot[i].count
  BY <1>1, Kinds DEF Base, TypeOK
<1>4. slot'[k].count = slot[k].count - 1
  BY <1>1 DEF Base, TypeOK
<1>5. Live(k) => slot'[k].count >= 1 /\ elapsed[h] + slot'[k].count \in {Value[h] - 1, Value[h]}
  BY <1>2, <1>4
<1>6. \A i \in Slots : Live(i) => slot'[i].count = slot[i].count \/ (i = at[ty] /\ slot[i].type = ty)
  BY <1>2, <1>3
<1> QED BY <1>1, <1>3, <1>5, <1>6, AdvanceStep

LEMMA PendStep ==
  ASSUME Base, InOrder, NEW ty \in Types, Pend(ty)
  PROVE  InOrder'
<1>1. /\ pc[ty] = "pend" /\ elapsed' = Aged(ty)
      /\ pc' = [pc EXCEPT ![ty] = IF tmr_nbr > 0 /\ typeNbr[ty] > 0 THEN "visit" ELSE "pend"]
      /\ at' = [at EXCEPT ![ty] = 0]
      /\ UNCHANGED <<slot, tmr_nbr, typeNbr, call, handle, armed>>
  BY DEF Pend, table
<1>2. /\ \A u \in Types : u # ty => pc'[u] = pc[u] /\ at'[u] = at[u]
      /\ at'[ty] = 0 /\ pc'[ty] \in {"visit", "pend"}
      /\ pc'[ty] = "pend" => ~(tmr_nbr > 0 /\ typeNbr[ty] > 0)
  BY <1>1, Kinds
<1>3. /\ \A h \in Users : TypeOf[h] # ty => elapsed'[h] = elapsed[h]
      /\ \A h \in Users : armed[h] /\ TypeOf[h] = ty /\ elapsed[h] <= Value[h] => elapsed'[h] = elapsed[h] + 1
  BY <1>1 DEF Aged
<1>4. SlotsOK' /\ Counted'
  BY <1>1, CountedKept DEF InOrder, SlotsOK, SlotOK, Live
<1>5. UsersOK'
  <2>1. \A u \in Types, i \in Slots : Calling(u, i)' <=> Calling(u, i)
    BY <1>1, <1>2 DEF Calling
  <2> QED BY <1>1, <2>1, Kinds DEF InOrder, UsersOK, UserOK, Live
<1>6. TasksOK'
  <2> SUFFICES ASSUME NEW u \in Types
               PROVE  FillOK(u)' /\ ClearOK(u)' /\ WalkOK(u)' /\ CallOK(u)'
    BY DEF TasksOK
  <2>1. FillOK(u) /\ ClearOK(u) /\ WalkOK(u) /\ CallOK(u)
    BY DEF InOrder, TasksOK
  <2>2. CASE u = ty
    BY <1>2, <2>2 DEF FillOK, ClearOK, WalkOK, CallOK
  <2>3. CASE u # ty
    <3>1. FillOK(u)' /\ ClearOK(u)' /\ WalkOK(u)'
      BY <1>1, <1>2, <2>1, <2>3 DEF FillOK, ClearOK, WalkOK, Live
    <3>2. slot[at[u]].hdlr \in Users \cup {None}
      BY Kinds
    <3>3. CallOK(u)'
      BY <1>1, <1>2, <1>3, <2>1, <2>3, <3>2 DEF CallOK, Live
    <3> QED BY <3>1, <3>3
  <2> QED BY <2>2, <2>3
<1>7. TimesOK'
  <2> SUFFICES ASSUME NEW i \in Slots, Live(i)
               PROVE  TimeOK(i)'
    BY <1>1 DEF TimesOK, TimeOK, Live
  <2> DEFINE h == slot[i].hdlr
  <2>1. TimeOK(i) /\ h \in Users /\ slot[i].type = TypeOf[h] /\ slot[i].count >= 1 /\ armed[h]
    BY DEF InOrder, TimesOK, SlotsOK, SlotOK
  <2>2. TypeOf[h] \in Types /\ slot[i].count \in Int /\ elapsed[h] \in Nat /\ Value[h] \in Nat
    BY <2>1, Kinds
  <2>3. CASE TypeOf[h] # ty
    BY <1>1, <1>2, <1>3, <2>1, <2>2, <2>3 DEF TimeOK, Behind, Ahead, Midway
  <2>4. CASE TypeOf[h] = ty
    <3>1. elapsed[h] + slot[i].count \in {Value[h] - 1, Value[h]}
      BY <1>1, <2>1, <2>4 DEF TimeOK, Behind
    <3>2. elapsed'[h] + slot[i].count \in {Value[h], Value[h] + 1}
      BY <1>3, <2>1, <2>2, <2>4, <3>1
    <3>3. pc'[ty] # "pend"
      <4>1. i \in LiveOf(ty) /\ i \in LiveSlots
        BY <2>1, <2>4 DEF LiveOf, LiveSlots
      <4>2. IsFiniteSet(Slots)
        BY FS_Interval, TimerAssumption DEF Slots
      <4>3. IsFiniteSet(LiveOf(ty)) /\ IsFiniteSet(LiveSlots)
        BY <4>2, FS_Subset DEF LiveOf, LiveSlots
      <4>4. Cardinality(LiveOf(ty)) > 0 /\ Cardinality(LiveSlots) > 0
        BY <4>1, <4>3, FS_EmptySet, FS_CardinalityType
      <4> QED BY <1>2, <4>4 DEF InOrder, Counted
    <3>4. ~Behind(ty, i)'
      BY <1>2, <3>3 DEF Behind, Slots
    <3> QED BY <1>1, <2>4, <3>2, <3>4 DEF TimeOK
  <2> QED BY <2>3, <2>4
<1> QED BY <1>4, <1>5, <1>6, <1>7 DEF InOrder

(* A step of the walk that only reads the slot: what it has found holds.      *)
LEMMA PlaceStep ==
  ASSUME Base, InOrder, NEW ty \in Types,
         NEW p \in {"count", "down", "due", "expire", "reload", "enter"}, pc' = [pc EXCEPT ![ty] = p],
         UNCHANGED <<slot, tmr_nbr, typeNbr, at, call, handle, armed, elapsed>>,
         IF p = "enter" THEN pc[ty] = "call" ELSE pc[ty] \in Midway,
         WalkOK(ty)', CallOK(ty)'
  PROVE  InOrder'
<1>1. pc'[ty] = p /\ \A u \in Types : u # ty => pc'[u] = pc[u]
  BY Kinds
<1>2. SlotsOK' /\ Counted'
  BY CountedKept DEF InOrder, SlotsOK, SlotOK, Live
<1>3. UsersOK'
  <2>1. \A u \in Types, i \in Slots : Calling(u, i)' <=> Calling(u, i)
    BY <1>1 DEF Calling, Midway
  <2> QED BY <2>1, Kinds DEF InOrder, UsersOK, UserOK, Live
<1>4. TasksOK'
  <2> SUFFICES ASSUME NEW u \in Types
               PROVE  FillOK(u)' /\ ClearOK(u)' /\ WalkOK(u)' /\ CallOK(u)'
    BY DEF TasksOK
  <2>1. CASE u = ty
    BY <1>1, <2>1 DEF FillOK, ClearOK
  <2>2. CASE u # ty
    <3>1. FillOK(u) /\ ClearOK(u) /\ WalkOK(u) /\ CallOK(u)
      BY DEF InOrder, TasksOK
    <3> QED BY <1>1, <2>2, <3>1 DEF FillOK, ClearOK, WalkOK, CallOK, Live
  <2> QED BY <2>1, <2>2
<1>5. TimesOK'
  <2>1. \A u \in Types, i \in Slots : (Behind(u, i)' <=> Behind(u, i)) /\ (Ahead(u, i)' <=> Ahead(u, i))
    BY <1>1 DEF Behind, Ahead, Midway
  <2>2. ASSUME NEW i \in Slots
        PROVE  TimeOK(i)'
    <3>1. TimeOK(i) /\ (Live(i) => TypeOf[slot[i].hdlr] \in Types)
      BY Kinds DEF InOrder, TimesOK, SlotsOK, SlotOK
    <3> QED BY <2>1, <3>1 DEF TimeOK, Live
  <2> QED BY <2>2 DEF TimesOK
<1> QED BY <1>2, <1>3, <1>4, <1>5 DEF InOrder

LEMMA ReadStep ==
  ASSUME Base, InOrder, NEW ty \in Types, VisitMine(ty) \/ VisitCount(ty) \/ VisitDue(ty)
  PROVE  InOrder'
<1> DEFINE k == at[ty]
<1>1. UNCHANGED <<slot, tmr_nbr, typeNbr, at, call, handle, armed, elapsed>>
  BY DEF VisitMine, VisitCount, VisitDue, table, users
<1>2. WalkOK(ty) /\ k \in Slots /\ slot[k].count \in Int
  BY Kinds DEF InOrder, TasksOK
<1>3. CASE VisitMine(ty)
  <2>1. pc[ty] = "visit" /\ pc' = [pc EXCEPT ![ty] = "count"] /\ Live(k) /\ slot[k].type = ty
    BY <1>3 DEF VisitMine, Walks, Mine
  <2>2. pc'[ty] = "count"
    BY <2>1, Kinds
  <2>3. WalkOK(ty)' /\ CallOK(ty)'
    BY <1>1, <2>1, <2>2 DEF WalkOK, CallOK, Live
  <2> QED BY <1>1, <2>1, <2>3, PlaceStep DEF Midway
<1>4. CASE VisitCount(ty)
  <2>1. pc[ty] = "count" /\ pc' = [pc EXCEPT ![ty] = IF slot[k].count <= 1 THEN "due" ELSE "down"]
    BY <1>4 DEF VisitCount, Walks
  <2>2. pc'[ty] = IF slot[k].count <= 1 THEN "due" ELSE "down"
    BY <2>1, Kinds
  <2>3. WalkOK(ty)' /\ CallOK(ty)'
    BY <1>1, <1>2, <2>1, <2>2 DEF WalkOK, CallOK, Live
  <2> QED BY <1>1, <2>1, <2>3, PlaceStep DEF Midway
<1>5. CASE VisitDue(ty)
  <2>1. pc[ty] = "due" /\ pc' = [pc EXCEPT ![ty] = IF slot[k].cyclic THEN "reload" ELSE "expire"]
    BY <1>5 DEF VisitDue, Walks
  <2>2. pc'[ty] = IF slot[k].cyclic THEN "reload" ELSE "expire"
    BY <2>1, Kinds
  <2>3. WalkOK(ty)' /\ CallOK(ty)'
    BY <1>1, <1>2, <2>1, <2>2 DEF WalkOK, CallOK, Live
  <2> QED BY <1>1, <2>1, <2>3, PlaceStep DEF Midway
<1> QED BY <1>3, <1>4, <1>5

LEMMA TestHandlerStep ==
  ASSUME Base, InOrder, NEW ty \in Types, TestHandler(ty)
  PROVE  InOrder'
<1> DEFINE k == at[ty]
<1>1. k \in Slots /\ pc[ty] = "call" /\ UNCHANGED <<slot, tmr_nbr, typeNbr, call, handle, armed, elapsed>>
  BY Kinds DEF TestHandler, table, users
<1>2. CASE slot[k].hdlr = None
  <2>1. Advance(ty) /\ ~Live(k)
    BY <1>1, <1>2, Kinds DEF TestHandler, InOrder, SlotsOK, SlotOK
  <2> QED BY <1>1, <1>2, <2>1, AdvanceStep
<1>3. CASE slot[k].hdlr # None
  <2>1. at' = at /\ pc' = [pc EXCEPT ![ty] = "enter"]
    BY <1>3 DEF TestHandler
  <2>2. pc'[ty] = "enter"
    BY <2>1, Kinds
  <2>3. CallOK(ty)
    BY DEF InOrder, TasksOK
  <2>4. WalkOK(ty)' /\ CallOK(ty)'
    BY <1>1, <1>3, <2>1, <2>2, <2>3 DEF WalkOK, CallOK, Live
  <2> QED BY <1>1, <2>1, <2>4, PlaceStep
<1> QED BY <1>2, <1>3

LEMMA ReloadStep ==
  ASSUME Base, InOrder, NEW ty \in Types, Reload(ty)
  PROVE  InOrder'
<1> DEFINE k == at[ty]
           h == slot[k].hdlr
<1>1. /\ pc[ty] = "reload" /\ pc' = [pc EXCEPT ![ty] = "call"] /\ k \in Slots
      /\ slot' = [slot EXCEPT ![k].count = slot[k].value]
      /\ UNCHANGED <<tmr_nbr, typeNbr, at, call, handle, armed, elapsed>>
  BY Kinds DEF Reload, Walks, users
<1>2. (Live(k) <=> slot[k].cyclic) /\ (~Live(k) => h = None)
  BY <1>1 DEF InOrder, TasksOK, WalkOK
<1>3. ASSUME Live(k)
      PROVE  /\ slot[k].type = ty /\ h \in Users /\ armed[h] /\ handle[h] = k
             /\ TypeOf[h] = ty /\ slot[k].value = Value[h] /\ Value[h] \in Nat \ {0}
             /\ elapsed[h] \in {Value[h] - 1, Value[h]}
  <2>1. slot[k].type = ty /\ slot[k].count <= 1
    BY <1>1, <1>3 DEF InOrder, TasksOK, WalkOK
  <2>2. /\ h \in Users /\ armed[h] /\ handle[h] = k
        /\ TypeOf[h] = ty /\ slot[k].value = Value[h] /\ Value[h] \in Nat \ {0}
        /\ elapsed[h] + slot[k].count \in {Value[h], Value[h] + 1}
        /\ elapsed[h] \in Nat /\ slot[k].count \in Nat \ {0}
    BY <1>1, <1>3, <2>1, MineIs DEF Mine, Midway
  <2> QED BY <2>1, <2>2
<1>4. /\ \A i \in Slots : /\ slot'[i].id = slot[i].id /\ slot'[i].type = slot[i].type
                          /\ slot'[i].hdlr = slot[i].hdlr /\ slot'[i].cyclic = slot[i].cyclic
                          /\ slot'[i].value = slot[i].value
                          /\ i # k => slot'[i].count = slot[i].count
      /\ slot'[k].count = slot[k].value
  BY <1>1 DEF Base, TypeOK
<1>5. pc'[ty] = "call" /\ \A u \in Types : u # ty => pc'[u] = pc[u]
  BY <1>1, Kinds
<1>6. \A i \in Slots : Live(i)' <=> Live(i)
  BY <1>4 DEF Live
<1>7. SlotsOK'
  <2> SUFFICES ASSUME NEW i \in Slots
               PROVE  SlotOK(i)'
    BY DEF SlotsOK
  <2>1. SlotOK(i)
    BY DEF InOrder, SlotsOK
  <2>2. Live(i) => slot'[i].count >= 1
    BY <1>3, <1>4, <2>1 DEF SlotOK
  <2> QED BY <1>1, <1>4, <1>6, <2>1, <2>2 DEF SlotOK
<1>8. UsersOK'
  <2> SUFFICES ASSUME NEW g \in Users
               PROVE  UserOK(g)'
    BY DEF UsersOK
  <2>1. UserOK(g) /\ TypeOf[g] \in Types
    BY Kinds DEF InOrder, UsersOK
  <2>2. Calling(TypeOf[g], handle[g]) => Calling(TypeOf[g], handle[g])'
    BY <1>1, <1>5, <2>1 DEF Calling
  <2> QED BY <1>1, <1>4, <1>6, <2>1, <2>2 DEF UserOK
<1>9. TasksOK'
  <2> SUFFICES ASSUME NEW u \in Types
               PROVE  FillOK(u)' /\ ClearOK(u)' /\ WalkOK(u)' /\ CallOK(u)'
    BY DEF TasksOK
  <2>1. FillOK(u) /\ ClearOK(u) /\ WalkOK(u) /\ CallOK(u) /\ at[u] \in Slots
    BY Kinds DEF InOrder, TasksOK
  <2>2. CASE u = ty
    <3>1. FillOK(u)' /\ ClearOK(u)' /\ WalkOK(u)'
      BY <1>5, <2>2 DEF FillOK, ClearOK, WalkOK
    <3>2. CallOK(u)'
      BY <1>1, <1>2, <1>3, <1>4, <1>5, <1>6, <2>2 DEF CallOK
    <3> QED BY <3>1, <3>2
  <2>3. CASE u # ty
    <3>1. FillOK(u)' /\ ClearOK(u)'
      BY <1>1, <1>5, <2>1, <2>3 DEF FillOK, ClearOK
    <3>2. pc[u] \in {"count", "down", "due", "expire", "reload"} /\ Live(at[u]) => slot'[at[u]].count = slot[at[u]].count
      BY <1>3, <1>4, <2>1, <2>3 DEF WalkOK
    <3>3. WalkOK(u)'
      BY <1>1, <1>4, <1>5, <1>6, <2>1, <2>3, <3>2 DEF WalkOK
    <3>4. pc[u] \in {"call", "enter"} /\ slot[at[u]].hdlr # None /\ slot[at[u]].cyclic =>
            slot'[at[u]].count = slot[at[u]].count
      BY <1>3, <1>4, <2>1, <2>3 DEF CallOK
    <3>5. CallOK(u)'
      BY <1>1, <1>4, <1>5, <1>6, <2>1, <2>3, <3>4 DEF CallOK
    <3> QED BY <3>1, <3>3, <3>5
  <2> QED BY <2>2, <2>3
<1>10. TimesOK'
  <2> SUFFICES ASSUME NEW i \in Slots, Live(i)
               PROVE  TimeOK(i)'
    BY <1>6 DEF TimesOK, TimeOK
  <2>1. TimeOK(i) /\ slot[i].hdlr \in Users
    BY DEF InOrder, TimesOK, SlotsOK, SlotOK
  <2>2. CASE i = k
    <3>1. ~Behind(ty, i)' /\ ~Ahead(ty, i)'
      BY <1>1, <1>5, <2>2, Kinds DEF Behind, Ahead, Midway
    <3> QED BY <1>3, <1>4, <2>2, <3>1 DEF TimeOK
  <2>3. CASE i # k
    <3>1. slot'[i].count = slot[i].count
      BY <1>4, <2>3
    <3>2. ASSUME NEW u \in Types
          PROVE  (Behind(u, i)' => Behind(u, i)) /\ (Ahead(u, i)' => Ahead(u, i))
      BY <1>1, <1>5, <2>3, Kinds DEF Behind, Ahead, Midway
    <3>3. TypeOf[slot[i].hdlr] \in Types
      BY <2>1, Kinds
    <3> QED BY <1>1, <1>4, <1>6, <2>1, <3>1, <3>2, <3>3 DEF TimeOK
  <2> QED BY <2>2, <2>3
<1>11. Counted'
  BY <1>1, <1>4, <1>6, CountedKept DEF InOrder
<1> QED BY <1>7, <1>8, <1>9, <1>10, <1>11 DEF InOrder

(* One slot less, or one more. *)
LEMMA OneLess ==
  ASSUME Base, Counted, NEW k \in Slots, NEW ty \in Types, Live(k), slot[k].type = ty,
         ~Live(k)',
         \A i \in Slots : i # k => (Live(i)' <=> Live(i)) /\ slot'[i].type = slot[i].type,
         tmr_nbr' = U8(tmr_nbr - 1),
         \A c \in Types : typeNbr'[c] = IF c = ty THEN U8(typeNbr[c] - 1) ELSE typeNbr[c]
  PROVE  Counted'
<1>1. LiveSlots' = LiveSlots \ {k} /\ k \in LiveSlots
  BY DEF LiveSlots
<1>2. LiveOf(ty)' = LiveOf(ty) \ {k} /\ k \in LiveOf(ty)
  BY DEF LiveOf
<1>3. \A c \in Types : c # ty => LiveOf(c)' = LiveOf(c)
  BY DEF LiveOf
<1>4. IsFiniteSet(Slots)
  BY FS_Interval, TimerAssumption DEF Slots
<1>5. IsFiniteSet(LiveSlots) /\ IsFiniteSet(LiveOf(ty))
  BY <1>4, FS_Subset DEF LiveSlots, LiveOf
<1>6. Cardinality(LiveSlots') = Cardinality(LiveSlots) - 1
  BY <1>1, <1>5, FS_RemoveElement
<1>7. Cardinality(LiveOf(ty)') = Cardinality(LiveOf(ty)) - 1
  BY <1>2, <1>5, FS_RemoveElement
<1>8. Cardinality(LiveSlots) > 0 /\ Cardinality(LiveOf(ty)) > 0
  BY <1>1, <1>2, <1>5, FS_EmptySet, FS_CardinalityType
<1>9. tmr_nbr \in 0 .. 255 /\ typeNbr[ty] \in 0 .. 255
  BY DEF Base, TypeOK
<1>10. tmr_nbr = Cardinality(LiveSlots) /\ \A c \in Types : typeNbr[c] = Cardinality(LiveOf(c))
  BY DEF Counted
<1>11. tmr_nbr' = Cardinality(LiveSlots')
  <2>1. tmr_nbr > 0
    BY <1>8, <1>10
  <2> QED BY <1>6, <1>9, <1>10, <2>1, Byte
<1>12. typeNbr'[ty] = Cardinality(LiveOf(ty)')
  <2>1. typeNbr[ty] > 0
    BY <1>8, <1>10
  <2> QED BY <1>7, <1>9, <1>10, <2>1, Byte
<1>13. \A c \in Types : typeNbr'[c] = Cardinality(LiveOf(c)')
  BY <1>3, <1>10, <1>12
<1> QED BY <1>11, <1>13 DEF Counted

LEMMA OneMore ==
  ASSUME Base, Counted, NEW k \in Slots, NEW ty \in Types, ~Live(k),
         Live(k)', slot'[k].type = ty,
         \A i \in Slots : i # k => (Live(i)' <=> Live(i)) /\ slot'[i].type = slot[i].type,
         tmr_nbr' = U8(tmr_nbr + 1),
         \A c \in Types : typeNbr'[c] = IF c = ty THEN U8(typeNbr[c] + 1) ELSE typeNbr[c]
  PROVE  Counted'
<1>1. LiveSlots' = LiveSlots \cup {k} /\ k \notin LiveSlots
  BY DEF LiveSlots
<1>2. LiveOf(ty)' = LiveOf(ty) \cup {k} /\ k \notin LiveOf(ty)
  BY DEF LiveOf
<1>3. \A c \in Types : c # ty => LiveOf(c)' = LiveOf(c)
  BY DEF LiveOf
<1>4. IsFiniteSet(Slots) /\ Cardinality(Slots) = TMR_ID_COUNT
  <2>1. 0 \in Int /\ TMR_ID_COUNT - 1 \in Int /\ Slots = 0 .. TMR_ID_COUNT - 1
    BY TimerAssumption DEF Slots
  <2> QED BY <2>1, FS_Interval, TimerAssumption
<1>5. LiveSlots' \subseteq Slots /\ LiveOf(ty)' \subseteq Slots
      /\ LiveSlots \subseteq Slots /\ LiveOf(ty) \subseteq Slots
  BY DEF LiveSlots, LiveOf
<1>6. IsFiniteSet(LiveSlots) /\ IsFiniteSet(LiveOf(ty))
  BY <1>4, <1>5, FS_Subset
<1>7. Cardinality(LiveSlots') = Cardinality(LiveSlots) + 1
  BY <1>1, <1>6, FS_AddElement
<1>8. Cardinality(LiveOf(ty)') = Cardinality(LiveOf(ty)) + 1
  BY <1>2, <1>6, FS_AddElement
<1>9. Cardinality(LiveSlots') <= TMR_ID_COUNT /\ Cardinality(LiveOf(ty)') <= TMR_ID_COUNT
  BY <1>4, <1>5, FS_Subset
<1>10. tmr_nbr \in 0 .. 255 /\ typeNbr[ty] \in 0 .. 255 /\ TMR_ID_COUNT \in 1 .. 255
  BY TimerAssumption DEF Base, TypeOK
<1>11. tmr_nbr = Cardinality(LiveSlots) /\ \A c \in Types : typeNbr[c] = Cardinality(LiveOf(c))
  BY DEF Counted
<1>12. tmr_nbr' = Cardinality(LiveSlots')
  <2>1. tmr_nbr < 255
    BY <1>7, <1>9, <1>10, <1>11
  <2> QED BY <1>7, <1>10, <1>11, <2>1, Byte
<1>13. typeNbr'[ty] = Cardinality(LiveOf(ty)')
  <2>1. typeNbr[ty] < 255
    BY <1>8, <1>9, <1>10, <1>11
  <2> QED BY <1>8, <1>10, <1>11, <2>1, Byte
<1>14. \A c \in Types : typeNbr'[c] = Cardinality(LiveOf(c)')
  BY <1>3, <1>11, <1>13
<1> QED BY <1>12, <1>14 DEF Counted

LEMMA ExpireStep ==
  ASSUME Base, InOrder, NEW ty \in Types, Expire(ty)
  PROVE  InOrder'
<1> DEFINE k == at[ty]
           h == slot[k].hdlr
<1>1. /\ pc[ty] = "expire" /\ slot' = [slot EXCEPT ![k].id = 0] /\ tmr_nbr' = U8(tmr_nbr - 1)
      /\ typeNbr' = [c \in Types |-> IF c = GivesBack(ty) THEN U8(typeNbr[c] - 1) ELSE typeNbr[c]]
      /\ pc' = [pc EXCEPT ![ty] = "call"]
      /\ UNCHANGED <<at, call, handle, armed, elapsed>>
  BY DEF Expire, users
<1>2. /\ k \in Slots /\ Live(k) /\ slot[k].type = ty /\ h \in Users /\ armed[h] /\ handle[h] = k
      /\ TypeOf[h] = ty /\ elapsed[h] \in {Value[h] - 1, Value[h]} /\ ~slot[k].cyclic /\ ~Cyclic[h]
  <2>1. Live(k) /\ slot[k].type = ty /\ ~slot[k].cyclic /\ slot[k].count <= 1
    BY <1>1 DEF InOrder, TasksOK, WalkOK
  <2>2. /\ k \in Slots /\ h \in Users /\ armed[h] /\ handle[h] = k
        /\ TypeOf[h] = ty /\ Value[h] \in Nat \ {0}
        /\ elapsed[h] + slot[k].count \in {Value[h], Value[h] + 1}
        /\ elapsed[h] \in Nat /\ slot[k].count \in Nat \ {0}
    BY <1>1, <2>1, MineIs DEF Mine, Midway
  <2>3. slot[k].count = 1
    BY <2>1, <2>2
  <2>4. ~Cyclic[h]
    BY <2>1, <2>2 DEF InOrder, SlotsOK, SlotOK
  <2> QED BY <2>1, <2>2, <2>3, <2>4
<1>3. GivesBack(ty) = ty
  BY <1>2, TimerAssumption DEF GivesBack
<1>4. /\ \A i \in Slots : /\ slot'[i].type = slot[i].type /\ slot'[i].hdlr = slot[i].hdlr
                          /\ slot'[i].cyclic = slot[i].cyclic /\ slot'[i].value = slot[i].value
                          /\ slot'[i].count = slot[i].count
                          /\ i # k => slot'[i].id = slot[i].id
      /\ slot'[k].id = 0
  BY <1>1, <1>2 DEF Base, TypeOK
<1>5. /\ \A i \in Slots : i # k => (Live(i)' <=> Live(i))
      /\ ~Live(k)'
  BY <1>1, <1>4 DEF Live
<1>6. /\ \A u \in Types : u # ty => pc'[u] = pc[u]
      /\ pc'[ty] = "call"
  BY <1>1, Kinds
<1>7. SlotsOK'
  BY <1>1, <1>4, <1>5 DEF InOrder, SlotsOK, SlotOK
<1>8. UsersOK'
  <2> SUFFICES ASSUME NEW g \in Users, armed[g]
               PROVE  /\ handle[g] \in Slots /\ slot'[handle[g]].hdlr = g
                      /\ Live(handle[g])' \/ Calling(TypeOf[g], handle[g])'
    BY <1>1 DEF UsersOK, UserOK, Calling, Live
  <2>1. /\ handle[g] \in Slots /\ slot[handle[g]].hdlr = g
        /\ Live(handle[g]) \/ Calling(TypeOf[g], handle[g])
    BY DEF InOrder, UsersOK, UserOK
  <2>2. CASE handle[g] = k
    BY <1>1, <1>2, <1>4, <1>6, <2>1, <2>2 DEF Calling
  <2>3. CASE handle[g] # k
    <3>1. Calling(TypeOf[g], handle[g]) => Calling(TypeOf[g], handle[g])'
      BY <1>1, <1>6, <2>1, Kinds DEF Calling
    <3> QED BY <1>1, <1>4, <1>5, <2>1, <2>3, <3>1
  <2> QED BY <2>2, <2>3
<1>9. TasksOK'
  <2> SUFFICES ASSUME NEW u \in Types
               PROVE  FillOK(u)' /\ ClearOK(u)' /\ WalkOK(u)' /\ CallOK(u)'
    BY DEF TasksOK
  <2>1. FillOK(u) /\ ClearOK(u) /\ WalkOK(u) /\ CallOK(u) /\ at[u] \in Slots
    BY Kinds DEF InOrder, TasksOK
  <2>2. CASE u = ty
    BY <1>1, <1>2, <1>4, <1>5, <1>6, <2>2 DEF FillOK, ClearOK, WalkOK, CallOK
  <2>3. CASE u # ty
    <3>1. FillOK(u)' /\ ClearOK(u)'
      BY <1>1, <1>6, <2>1, <2>3 DEF FillOK, ClearOK
    <3>2. WalkOK(u)'
      BY <1>1, <1>2, <1>4, <1>5, <1>6, <2>1, <2>3 DEF WalkOK
    <3>3. pc[u] \in {"call", "enter"} => at[u] # k
      BY <1>2, <2>1, <2>3, Kinds DEF CallOK
    <3>4. CallOK(u)'
      BY <1>1, <1>4, <1>5, <1>6, <2>1, <2>3, <3>3 DEF CallOK
    <3> QED BY <3>1, <3>2, <3>4
  <2> QED BY <2>2, <2>3
<1>10. TimesOK'
  <2> SUFFICES ASSUME NEW i \in Slots
               PROVE  TimeOK(i)'
    BY DEF TimesOK
  <2>1. CASE i = k
    BY <1>1, <1>5, <2>1 DEF TimeOK
  <2>2. CASE i # k
    <3>1. TimeOK(i) /\ (Live(i) => TypeOf[slot[i].hdlr] \in Types)
      BY Kinds DEF InOrder, TimesOK, SlotsOK, SlotOK
    <3>2. ASSUME NEW u \in Types
          PROVE  (Behind(u, i)' => Behind(u, i)) /\ (Ahead(u, i)' => Ahead(u, i))
      BY <1>1, <1>6, <2>2, Kinds DEF Behind, Ahead, Midway
    <3> QED BY <1>1, <1>4, <1>5, <2>2, <3>1, <3>2 DEF TimeOK
  <2> QED BY <2>1, <2>2
<1>11. Counted'
  <2>1. \A c \in Types : typeNbr'[c] = IF c = ty THEN U8(typeNbr[c] - 1) ELSE typeNbr[c]
    BY <1>1, <1>3
  <2> QED BY <1>1, <1>2, <1>4, <1>5, <2>1, OneLess DEF InOrder
<1> QED BY <1>7, <1>8, <1>9, <1>10, <1>11 DEF InOrder

LEMMA CallHandlerStep ==
  ASSUME Base, InOrder, NEW ty \in Types, CallHandler(ty)
  PROVE  InOrder'
<1> DEFINE k == at[ty]
           h == slot[k].hdlr
<1>0. h # None
  BY DEF CallHandler
<1>1. k \in Slots /\ pc[ty] = "enter" /\ UNCHANGED <<slot, tmr_nbr, typeNbr, call>>
  BY Kinds DEF CallHandler, Walks, table
<1>2. /\ pc' = [pc EXCEPT ![ty] = "handler"]
      /\ armed' = [armed EXCEPT ![h] = armed[h] /\ slot[k].cyclic]
      /\ elapsed' = [elapsed EXCEPT ![h] = 0]
      /\ at' = at /\ handle' = handle
  BY <1>0 DEF CallHandler, Walks
<1>3. /\ h \in Users /\ armed[h] /\ handle[h] = k /\ TypeOf[h] = ty
      /\ (Live(k) <=> slot[k].cyclic)
      /\ slot[k].cyclic => slot[k].count = Value[h]
  <2>1. h \in Users
    BY <1>1, <1>0, Kinds
  <2> QED BY <1>1, <1>0, <2>1 DEF InOrder, TasksOK, CallOK
<1>4. /\ \A u \in Types : u # ty => pc'[u] = pc[u]
      /\ pc'[ty] = "handler"
      /\ \A g \in Users : g # h => armed'[g] = armed[g] /\ elapsed'[g] = elapsed[g]
      /\ (armed'[h] <=> slot[k].cyclic) /\ elapsed'[h] = 0
  <2>1. /\ \A u \in Types : u # ty => pc'[u] = pc[u]
        /\ pc'[ty] = "handler"
    BY <1>2, Kinds
  <2>2. armed'[h] = (armed[h] /\ slot[k].cyclic) /\ \A g \in Users : g # h => armed'[g] = armed[g]
    BY <1>2, <1>3, Kinds
  <2>3. elapsed'[h] = 0 /\ \A g \in Users : g # h => elapsed'[g] = elapsed[g]
    BY <1>2, <1>3, Kinds
  <2> QED BY <1>3, <2>1, <2>2, <2>3
<1>5. SlotsOK'
  <2> SUFFICES ASSUME NEW i \in Slots
               PROVE  SlotOK(i)'
    BY DEF SlotsOK
  <2>1. SlotOK(i)
    BY DEF InOrder, SlotsOK
  <2>2. Live(i) => armed'[slot[i].hdlr]
    BY <1>3, <1>4, <2>1 DEF SlotOK
  <2> QED BY <1>1, <1>2, <2>1, <2>2 DEF SlotOK, Live
<1>6. UsersOK'
  <2> SUFFICES ASSUME NEW g \in Users, armed'[g]
               PROVE  /\ handle[g] \in Slots /\ slot[handle[g]].hdlr = g
                      /\ Live(handle[g]) \/ Calling(TypeOf[g], handle[g])'
    BY <1>1, <1>2 DEF UsersOK, UserOK, Calling, Live
  <2>1. armed[g]
    BY <1>3, <1>4
  <2>2. /\ handle[g] \in Slots /\ slot[handle[g]].hdlr = g
        /\ Live(handle[g]) \/ Calling(TypeOf[g], handle[g])
    BY <2>1 DEF InOrder, UsersOK, UserOK
  <2>3. CASE g = h
    BY <1>3, <1>4, <2>2, <2>3
  <2>4. CASE g # h
    <3>1. handle[g] # k /\ TypeOf[g] \in Types
      BY <2>2, <2>4, Kinds
    <3>2. Calling(TypeOf[g], handle[g]) => Calling(TypeOf[g], handle[g])'
      BY <1>2, <1>4, <3>1 DEF Calling
    <3> QED BY <2>2, <3>2
  <2> QED BY <2>3, <2>4
<1>7. TasksOK'
  <2> SUFFICES ASSUME NEW u \in Types
               PROVE  FillOK(u)' /\ ClearOK(u)' /\ WalkOK(u)' /\ CallOK(u)'
    BY DEF TasksOK
  <2>1. FillOK(u) /\ ClearOK(u) /\ WalkOK(u) /\ CallOK(u) /\ at[u] \in Slots
    BY Kinds DEF InOrder, TasksOK
  <2>2. CASE u = ty
    BY <1>4, <2>2 DEF FillOK, ClearOK, WalkOK, CallOK
  <2>3. CASE u # ty
    <3>1. FillOK(u)' /\ ClearOK(u)' /\ WalkOK(u)'
      BY <1>1, <1>2, <1>3, <1>4, <2>1, <2>3, Kinds DEF FillOK, ClearOK, WalkOK, Live
    <3>2. ASSUME pc[u] \in {"call", "enter"}, slot[at[u]].hdlr # None
          PROVE  slot[at[u]].hdlr \in Users /\ slot[at[u]].hdlr # h
      BY <1>3, <2>1, <2>3, <3>2, Kinds DEF CallOK
    <3>3. CallOK(u)'
      BY <1>1, <1>2, <1>4, <2>1, <2>3, <3>2 DEF CallOK, Live
    <3> QED BY <3>1, <3>3
  <2> QED BY <2>2, <2>3
<1>8. TimesOK'
  <2> SUFFICES ASSUME NEW i \in Slots, Live(i)
               PROVE  TimeOK(i)'
    BY <1>1 DEF TimesOK, TimeOK, Live
  <2> DEFINE g == slot[i].hdlr
  <2>1. TimeOK(i) /\ g \in Users /\ handle[g] = i
    BY DEF InOrder, TimesOK, SlotsOK, SlotOK
  <2>2. Value[g] \in Nat /\ TypeOf[g] \in Types
    BY <2>1, Kinds
  <2>3. CASE g = h
    <3>1. i = k /\ elapsed'[g] + slot[i].count = Value[g] /\ ~Ahead(ty, i)'
      BY <1>2, <1>3, <1>4, <2>1, <2>2, <2>3, Kinds DEF Ahead, Midway
    <3> QED BY <1>1, <1>2, <1>3, <2>3, <3>1 DEF TimeOK
  <2>4. CASE g # h
    <3>1. i # k /\ elapsed'[g] = elapsed[g]
      BY <1>4, <2>1, <2>4
    <3>2. (Behind(TypeOf[g], i)' => Behind(TypeOf[g], i)) /\ (Ahead(TypeOf[g], i)' => Ahead(TypeOf[g], i))
      BY <1>1, <1>2, <1>4, <2>2, <3>1, Kinds DEF Behind, Ahead, Midway
    <3> QED BY <1>1, <2>1, <3>1, <3>2 DEF TimeOK, Live
  <2> QED BY <2>3, <2>4
<1>9. Counted'
  BY <1>1, CountedKept DEF InOrder, Live
<1> QED BY <1>5, <1>6, <1>7, <1>8, <1>9 DEF InOrder

LEMMA FillStep ==
  ASSUME Base, InOrder, NEW t \in Types, SubscribeFill(t), ~raced'
  PROVE  InOrder'
<1>0. call[t].user \in Users /\ call[t].slot \in Slots
  BY Kinds DEF SubscribeFill
<1>a. PICK h \in Users : h = call[t].user
  BY <1>0
<1>b. PICK k \in Slots : k = call[t].slot
  BY <1>0
<1> DEFINE new == Timer(U8(tmr_nbr + 1), h)
<1>1. /\ pc[t] = "fill"
      /\ slot' = [slot EXCEPT ![k] = new]
      /\ typeNbr' = [typeNbr EXCEPT ![TypeOf[h]] = U8(typeNbr[TypeOf[h]] + 1)]
      /\ handle' = [handle EXCEPT ![h] = k]
      /\ armed' = [armed EXCEPT ![h] = TRUE]
      /\ elapsed' = [elapsed EXCEPT ![h] = 0]
      /\ ~Taken(k) /\ tmr_nbr' = U8(tmr_nbr + 1)
      /\ call' = [call EXCEPT ![t] = None]
      /\ pc' = [pc EXCEPT ![t] = "handler"] /\ at' = at
  BY <1>a, <1>b DEF SubscribeFill
<1>2. Owner[h] = t /\ handle[h] = None /\ ~armed[h]
  <2>1. FillOK(t)
    BY DEF InOrder, TasksOK
  <2> QED BY <1>a, <1>1, <2>1 DEF FillOK
<1>3. /\ ~Live(k) /\ \A u \in Types : pc[u] \in {"count", "down", "due", "expire", "reload", "call", "enter"} => at[u] # k
      /\ TypeOf[h] \in Types /\ Value[h] \in Nat \ {0} /\ Cyclic[h] \in BOOLEAN
  BY <1>1, Kinds DEF Taken, WalkedAt
<1>4. U8(tmr_nbr + 1) > 0
  <2>1. 0 \in Int /\ TMR_ID_COUNT - 1 \in Int /\ Slots = 0 .. TMR_ID_COUNT - 1 /\ TMR_ID_COUNT \in 1 .. 255
    BY TimerAssumption DEF Slots
  <2>2. IsFiniteSet(Slots) /\ Cardinality(Slots) = TMR_ID_COUNT
    BY <2>1, FS_Interval
  <2>3. LiveSlots \in SUBSET Slots /\ LiveSlots # Slots
    BY <1>3 DEF LiveSlots
  <2>4. IsFiniteSet(LiveSlots) /\ Cardinality(LiveSlots) <= TMR_ID_COUNT /\ Cardinality(LiveSlots) # TMR_ID_COUNT
    BY <2>2, <2>3, FS_Subset
  <2>5. tmr_nbr = Cardinality(LiveSlots) /\ tmr_nbr \in 0 .. 255
    BY DEF InOrder, Counted, Base, TypeOK
  <2>a. tmr_nbr <= TMR_ID_COUNT /\ tmr_nbr # TMR_ID_COUNT
    BY <2>4, <2>5
  <2>b. TMR_ID_COUNT \in 1 .. 255
    BY <2>1
  <2>6. tmr_nbr < 255 /\ tmr_nbr + 1 > 0
    BY <2>5, <2>a, <2>b
  <2> QED BY <2>5, <2>6, Byte
<1>5. /\ new.id > 0 /\ new.type = TypeOf[h] /\ new.hdlr = h /\ new.value = Value[h]
      /\ new.count = Value[h] /\ new.cyclic = Cyclic[h]
  BY <1>4 DEF Timer
<1> HIDE DEF new
<1>6. slot'[k] = new /\ \A i \in Slots : i # k => slot'[i] = slot[i]
  BY <1>1, Kinds
<1>7. Live(k)' /\ \A i \in Slots : i # k => (Live(i)' <=> Live(i))
  BY <1>5, <1>6 DEF Live
<1>8. /\ \A u \in Types : u # t => pc'[u] = pc[u] /\ call'[u] = call[u]
      /\ pc'[t] = "handler"
      /\ \A g \in Users : g # h => /\ handle'[g] = handle[g] /\ armed'[g] = armed[g]
                                   /\ elapsed'[g] = elapsed[g]
      /\ handle'[h] = k /\ armed'[h] /\ elapsed'[h] = 0
  BY <1>1, Kinds
<1>9. SlotsOK'
  <2> SUFFICES ASSUME NEW i \in Slots
               PROVE  SlotOK(i)'
    BY DEF SlotsOK
  <2>1. CASE i = k
    BY <1>3, <1>5, <1>6, <1>8, <2>1 DEF SlotOK
  <2>2. CASE i # k
    <3>1. SlotOK(i)
      BY DEF InOrder, SlotsOK
    <3>2. Live(i) => slot[i].hdlr # h
      BY <1>2, <3>1 DEF SlotOK
    <3> QED BY <1>6, <1>7, <1>8, <2>2, <3>1, <3>2 DEF SlotOK
  <2> QED BY <2>1, <2>2
<1>10. UsersOK'
  <2> SUFFICES ASSUME NEW g \in Users, armed'[g]
               PROVE  /\ handle'[g] \in Slots /\ slot'[handle'[g]].hdlr = g
                      /\ slot'[handle'[g]].id > 0 \/ (pc'[TypeOf[g]] \in {"call", "enter"} /\ at'[TypeOf[g]] = handle'[g])
    BY DEF UsersOK, UserOK, Live, Calling
  <2>1. CASE g = h
    BY <1>5, <1>6, <1>8, <2>1
  <2>2. CASE g # h
    <3>1. /\ handle[g] \in Slots /\ slot[handle[g]].hdlr = g
          /\ Live(handle[g]) \/ Calling(TypeOf[g], handle[g])
      BY <1>8, <2>2 DEF InOrder, UsersOK, UserOK
    <3>2. TypeOf[g] \in Types
      BY Kinds
    <3>3. handle[g] # k
      BY <1>3, <3>1, <3>2 DEF Calling
    <3>4. Calling(TypeOf[g], handle[g]) => pc'[TypeOf[g]] \in {"call", "enter"} /\ at'[TypeOf[g]] = handle'[g]
      BY <1>1, <1>8, <2>2, <3>2 DEF Calling
    <3>5. Live(handle[g]) => slot'[handle'[g]].id > 0
      BY <1>6, <1>8, <2>2, <3>1, <3>3 DEF Live
    <3> QED BY <1>6, <1>8, <2>2, <3>1, <3>3, <3>4, <3>5
  <2> QED BY <2>1, <2>2
<1>11. TasksOK'
  <2> SUFFICES ASSUME NEW u \in Types
               PROVE  FillOK(u)' /\ ClearOK(u)' /\ WalkOK(u)' /\ CallOK(u)'
    BY DEF TasksOK
  <2>1. FillOK(u) /\ ClearOK(u) /\ WalkOK(u) /\ CallOK(u) /\ at[u] \in Slots
    BY Kinds DEF InOrder, TasksOK
  <2>2. CASE u = t
    BY <1>8, <2>2 DEF FillOK, ClearOK, WalkOK, CallOK
  <2>3. CASE u # t
    <3>1. FillOK(u)' /\ ClearOK(u)'
      BY <1>2, <1>8, <2>1, <2>3, Kinds DEF FillOK, ClearOK
    <3>2. WalkOK(u)'
      BY <1>1, <1>3, <1>6, <1>7, <1>8, <2>1, <2>3 DEF WalkOK
    <3>3. CallOK(u)'
      <4>1. ASSUME pc[u] \in {"call", "enter"}, slot[at[u]].hdlr # None
            PROVE  slot[at[u]].hdlr \in Users /\ slot[at[u]].hdlr # h
        BY <1>2, <2>1, <4>1, Kinds DEF CallOK
      <4> QED BY <1>1, <1>3, <1>6, <1>7, <1>8, <2>1, <2>3, <4>1 DEF CallOK
    <3> QED BY <3>1, <3>2, <3>3
  <2> QED BY <2>2, <2>3
<1>12. TimesOK'
  <2> SUFFICES ASSUME NEW i \in Slots
               PROVE  TimeOK(i)'
    BY DEF TimesOK
  <2>1. CASE i = k
    <3>1. elapsed'[h] + new.count = Value[h] /\ Value[h] \in Nat
      BY <1>3, <1>5, <1>8
    <3> QED BY <1>5, <1>6, <2>1, <3>1 DEF TimeOK
  <2>2. CASE i # k
    <3>1. TimeOK(i) /\ SlotOK(i)
      BY DEF InOrder, TimesOK, SlotsOK
    <3>2. Live(i) => slot[i].hdlr # h /\ slot[i].hdlr \in Users /\ TypeOf[slot[i].hdlr] \in Types
      BY <1>2, <3>1, Kinds DEF SlotOK
    <3>3. ASSUME NEW u \in Types
          PROVE  (Behind(u, i)' => Behind(u, i)) /\ (Ahead(u, i)' => Ahead(u, i))
      BY <1>1, <1>8, Kinds DEF Behind, Ahead, Midway
    <3> QED BY <1>6, <1>7, <1>8, <2>2, <3>1, <3>2, <3>3 DEF TimeOK
  <2> QED BY <2>1, <2>2
<1>13. Counted'
  <2>1. \A c \in Types : typeNbr'[c] = IF c = TypeOf[h] THEN U8(typeNbr[c] + 1) ELSE typeNbr[c]
    BY <1>1, Kinds
  <2>2. Base /\ Counted
    BY DEF InOrder
  <2> QED BY <1>1, <1>3, <1>5, <1>6, <1>7, <2>1, <2>2, OneMore
<1> QED BY <1>9, <1>10, <1>11, <1>12, <1>13 DEF InOrder

LEMMA ClearStep ==
  ASSUME Base, InOrder, NEW t \in Types, UnSubscribeClear(t), ~raced'
  PROVE  InOrder'
<1>0. call[t].user \in Users /\ call[t].slot \in Slots
  BY Kinds DEF UnSubscribeClear
<1>a. PICK h \in Users : h = call[t].user
  BY <1>0
<1>b. PICK k \in Slots : k = call[t].slot
  BY <1>0
<1> DEFINE new == [id |-> 0, type |-> TypeOf[h], cyclic |-> FALSE,
                   value |-> 0, count |-> 0, hdlr |-> None]
<1>1. /\ pc[t] = "clear"
      /\ slot' = [slot EXCEPT ![k] = new]
      /\ typeNbr' = [typeNbr EXCEPT ![TypeOf[h]] = U8(typeNbr[TypeOf[h]] - 1)]
      /\ handle' = [handle EXCEPT ![h] = None]
      /\ armed' = [armed EXCEPT ![h] = FALSE]
      /\ Found(h) /\ ~Examined(k) /\ tmr_nbr' = U8(tmr_nbr - 1)
      /\ call' = [call EXCEPT ![t] = None]
      /\ pc' = [pc EXCEPT ![t] = "handler"] /\ at' = at /\ elapsed' = elapsed
  BY <1>a, <1>b DEF UnSubscribeClear
<1>2. Owner[h] = t /\ handle[h] = k
  <2>1. ClearOK(t)
    BY DEF InOrder, TasksOK
  <2> QED BY <1>a, <1>b, <1>1, <2>1 DEF ClearOK
<1>3. /\ Live(k) /\ slot[k].hdlr = h /\ slot[k].type = TypeOf[h] /\ TypeOf[h] \in Types
      /\ \A u \in Types : pc[u] \in {"count", "due", "expire", "enter"} => at[u] # k
  BY <1>1, <1>2, Kinds DEF Found, Live, Examined, WalkedAt
<1>5. new.id = 0 /\ new.hdlr = None /\ new.cyclic = FALSE
  OBVIOUS
<1> HIDE DEF new
<1>6. slot'[k] = new /\ \A i \in Slots : i # k => slot'[i] = slot[i]
  BY <1>1, Kinds
<1>7. ~Live(k)' /\ \A i \in Slots : i # k => (Live(i)' <=> Live(i))
  BY <1>5, <1>6 DEF Live
<1>8. /\ \A u \in Types : u # t => pc'[u] = pc[u] /\ call'[u] = call[u]
      /\ pc'[t] = "handler"
      /\ \A g \in Users : g # h => handle'[g] = handle[g] /\ armed'[g] = armed[g]
      /\ handle'[h] = None /\ ~armed'[h]
  BY <1>1, Kinds
<1>9. SlotsOK'
  <2> SUFFICES ASSUME NEW i \in Slots, i # k
               PROVE  SlotOK(i)'
    BY <1>7 DEF SlotsOK, SlotOK
  <2>1. SlotOK(i)
    BY DEF InOrder, SlotsOK
  <2>2. Live(i) => slot[i].hdlr # h
    BY <1>2, <2>1 DEF SlotOK
  <2> QED BY <1>6, <1>7, <1>8, <2>1, <2>2 DEF SlotOK
<1>10. UsersOK'
  <2> SUFFICES ASSUME NEW g \in Users, armed'[g]
               PROVE  /\ handle'[g] \in Slots /\ slot'[handle'[g]].hdlr = g
                      /\ slot'[handle'[g]].id > 0 \/ (pc'[TypeOf[g]] \in {"call", "enter"} /\ at'[TypeOf[g]] = handle'[g])
    BY DEF UsersOK, UserOK, Live, Calling
  <2>1. g # h
    BY <1>8
  <2>2. /\ handle[g] \in Slots /\ slot[handle[g]].hdlr = g
        /\ Live(handle[g]) \/ Calling(TypeOf[g], handle[g])
    BY <1>8, <2>1 DEF InOrder, UsersOK, UserOK
  <2>3. handle[g] # k /\ TypeOf[g] \in Types
    BY <1>3, <2>1, <2>2, Kinds
  <2>4. Calling(TypeOf[g], handle[g]) => pc'[TypeOf[g]] \in {"call", "enter"} /\ at'[TypeOf[g]] = handle'[g]
    BY <1>1, <1>8, <2>1, <2>3 DEF Calling
  <2>5. Live(handle[g]) => slot'[handle'[g]].id > 0
    BY <1>6, <1>8, <2>1, <2>2, <2>3 DEF Live
  <2> QED BY <1>6, <1>8, <2>1, <2>2, <2>3, <2>4, <2>5
<1>11. TasksOK'
  <2> SUFFICES ASSUME NEW u \in Types
               PROVE  FillOK(u)' /\ ClearOK(u)' /\ WalkOK(u)' /\ CallOK(u)'
    BY DEF TasksOK
  <2>1. FillOK(u) /\ ClearOK(u) /\ WalkOK(u) /\ CallOK(u) /\ at[u] \in Slots
    BY Kinds DEF InOrder, TasksOK
  <2>2. CASE u = t
    BY <1>8, <2>2 DEF FillOK, ClearOK, WalkOK, CallOK
  <2>3. CASE u # t
    <3>1. FillOK(u)' /\ ClearOK(u)'
      BY <1>2, <1>8, <2>1, <2>3, Kinds DEF FillOK, ClearOK
    <3>2. WalkOK(u)'
      BY <1>1, <1>3, <1>5, <1>6, <1>7, <1>8, <2>1, <2>3 DEF WalkOK
    <3>3. CallOK(u)'
      <4>1. CASE at[u] = k
        BY <1>1, <1>3, <1>5, <1>6, <1>7, <1>8, <2>3, <4>1 DEF CallOK
      <4>2. CASE at[u] # k
        <5>1. ASSUME pc[u] \in {"call", "enter"}, slot[at[u]].hdlr # None
              PROVE  slot[at[u]].hdlr \in Users /\ slot[at[u]].hdlr # h
          BY <1>2, <2>1, <4>2, <5>1, Kinds DEF CallOK
        <5> QED BY <1>1, <1>6, <1>7, <1>8, <2>1, <2>3, <4>2, <5>1 DEF CallOK
      <4> QED BY <4>1, <4>2
    <3> QED BY <3>1, <3>2, <3>3
  <2> QED BY <2>2, <2>3
<1>12. TimesOK'
  <2> SUFFICES ASSUME NEW i \in Slots, i # k
               PROVE  TimeOK(i)'
    BY <1>7 DEF TimesOK, TimeOK
  <2>1. TimeOK(i) /\ (Live(i) => TypeOf[slot[i].hdlr] \in Types)
    BY Kinds DEF InOrder, TimesOK, SlotsOK, SlotOK
  <2>2. ASSUME NEW u \in Types
        PROVE  (Behind(u, i)' => Behind(u, i)) /\ (Ahead(u, i)' => Ahead(u, i))
    BY <1>1, <1>8, Kinds DEF Behind, Ahead, Midway
  <2> QED BY <1>1, <1>6, <1>7, <2>1, <2>2 DEF TimeOK
<1>13. Counted'
  <2>1. \A c \in Types : typeNbr'[c] = IF c = TypeOf[h] THEN U8(typeNbr[c] - 1) ELSE typeNbr[c]
    BY <1>1, Kinds
  <2>2. Base /\ Counted
    BY DEF InOrder
  <2> QED BY <1>1, <1>3, <1>6, <1>7, <2>1, <2>2, OneLess
<1> QED BY <1>9, <1>10, <1>11, <1>12, <1>13 DEF InOrder
--------------------------------------------------------------------------------
LEMMA OrderStep ==
  ASSUME Base, InOrder, [Next]_vars, ~raced'
  PROVE  InOrder'
<1>1. CASE UNCHANGED vars
  BY <1>1, QuietStep DEF vars, users
<1>2. ASSUME NEW ty \in Types, Tick(ty)
      PROVE  InOrder'
  BY <1>2, QuietStep DEF Tick, users
<1>3. ASSUME NEW ty \in Types, CallNull(ty)
      PROVE  FALSE
  BY <1>3 DEF CallNull, InOrder, TasksOK, CallOK
<1> QED BY Actions, <1>1, <1>2, <1>3, PendStep, VisitOtherStep, ReadStep, CountDownStep, ExpireStep,
           ReloadStep, TestHandlerStep, CallHandlerStep, ReturnStep, FillStep, ClearStep, ScanStep, ForgetStep

(* A race is not forgotten, but by a reset. *)
LEMMA RacedStays ==
  ASSUME Base, [Next]_vars, raced
  PROVE  raced' \/ Init'
<1>1. ASSUME NEW ty \in Types, CallNull(ty)
      PROVE  Init'
  BY <1>1 DEF CallNull, Init
<1>2. ASSUME NEW ty \in Types, \/ VisitMine(ty) \/ VisitCount(ty) \/ VisitDue(ty) \/ Reload(ty)
                               \/ TestHandler(ty) \/ CallHandler(ty) \/ CountDown(ty)
      PROVE  raced'
  BY <1>2 DEF users, VisitMine, VisitCount, VisitDue, Reload, TestHandler, CallHandler, CountDown
<1>3. ASSUME NEW ty \in Types, \/ Tick(ty) \/ Pend(ty) \/ VisitOther(ty) \/ Expire(ty) \/ Return(ty)
                               \/ SubscribeFill(ty) \/ UnSubscribeClear(ty)
      PROVE  raced'
  BY <1>3 DEF users, Tick, Pend, VisitOther, Expire, Return, SubscribeFill, UnSubscribeClear
<1>4. ASSUME NEW t \in Types, NEW h \in Users, SubscribeScan(t, h) \/ UnSubscribeScan(t, h) \/ Forget(t, h)
      PROVE  raced'
  BY <1>4 DEF users, SubscribeScan, UnSubscribeScan, Forget
<1> QED BY Actions, <1>1, <1>2, <1>3, <1>4 DEF vars, users

(* The inductive invariant: the types, and the order of the table for as     *)
(* long as no task has come between another's search and its step.           *)
THEOREM Invariant == Spec => []Inv
<1>1. Init => Inv
  BY InitBase, InitOrder DEF Inv
<1>2. Inv /\ [Next]_vars => Inv'
  <2> SUFFICES ASSUME Inv, [Next]_vars
               PROVE  Inv'
    OBVIOUS
  <2>1. Base /\ Base'
    BY BaseStep DEF Inv
  <2>2. raced' \/ InOrder'
    <3>1. Init' => InOrder'
      BY InitOrder, PTL
    <3> QED BY <2>1, <3>1, OrderStep, RacedStays DEF Inv
  <2> QED BY <2>1, <2>2 DEF Inv
<1> QED BY <1>1, <1>2, PTL DEF Spec

(* Every identifier and counter of the timer table stays within its byte and *)
(* every walk of an update request within the table.                         *)
THEOREM TypeCorrect == Spec => []TypeOK
<1>1. Inv => TypeOK
  BY DEF Inv, Base
<1> QED BY <1>1, Invariant, PTL

(* Timer.tmr_nbr and the counters of the types are exact for every table,    *)
(* whatever the handlers subscribe and cancel, until the first race.         *)
THEOREM CountersAlwaysExact == Spec => []CountersExact
<1>1. Inv => CountersExact
  BY DEF Inv, InOrder, Counted, LiveSlots, LiveOf, CountersExact
<1> QED BY <1>1, Invariant, PTL

(* A live slot is the timer of the user whose handle names it, and an armed  *)
(* user's handle names its own timer: no handle of an expired one-shot ever  *)
(* cancels the timer the slot holds next.                                    *)
THEOREM HandlesTheirOwn == Spec => []HandlesOwnSlots
<1>1. Inv => HandlesOwnSlots
  <2> SUFFICES ASSUME Base, InOrder
               PROVE  HandlesOwnSlots
    BY DEF Inv, HandlesOwnSlots
  <2>1. \A h \in Users : armed[h] => handle[h] # None /\ slot[handle[h]].hdlr = h
    BY Kinds DEF InOrder, UsersOK, UserOK
  <2>2. \A i \in Slots : Live(i) => LET h == slot[i].hdlr
                                    IN  h # None /\ armed[h] /\ handle[h] = i
    BY Kinds DEF InOrder, SlotsOK, SlotOK
  <2> QED BY <2>1, <2>2 DEF HandlesOwnSlots
<1> QED BY <1>1, Invariant, PTL

(* The handlers that are called: only by the update task that goes from its  *)
(* call to its handler, and of the user the slot holds.                      *)
LEMMA HandlerCalled ==
  ASSUME Base, [Next]_vars, NEW ty \in Types, pc[ty] = "enter", pc'[ty] = "handler"
  PROVE  slot[at[ty]].hdlr # None
<1>1. ASSUME NEW u \in Types, \/ Tick(u) \/ Pend(u) \/ VisitMine(u) \/ VisitCount(u) \/ VisitDue(u)
                              \/ Expire(u) \/ Reload(u) \/ SubscribeFill(u) \/ UnSubscribeClear(u)
      PROVE  FALSE
  BY <1>1, Kinds DEF Tick, Pend, VisitMine, VisitCount, VisitDue, Expire, Reload, Walks,
                     SubscribeFill, UnSubscribeClear
<1>2. ASSUME NEW u \in Types, NEW h \in Users, SubscribeScan(u, h) \/ UnSubscribeScan(u, h) \/ Forget(u, h)
      PROVE  FALSE
  BY <1>2, Kinds DEF SubscribeScan, UnSubscribeScan, Forget
<1>3. ASSUME NEW u \in Types, VisitOther(u) \/ CountDown(u) \/ Return(u) \/ TestHandler(u) \/ CallNull(u)
      PROVE  FALSE
  <2>1. CASE Advance(u) /\ pc[u] # "enter"
    BY <2>1, AdvanceType
  <2>2. CASE pc' = [pc EXCEPT ![u] = "enter"] \/ pc' = [t \in Types |-> "pend"]
    BY <2>2, Kinds
  <2> QED BY <1>3, <2>1, <2>2 DEF VisitOther, CountDown, Return, TestHandler, CallNull
<1>4. PICK u \in Types : CallHandler(u)
  BY Actions, <1>1, <1>2, <1>3 DEF vars
<1>5. u = ty
  BY <1>4, Kinds DEF CallHandler, Walks
<1> QED BY <1>4, <1>5 DEF CallHandler

(* Until the first race a handler runs only while its user is armed, and at  *)
(* its period or one tick before it.                                         *)
THEOREM OnTime == Spec => FiresOnTime
<1> DEFINE A == ~raced => \A ty \in Types :
                  (pc[ty] = "enter" /\ pc'[ty] = "handler") =>
                    LET h == slot[at[ty]].hdlr
                    IN  armed[h] /\ elapsed[h] \in {Value[h] - 1, Value[h]}
<1>1. Inv /\ [Next]_vars => [A]_vars
  <2> SUFFICES ASSUME Base, InOrder, [Next]_vars, NEW ty \in Types, pc[ty] = "enter", pc'[ty] = "handler"
               PROVE  /\ armed[slot[at[ty]].hdlr]
                      /\ elapsed[slot[at[ty]].hdlr] \in {Value[slot[at[ty]].hdlr] - 1, Value[slot[at[ty]].hdlr]}
    BY DEF Inv
  <2>1. slot[at[ty]].hdlr # None
    BY HandlerCalled
  <2> QED BY <2>1 DEF InOrder, TasksOK, CallOK
<1>2. Spec => [][A]_vars
  BY <1>1, Invariant, PTL DEF Spec
<1> QED BY <1>2 DEF FiresOnTime
================================================================================
