--------------------------- MODULE WorkQueue_proofs ---------------------------
(***************************************************************************)
(* No work is lost on its way to the worker task, whichever task preempts  *)
(* which, for queues of every length and any set of starting tasks of      *)
(* which each has works of its own.                                        *)
(***************************************************************************)
EXTENDS WorkQueue, FiniteSetTheorems, TLAPS

Held == {i \in Slots : Holds(i)}
Busy == {t \in Starters : starter[t].pc # "idle"}

Types ==
  /\ workQueue \in [Slots -> [stat : {"NO_EXIST", "BUSY_PENDING", "BUSY_RUNNING"},
                              workHdlr : Works \cup {None}]]
  /\ wqUsedNumber \in Nat /\ wqAllocaIdx \in Slots /\ sem \in Nat /\ at \in Slots
  /\ starter \in [Starters -> [pc : {"idle", "search", "place"}, work : Works \cup {None},
                               slot : Slots \cup {None}]]
  /\ \A t \in Busy : /\ starter[t].work \in Starts[t]
                     /\ starter[t].pc = "place" => starter[t].slot \in Slots
  /\ worker \in {"check", "visit", "run", "pend", "pendTimed"}
  /\ due \in [Works -> BOOLEAN]
  /\ preempted \in BOOLEAN

(* The number stays within its byte: each task under way passed the limit    *)
(* once, before it began.                                                    *)
NumberOK == wqUsedNumber + Cardinality(Busy) < WORKER_MAX_NBR + Cardinality(Starters)

(* A running work is in its slot. *)
RunningHeld == worker = "run" => Holds(at)

(* As long as no start has preempted another there is one at most, and the   *)
(* slot it has found is free.                                                *)
Alone ==
  ~preempted => /\ \A t, u \in Busy : t = u
                /\ \A t \in Busy : starter[t].pc = "place" => ~Holds(starter[t].slot)

(* A work is in one slot, and in none while it is being started. *)
Single ==
  /\ \A i, j \in Held : workQueue[i].workHdlr = workQueue[j].workHdlr => i = j
  /\ \A t \in Busy : Queued(starter[t].work) = {}

(* What waits in the queue was accepted and has not run since, what runs was *)
(* not accepted anew.                                                        *)
WaitingDue ==
  /\ \A i \in Held : ~(worker = "run" /\ i = at) => due[workQueue[i].workHdlr]
  /\ worker = "run" /\ ~preempted => ~due[workQueue[at].workHdlr]

Inv ==
  /\ Types /\ NumberOK /\ RunningHeld /\ Alone /\ Single /\ WaitingDue
  /\ UsedCoversQueue /\ NoLostWakeup /\ AcceptedIsQueued

(* The steps, one by one. *)
LEMMA Actions ==
  ASSUME [Next]_vars
  PROVE  \/ \E t \in Starters, w \in Works : StartupWork(t, w)
         \/ \E t \in Starters : Search(t)
         \/ \E t \in Starters : Place(t)
         \/ DoWorks \/ VisitEmpty \/ Run \/ RunEnds \/ Wake \/ Timeout \/ UNCHANGED vars
BY DEF Next, StartStep, WorkerStep

(* The counts of the two sets. *)
LEMMA Counts ==
  /\ IsFiniteSet(Slots) /\ IsFiniteSet(Held) /\ IsFiniteSet(Busy)
  /\ Cardinality(Held) \in Nat /\ Cardinality(Busy) \in Nat /\ Cardinality(Starters) \in Nat
  /\ Cardinality(Busy) <= Cardinality(Starters)
  /\ Cardinality(Held) = 0 <=> Held = {}
  /\ 0 \in Slots
<1>1. WORKER_MAX_NBR - 1 \in Int /\ 0 \in Int /\ 0 \in Slots
  BY QueueAssumption DEF Slots
<1>2. IsFiniteSet(Slots)
  BY <1>1, FS_Interval DEF Slots
<1>3. Held \in SUBSET Slots /\ Busy \in SUBSET Starters /\ IsFiniteSet(Starters)
  BY QueueAssumption DEF Held, Busy
<1>4. IsFiniteSet(Held) /\ IsFiniteSet(Busy) /\ Cardinality(Busy) <= Cardinality(Starters)
  BY <1>2, <1>3, FS_Subset
<1> QED BY <1>1, <1>2, <1>3, <1>4, FS_CardinalityType, FS_EmptySet

(* What of the invariant speaks of the queue alone. *)
LEMMA HeldIs == UsedCoversQueue <=> Cardinality(Held) <= wqUsedNumber /\ (preempted \/ Cardinality(Held) = wqUsedNumber)
BY DEF UsedCoversQueue, Held

(* The initial state. *)
LEMMA InitInv ==
  ASSUME Init
  PROVE  Inv
<1>1. Held = {} /\ Busy = {} /\ \A i \in Slots : ~Holds(i)
  BY DEF Init, Held, Busy, Holds, Idle
<1>2. Types
  BY <1>1, Counts, QueueAssumption DEF Init, Types, Idle
<1>3. NumberOK
  BY <1>1, Counts, FS_EmptySet, QueueAssumption DEF Init, NumberOK
<1>4. UsedCoversQueue
  BY <1>1, Counts, HeldIs DEF Init
<1>5. NoLostWakeup /\ AcceptedIsQueued /\ RunningHeld
  BY <1>1 DEF Init, NoLostWakeup, AcceptedIsQueued, RunningHeld
<1>6. Alone /\ Single /\ WaitingDue
  BY <1>1 DEF Init, Alone, Single, WaitingDue
<1> QED BY <1>2, <1>3, <1>4, <1>5, <1>6 DEF Inv

(* A start passes the limit and finds its work in no slot. *)
LEMMA StartupWorkStep ==
  ASSUME Inv, NEW t \in Starters, NEW w \in Works, StartupWork(t, w)
  PROVE  Inv'
<1>1. /\ Types /\ UNCHANGED <<workQueue, wqUsedNumber, wqAllocaIdx, sem, worker, at, due>>
      /\ w \in Starts[t] /\ wqUsedNumber < WORKER_MAX_NBR /\ t \notin Busy
      /\ starter' = [starter EXCEPT ![t] = [pc |-> "search", work |-> w, slot |-> None]]
      /\ preempted' = (preempted \/ \E u \in Starters : starter[u].pc # "idle")
  BY DEF Inv, StartupWork, queue, Busy
<1>2. /\ Busy' = Busy \cup {t} /\ starter'[t] = [pc |-> "search", work |-> w, slot |-> None]
      /\ \A u \in Busy : u # t /\ starter'[u] = starter[u]
  BY <1>1 DEF Types, Busy
<1>3. Held' = Held /\ \A v \in Works : Queued(v)' = Queued(v)
  BY <1>1 DEF Held, Holds, Queued
<1>4. preempted' => preempted \/ Busy # {}
  BY <1>1 DEF Busy
<1>5. ~preempted' => ~preempted /\ Busy = {}
  BY <1>1 DEF Busy
<1>6. Queued(w) = {}
  <2>1. CASE wqUsedNumber > 0
    BY <2>1 DEF StartupWork
  <2>2. CASE wqUsedNumber = 0
    <3>1. Held = {}
      BY <2>2, Counts, HeldIs DEF Inv
    <3> QED BY <3>1, QueueAssumption DEF Held, Holds, Queued
  <2> QED BY <1>1, <2>1, <2>2 DEF Types
<1>7. Types'
  <2>1. starter' \in [Starters -> [pc : {"idle", "search", "place"}, work : Works \cup {None},
                                   slot : Slots \cup {None}]]
    BY <1>1 DEF Types
  <2>2. \A u \in Busy' : /\ starter'[u].work \in Starts[u]
                         /\ starter'[u].pc = "place" => starter'[u].slot \in Slots
    BY <1>1, <1>2 DEF Types
  <2>3. preempted' \in BOOLEAN
    BY <1>1 DEF Types
  <2> QED BY <1>1, <2>1, <2>2, <2>3 DEF Types
<1>8. NumberOK'
  <2>1. IsFiniteSet(Busy') /\ Cardinality(Busy') <= Cardinality(Starters) /\ Cardinality(Busy') \in Nat
    <3>1. Busy' \in SUBSET Starters
      BY DEF Busy
    <3> QED BY <3>1, QueueAssumption, FS_Subset, FS_CardinalityType
  <2> QED BY <1>1, <2>1, Counts, QueueAssumption DEF NumberOK, Types
<1>9. RunningHeld'
  BY <1>1 DEF Inv, RunningHeld, Holds
<1>10. Alone'
  <2>1. ~preempted' => Busy' = {t}
    BY <1>2, <1>5
  <2> QED BY <1>2, <2>1 DEF Alone
<1>11. Single'
  <2>1. ASSUME NEW u \in Busy'
        PROVE  Queued(starter[u].work)' = {}
    <3>1. Queued(starter[u].work)' = {i \in Slots : workQueue[i].workHdlr = starter'[u].work}
      BY <1>1 DEF Queued
    <3>2. CASE u = t
      BY <1>2, <1>6, <3>1, <3>2 DEF Queued
    <3>3. CASE u \in Busy
      BY <1>2, <3>1, <3>3 DEF Inv, Single, Queued
    <3> QED BY <1>2, <3>2, <3>3
  <2>2. \A i, j \in Held' : workQueue'[i].workHdlr = workQueue'[j].workHdlr => i = j
    BY <1>1, <1>3 DEF Inv, Single
  <2> QED BY <2>1, <2>2 DEF Single
<1>12. WaitingDue'
  <2>1. ~preempted' => ~preempted
    BY <1>5
  <2> QED BY <1>1, <1>3, <2>1 DEF Inv, WaitingDue
<1>13. UsedCoversQueue'
  <2>1. (Cardinality(Held) <= wqUsedNumber /\ (preempted \/ Cardinality(Held) = wqUsedNumber))'
    BY <1>1, <1>3, <1>5, HeldIs DEF Inv
  <2> QED BY <2>1 DEF UsedCoversQueue, Held
<1>14. NoLostWakeup'
  BY <1>1 DEF Inv, NoLostWakeup, Holds
<1>15. AcceptedIsQueued'
  BY <1>1, <1>3, <1>5 DEF Inv, AcceptedIsQueued
<1> QED BY <1>7, <1>8, <1>9, <1>10, <1>11, <1>12, <1>13, <1>14, <1>15 DEF Inv

(* The search changes nothing but the slot it has found, a free one. *)
LEMMA SearchStep ==
  ASSUME Inv, NEW t \in Starters, Search(t)
  PROVE  Inv'
<1>1. PICK i \in wqAllocaIdx .. WORKER_MAX_NBR - 1 :
        /\ ~Holds(i)
        /\ starter' = [starter EXCEPT ![t].pc = "place", ![t].slot = i]
  BY DEF Search
<1>2. Types /\ UNCHANGED <<queue, sem, worker, at, due, preempted>> /\ starter[t].pc = "search" /\ i \in Slots
  BY <1>1, QueueAssumption DEF Inv, Search, Types, Slots
<1>3. /\ t \in Busy /\ Busy' = Busy
      /\ starter'[t] = [pc |-> "place", work |-> starter[t].work, slot |-> i]
      /\ \A u \in Busy : u # t => starter'[u] = starter[u]
  BY <1>1, <1>2 DEF Types, Busy
<1>4. Held' = Held /\ UNCHANGED queue /\ \A k \in Slots : Holds(k)' = Holds(k)
  BY <1>2 DEF Held, Holds, queue
<1>5. Types'
  <2>1. starter[t] \in [pc : {"idle", "search", "place"}, work : Works \cup {None}, slot : Slots \cup {None}]
    BY <1>2 DEF Types
  <2>2. starter'[t] \in [pc : {"idle", "search", "place"}, work : Works \cup {None}, slot : Slots \cup {None}]
    BY <1>2, <1>3, <2>1
  <2>3. starter' \in [Starters -> [pc : {"idle", "search", "place"}, work : Works \cup {None},
                                   slot : Slots \cup {None}]]
    BY <1>1, <1>2, <2>2 DEF Types
  <2>4. \A u \in Busy' : /\ starter'[u].work \in Starts[u]
                         /\ starter'[u].pc = "place" => starter'[u].slot \in Slots
    BY <1>2, <1>3 DEF Types
  <2> QED BY <1>2, <2>3, <2>4 DEF Types, queue
<1>6. NumberOK' /\ RunningHeld' /\ WaitingDue'
  BY <1>2, <1>3, <1>4 DEF Inv, NumberOK, RunningHeld, WaitingDue, Holds, queue
<1>7. Alone'
  <2>1. ~preempted => \A u \in Busy : u = t
    BY <1>3 DEF Inv, Alone
  <2>2. ~Holds(i)' /\ starter'[t].slot = i
    BY <1>1, <1>2, <1>3, <1>4
  <2>3. preempted' = preempted
    BY <1>2
  <2> QED BY <1>3, <2>1, <2>2, <2>3 DEF Alone
<1>8. Single'
  <2>1. ASSUME NEW u \in Busy'
        PROVE  Queued(starter[u].work)' = {}
    <3>1. starter'[u].work = starter[u].work
      BY <1>3
    <3> QED BY <1>3, <1>4, <3>1 DEF Inv, Single, Queued, queue
  <2> QED BY <1>4, <2>1 DEF Inv, Single, queue
<1>9. UsedCoversQueue' /\ NoLostWakeup' /\ AcceptedIsQueued'
  BY <1>2, <1>4 DEF Inv, UsedCoversQueue, NoLostWakeup, AcceptedIsQueued, Holds, Queued, queue
<1> QED BY <1>5, <1>6, <1>7, <1>8, <1>9 DEF Inv

(* A work goes to a slot that is free or, after a preemption, takes another's. *)
LEMMA PlaceStep ==
  ASSUME Inv, NEW t \in Starters, Place(t)
  PROVE  Inv'
<1> DEFINE w == starter[t].work
           s == starter[t].slot
<1>1. /\ Types /\ UNCHANGED <<worker, at, preempted>> /\ starter[t].pc = "place"
      /\ workQueue' = [workQueue EXCEPT ![s] = [stat |-> "BUSY_PENDING", workHdlr |-> w]]
      /\ wqUsedNumber' = U8(wqUsedNumber + 1) /\ wqAllocaIdx' = s
      /\ due' = [due EXCEPT ![w] = TRUE]
      /\ sem' = IF sem < SEM_MAX THEN sem + 1 ELSE sem
      /\ starter' = [starter EXCEPT ![t] = Idle]
  BY DEF Inv, Place
<1>2. t \in Busy /\ s \in Slots /\ w \in Starts[t] /\ w \in Works /\ w # None
  <2>1. t \in Busy
    BY <1>1 DEF Busy
  <2>2. s \in Slots /\ w \in Starts[t]
    BY <1>1, <2>1 DEF Types
  <2>3. Starts[t] \in SUBSET Works /\ None \notin Works
    BY QueueAssumption
  <2> QED BY <2>1, <2>2, <2>3
<1>3. /\ \A i \in Slots : workQueue'[i] = IF i = s THEN [stat |-> "BUSY_PENDING", workHdlr |-> w] ELSE workQueue[i]
      /\ \A v \in Works : due'[v] = IF v = w THEN TRUE ELSE due[v]
      /\ Busy' = Busy \ {t} /\ \A u \in Busy' : starter'[u] = starter[u]
  BY <1>1, <1>2 DEF Types, Busy, Idle
<1> HIDE DEF w, s
<1>4. Held' = Held \cup {s} /\ \A i \in Slots : Holds(i)' <=> Holds(i) \/ i = s
  BY <1>2, <1>3 DEF Held, Holds
<1>5. Cardinality(Busy') = Cardinality(Busy) - 1
  BY <1>2, <1>3, Counts, FS_RemoveElement
<1>6. wqUsedNumber' = wqUsedNumber + 1 /\ wqUsedNumber \in Nat
  <2>1. wqUsedNumber + 1 \in 0 .. 255
    <3>1. Cardinality(Busy) # 0
      BY <1>2, Counts, FS_EmptySet
    <3> QED BY <1>1, <3>1, Counts, QueueAssumption DEF Inv, NumberOK, Types
  <2>2. wqUsedNumber + 1 = U8(wqUsedNumber + 1)
    BY <2>1 DEF U8
  <2> QED BY <1>1, <2>2 DEF Types
<1>7. Types'
  <2>1. workQueue' \in [Slots -> [stat : {"NO_EXIST", "BUSY_PENDING", "BUSY_RUNNING"},
                                  workHdlr : Works \cup {None}]]
    BY <1>1, <1>2 DEF Types
  <2>2. starter' \in [Starters -> [pc : {"idle", "search", "place"}, work : Works \cup {None},
                                   slot : Slots \cup {None}]]
    BY <1>1 DEF Types, Idle
  <2>3. \A u \in Busy' : /\ starter'[u].work \in Starts[u]
                         /\ starter'[u].pc = "place" => starter'[u].slot \in Slots
    BY <1>1, <1>3 DEF Types
  <2>4. due' \in [Works -> BOOLEAN]
    BY <1>1 DEF Types
  <2>5. sem' \in Nat /\ wqUsedNumber' \in Nat
    BY <1>1, <1>6, QueueAssumption DEF Types
  <2> QED BY <1>1, <1>2, <2>1, <2>2, <2>3, <2>4, <2>5 DEF Types
<1>8. NumberOK'
  BY <1>5, <1>6, Counts, QueueAssumption DEF Inv, NumberOK
<1>9. RunningHeld'
  BY <1>1, <1>4 DEF Inv, RunningHeld, Types
<1>10. Alone'
  BY <1>1, <1>2, <1>3 DEF Inv, Alone
<1>11. ~preempted => ~Holds(s)
  BY <1>1, <1>2 DEF Inv, Alone, s
<1>12. Queued(w) = {}
  BY <1>2 DEF Inv, Single, w
<1>13. Single'
  <2>1. ASSUME NEW u \in Busy'
        PROVE  Queued(starter[u].work)' = {}
    <3>1. u \in Busy /\ u # t /\ starter'[u] = starter[u] /\ u \in Starters
      BY <1>3 DEF Busy
    <3>2. starter[u].work # w
      BY <1>1, <1>2, <3>1, QueueAssumption DEF Types
    <3>3. Queued(starter[u].work) = {}
      BY <3>1 DEF Inv, Single
    <3> QED BY <1>3, <3>1, <3>2, <3>3 DEF Queued
  <2>2. ASSUME NEW i \in Held', NEW j \in Held', workQueue'[i].workHdlr = workQueue'[j].workHdlr
        PROVE  i = j
    <3>1. /\ i \in Slots /\ j \in Slots
          /\ i # s => i \in Held /\ workQueue[i].workHdlr # w
          /\ j # s => j \in Held /\ workQueue[j].workHdlr # w
      BY <1>4, <1>12, <1>2 DEF Held, Queued
    <3> QED BY <1>3, <2>2, <3>1 DEF Inv, Single
  <2> QED BY <2>1, <2>2 DEF Single
<1>14. WaitingDue'
  <2>1. ASSUME NEW i \in Held', ~(worker = "run" /\ i = at)
        PROVE  due'[workQueue'[i].workHdlr]
    <3>1. i \in Slots /\ (i # s => i \in Held /\ workQueue[i].workHdlr \in Works)
      BY <1>1, <1>2, <1>4 DEF Held, Holds, Types
    <3>2. CASE i = s
      <4>1. workQueue'[i].workHdlr = w
        BY <1>3, <3>1, <3>2
      <4>2. due'[w]
        BY <1>2, <1>3, Zenon
      <4> QED BY <4>1, <4>2
    <3>3. CASE i # s
      <4>1. workQueue'[i] = workQueue[i] /\ due[workQueue[i].workHdlr]
        BY <1>3, <2>1, <3>1, <3>3 DEF Inv, WaitingDue
      <4> QED BY <1>3, <3>1, <3>3, <4>1
    <3> QED BY <3>2, <3>3
  <2>2. ASSUME worker = "run", ~preempted
        PROVE  ~due'[workQueue'[at].workHdlr]
    <3>1. Holds(at) /\ at \in Slots /\ at # s
      BY <1>1, <1>11, <2>2 DEF Inv, RunningHeld, Types
    <3>2. workQueue[at].workHdlr \in Works /\ workQueue[at].workHdlr # w
      BY <1>1, <1>12, <3>1 DEF Types, Holds, Queued
    <3> QED BY <1>3, <2>2, <3>1, <3>2 DEF Inv, WaitingDue
  <2> QED BY <1>1, <2>1, <2>2 DEF WaitingDue
<1>15. UsedCoversQueue'
  <2>1. /\ Cardinality(Held') <= Cardinality(Held) + 1
        /\ ~preempted => Cardinality(Held') = Cardinality(Held) + 1
    <3>1. Cardinality(Held \cup {s}) = IF s \in Held THEN Cardinality(Held) ELSE Cardinality(Held) + 1
      BY Counts, FS_AddElement
    <3>2. ~preempted => s \notin Held
      BY <1>11 DEF Held
    <3>3. Cardinality(Held') = Cardinality(Held \cup {s})
      BY <1>4
    <3> QED BY <3>1, <3>2, <3>3, Counts
  <2>2. Cardinality(Held') \in Nat
    <3>1. IsFiniteSet(Held \cup {s})
      BY Counts, FS_AddElement
    <3> QED BY <1>4, <3>1, FS_CardinalityType
  <2>3. Cardinality(Held') <= wqUsedNumber' /\ (preempted' \/ Cardinality(Held') = wqUsedNumber')
    BY <1>1, <1>6, <2>1, <2>2, Counts, HeldIs DEF Inv
  <2> QED BY <2>3 DEF UsedCoversQueue, Held
<1>16. NoLostWakeup'
  <2>1. sem' # 0
    BY <1>1, QueueAssumption DEF Types
  <2> QED BY <2>1 DEF NoLostWakeup
<1>17. AcceptedIsQueued'
  <2> SUFFICES ASSUME NEW v \in Works, due'[v], ~preempted'
               PROVE  Queued(v)' # {}
    BY DEF AcceptedIsQueued
  <2>1. CASE v = w
    BY <1>2, <1>3, <2>1 DEF Queued
  <2>2. CASE v # w
    <3>1. PICK i \in Slots : workQueue[i].workHdlr = v
      BY <1>1, <1>3, <2>2 DEF Inv, AcceptedIsQueued, Queued
    <3>2. i # s
      BY <1>1, <1>11, <3>1, QueueAssumption DEF Holds
    <3> QED BY <1>3, <3>1, <3>2 DEF Queued
  <2> QED BY <2>1, <2>2
<1> QED BY <1>7, <1>8, <1>9, <1>10, <1>13, <1>14, <1>15, <1>16, <1>17 DEF Inv

(* The worker task runs alone: its steps disturb the queue only where a      *)
(* function starts and where it has returned.                                *)
LEMMA WorkerSteps ==
  ASSUME Inv, DoWorks \/ VisitEmpty \/ Wake \/ Timeout
  PROVE  Inv'
<1>1. Types /\ UNCHANGED <<queue, starter, due, preempted>> /\ worker # "run" /\ worker' # "run"
  BY DEF Inv, DoWorks, VisitEmpty, Wake, Timeout, NextSlot
<1>2. Types'
  <2>1. at' \in Slots
    BY <1>1, Counts, QueueAssumption DEF Types, DoWorks, VisitEmpty, Wake, Timeout, NextSlot, Slots
  <2>2. sem' \in Nat /\ worker' \in {"check", "visit", "run", "pend", "pendTimed"}
    BY <1>1 DEF Types, DoWorks, VisitEmpty, Wake, Timeout, NextSlot
  <2> QED BY <1>1, <2>1, <2>2 DEF Types, queue, Busy
<1>3. Held' = Held /\ Busy' = Busy /\ UNCHANGED <<workQueue, wqUsedNumber>>
  BY <1>1 DEF Held, Holds, Busy, queue
<1>4. NumberOK' /\ RunningHeld' /\ WaitingDue'
  BY <1>1, <1>3 DEF Inv, NumberOK, RunningHeld, WaitingDue
<1>5. Alone' /\ Single'
  BY <1>1, <1>3 DEF Inv, Alone, Single, Holds, Queued
<1>6. UsedCoversQueue' /\ AcceptedIsQueued'
  BY <1>1, <1>3 DEF Inv, UsedCoversQueue, AcceptedIsQueued, Holds, Queued
<1>7. NoLostWakeup'
  <2> SUFFICES ASSUME worker' = "pend"
               PROVE  Held = {}
    BY <1>1 DEF NoLostWakeup, Held, Holds, queue
  <2>1. DoWorks /\ ~(wqUsedNumber > 0)
    BY <1>1 DEF DoWorks, VisitEmpty, Wake, Timeout, NextSlot
  <2> QED BY <1>1, <2>1, Counts, HeldIs DEF Inv, Types
<1> QED BY <1>2, <1>4, <1>5, <1>6, <1>7 DEF Inv

LEMMA RunStep ==
  ASSUME Inv, Run
  PROVE  Inv'
<1> DEFINE w == workQueue[at].workHdlr
<1>1. /\ Types /\ UNCHANGED <<wqUsedNumber, wqAllocaIdx, sem, starter, at, preempted>>
      /\ Holds(at) /\ worker = "visit" /\ worker' = "run" /\ WorkerCanRun
      /\ workQueue' = [workQueue EXCEPT ![at].stat = "BUSY_RUNNING"]
      /\ due' = [due EXCEPT ![w] = FALSE]
  BY DEF Inv, Run
<1>2. at \in Slots /\ w \in Works
  BY <1>1 DEF Types, Holds
<1>3. Busy = {} /\ Busy' = {}
  BY <1>1 DEF Busy, WorkerCanRun
<1>4. \A i \in Slots : workQueue'[i].workHdlr = workQueue[i].workHdlr
  BY <1>1, <1>2 DEF Types
<1>5. \A v \in Works : due'[v] = IF v = w THEN FALSE ELSE due[v]
  BY <1>1, <1>2 DEF Types
<1>6. Held' = Held /\ \A i \in Slots : Holds(i)' <=> Holds(i)
  BY <1>4 DEF Held, Holds
<1>7. Types'
  <2>1. workQueue' \in [Slots -> [stat : {"NO_EXIST", "BUSY_PENDING", "BUSY_RUNNING"},
                                  workHdlr : Works \cup {None}]]
    BY <1>1, <1>2 DEF Types
  <2>2. due' \in [Works -> BOOLEAN]
    BY <1>1 DEF Types
  <2> QED BY <1>1, <1>3, <2>1, <2>2 DEF Types
<1>8. NumberOK' /\ Alone' /\ RunningHeld'
  BY <1>1, <1>2, <1>3, <1>6 DEF Inv, NumberOK, Alone, RunningHeld
<1>9. Single'
  <2>1. \A i, j \in Held' : workQueue'[i].workHdlr = workQueue'[j].workHdlr => i = j
    BY <1>4, <1>6 DEF Inv, Single, Held
  <2> QED BY <1>3, <2>1 DEF Single
<1>10. WaitingDue'
  <2>1. ASSUME NEW i \in Held', i # at
        PROVE  due'[workQueue'[i].workHdlr]
    <3>1. i \in Held /\ i \in Slots /\ at \in Held
      BY <1>1, <1>2, <1>6 DEF Held
    <3>2. workQueue[i].workHdlr # w /\ workQueue[i].workHdlr \in Works
      BY <1>1, <2>1, <3>1 DEF Inv, Single, Held, Holds, Types
    <3> QED BY <1>1, <1>4, <1>5, <3>1, <3>2 DEF Inv, WaitingDue
  <2>2. ~due'[workQueue'[at'].workHdlr]
    BY <1>1, <1>2, <1>4, <1>5
  <2> QED BY <1>1, <2>1, <2>2 DEF WaitingDue
<1>11. UsedCoversQueue'
  <2>1. Cardinality(Held') <= wqUsedNumber' /\ (preempted' \/ Cardinality(Held') = wqUsedNumber')
    BY <1>1, <1>6, HeldIs DEF Inv
  <2> QED BY <2>1 DEF UsedCoversQueue, Held
<1>12. NoLostWakeup'
  BY <1>1 DEF NoLostWakeup
<1>13. AcceptedIsQueued'
  BY <1>1, <1>4, <1>5 DEF Inv, AcceptedIsQueued, Queued
<1> QED BY <1>7, <1>8, <1>9, <1>10, <1>11, <1>12, <1>13 DEF Inv

LEMMA RunEndsStep ==
  ASSUME Inv, RunEnds
  PROVE  Inv'
<1>1. /\ Types /\ UNCHANGED <<sem, starter, due, preempted>>
      /\ Holds(at) /\ worker = "run" /\ worker' \in {"visit", "pendTimed"} /\ WorkerCanRun
      /\ workQueue' = [workQueue EXCEPT ![at] = [stat |-> "NO_EXIST", workHdlr |-> None]]
      /\ wqUsedNumber' = IF wqUsedNumber > 0 THEN wqUsedNumber - 1 ELSE 0
      /\ wqAllocaIdx' = IF wqUsedNumber' = 0 THEN 0 ELSE wqAllocaIdx
  BY DEF Inv, RunEnds, NextSlot, RunningHeld
<1>2. at \in Slots /\ at \in Held
  BY <1>1 DEF Types, Held
<1>3. Busy = {} /\ Busy' = {}
  BY <1>1 DEF Busy, WorkerCanRun
<1>4. \A i \in Slots : workQueue'[i] = IF i = at THEN [stat |-> "NO_EXIST", workHdlr |-> None] ELSE workQueue[i]
  BY <1>1, <1>2 DEF Types
<1>5. Held' = Held \ {at} /\ \A i \in Held' : i \in Slots /\ i # at /\ i \in Held
  BY <1>4 DEF Held, Holds
<1>6. Cardinality(Held') = Cardinality(Held) - 1
  BY <1>2, <1>5, Counts, FS_RemoveElement
<1>7. wqUsedNumber' = wqUsedNumber - 1 /\ wqUsedNumber' \in Nat
  <2>1. Cardinality(Held) # 0
    BY <1>2, Counts
  <2> QED BY <1>1, <2>1, Counts, HeldIs DEF Inv, Types
<1>8. Types'
  <2>1. at' \in Slots
    BY <1>1, <1>2, Counts, QueueAssumption DEF RunEnds, NextSlot, Slots
  <2>2. workQueue' \in [Slots -> [stat : {"NO_EXIST", "BUSY_PENDING", "BUSY_RUNNING"},
                                  workHdlr : Works \cup {None}]]
    BY <1>1, <1>2 DEF Types
  <2>3. wqAllocaIdx' \in Slots
    BY <1>1, Counts DEF Types
  <2> QED BY <1>1, <1>3, <1>7, <2>1, <2>2, <2>3 DEF Types
<1>9. NumberOK'
  BY <1>1, <1>3, <1>7, Counts, QueueAssumption DEF Inv, NumberOK, Types
<1>10. RunningHeld' /\ Alone'
  BY <1>1, <1>3 DEF RunningHeld, Alone
<1>11. Single'
  <2>1. \A i, j \in Held' : workQueue'[i].workHdlr = workQueue'[j].workHdlr => i = j
    BY <1>4, <1>5 DEF Inv, Single
  <2> QED BY <1>3, <2>1 DEF Single
<1>12. WaitingDue'
  BY <1>1, <1>4, <1>5 DEF Inv, WaitingDue
<1>13. UsedCoversQueue'
  <2>1. Cardinality(Held') <= wqUsedNumber' /\ (preempted' \/ Cardinality(Held') = wqUsedNumber')
    BY <1>1, <1>6, <1>7, Counts, HeldIs DEF Inv, Types
  <2> QED BY <2>1 DEF UsedCoversQueue, Held
<1>14. NoLostWakeup'
  BY <1>1 DEF NoLostWakeup
<1>15. AcceptedIsQueued'
  <2> SUFFICES ASSUME NEW v \in Works, due[v], ~preempted
               PROVE  \E i \in Slots : workQueue'[i].workHdlr = v
    BY <1>1 DEF AcceptedIsQueued, Queued
  <2>1. PICK i \in Slots : workQueue[i].workHdlr = v
    BY DEF Inv, AcceptedIsQueued, Queued
  <2>2. i # at
    BY <1>1, <2>1 DEF Inv, WaitingDue
  <2> QED BY <1>4, <2>1, <2>2
<1> QED BY <1>8, <1>9, <1>10, <1>11, <1>12, <1>13, <1>14, <1>15 DEF Inv

LEMMA Stutter ==
  ASSUME Inv, UNCHANGED vars
  PROVE  Inv'
BY DEF Inv, vars, queue, Types, NumberOK, RunningHeld, Alone, Single, WaitingDue, UsedCoversQueue,
   NoLostWakeup, AcceptedIsQueued, Held, Busy, Holds, Queued
--------------------------------------------------------------------------------
(* The inductive invariant: what the queue holds is counted, was accepted    *)
(* and is there once, at every preemption point.                             *)
THEOREM Invariant == Spec => []Inv
<1>1. Init => Inv
  BY InitInv
<1>2. Inv /\ [Next]_vars => Inv'
  BY Actions, StartupWorkStep, SearchStep, PlaceStep, WorkerSteps, RunStep, RunEndsStep, Stutter
<1> QED BY <1>1, <1>2, PTL DEF Spec

(* The number of works never falls short of the queue, and never leaves its  *)
(* byte: the worker task passes over no queue that holds a work.             *)
THEOREM NumberCoversQueue == Spec => []UsedCoversQueue
BY Invariant, PTL DEF Inv

(* The worker task does not sleep without a limit over a waiting work. *)
THEOREM NoWakeupLost == Spec => []NoLostWakeup
BY Invariant, PTL DEF Inv

(* A work that was accepted stays in the queue until it runs, unless one     *)
(* start preempted another.                                                  *)
THEOREM NothingLost == Spec => []AcceptedIsQueued
BY Invariant, PTL DEF Inv

(* The worker task runs a work only when it was accepted since it last ran,  *)
(* even after a preemption.                                                  *)
THEOREM RunsOnce == Spec => RunsOnlyWhatIsDue
<1>1. Inv /\ [Next]_vars => (worker = "visit" /\ worker' = "run" => due[workQueue[at].workHdlr])
  <2> SUFFICES ASSUME Inv, [Next]_vars, worker = "visit", worker' = "run"
               PROVE  due[workQueue[at].workHdlr]
    OBVIOUS
  <2>1. Run
    BY Actions DEF StartupWork, Search, Place, DoWorks, VisitEmpty, RunEnds, Wake, Timeout, NextSlot, vars
  <2>2. at \in Held
    BY <2>1 DEF Inv, Types, Run, Held
  <2> QED BY <2>2 DEF Inv, WaitingDue
<1> QED BY <1>1, Invariant, PTL DEF RunsOnlyWhatIsDue, Spec
================================================================================
