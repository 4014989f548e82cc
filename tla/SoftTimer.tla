----------------------------- MODULE SoftTimer ------------------------------
(***************************************************************************)
(* The software timers of tiza_timer_port.c and the tasks of os_timer.c    *)
(* that run them: a table of TMR_ID_COUNT slots that every task of the     *)
(* program subscribes to, and one task per timer type that walks the table *)
(* at each tick of its type and calls the handlers that are due.           *)
(*                                                                         *)
(* The kernel is preemptive: a task runs only while every task of higher   *)
(* priority is blocked, and a tick may wake one between any two steps.     *)
(* What the code does inside OS_ENTER_CRITICAL is one step; what it reads  *)
(* before entering the critical section, and every test and write of an    *)
(* update task in its walk, is a step of its own.                          *)
(*                                                                         *)
(* The users are the handlers.  User h keeps the handle TMR_Subscribe gave *)
(* it, and subscribes and cancels inside a handler that the update task    *)
(* Owner[h] runs.  The users of Boot subscribed while the start task set   *)
(* the system up (bsp.c, App_tmrStart), before any other task ran.         *)
(***************************************************************************)
EXTENDS Integers, FiniteSets, Sequences

CONSTANTS TMR_ID_COUNT,  \* slots of the table
          Types,         \* the timer types in use, naming also their update tasks
          Users,         \* timer users, named by their handlers
          Boot,          \* the users that subscribed at start-up, in order
          Cancels,       \* the users that ever cancel their timer
          Owner,         \* Owner[h]: the task that subscribes and cancels h
          TypeOf,        \* TypeOf[h]: the type h subscribes
          Cyclic,        \* Cyclic[h]: h is a periodic timer
          Value,         \* Value[h]: its period, in ticks of its type
          Priority,      \* Priority[t]: uC/OS-II priority, the lower number first
          MaxPending,    \* bound: ticks a semaphore may hold
          CallsAfterRace,\* bound: do the users subscribe and cancel after a race?
          None

Slots == 0 .. TMR_ID_COUNT - 1
U8(n) == n % 256

ASSUME TimerAssumption ==
  /\ TMR_ID_COUNT \in 1 .. 255
  /\ Types \subseteq {"1MS", "10MS", "100MS"}
  /\ Owner \in [Users -> Types] /\ TypeOf \in [Users -> Types]
  /\ Cyclic \in [Users -> BOOLEAN] /\ Value \in [Users -> Nat \ {0}]
  /\ Priority \in [Types -> Nat] /\ CallsAfterRace \in BOOLEAN
  /\ Boot \in Seq(Users) /\ Len(Boot) <= TMR_ID_COUNT
  /\ \A j, k \in DOMAIN Boot : Boot[j] = Boot[k] => j = k
  \* No one-shot of 1 ms: its end would take one from the counter of 10 ms.
  /\ \A h \in Users : TypeOf[h] = "1MS" => Cyclic[h]
  /\ None \notin Users /\ None \notin Types /\ None \notin Slots

VARIABLES
  slot,     \* Timer.tmr_alloc, tmr_cyclic and tmr_count, by slot
  tmr_nbr,  \* Timer.tmr_nbr
  typeNbr,  \* Tmr1msCounter, Tmr10msCounter, Tmr100msCounter
  sem,      \* the count of the semaphore each update task waits on
  pc,       \* where each task is
  at,       \* at[ty]: the slot the update task is visiting
  call,     \* call[t]: the user and the slot of the subscription or
            \* cancellation t is in
  handle,   \* handle[h]: the slot in h's handle variable, or None
  armed,    \* armed[h]: h subscribed and neither expired nor was cancelled
  elapsed,  \* elapsed[h]: ticks of its type since h subscribed or last fired
  raced     \* not in the code: a task has changed a slot that another one had
            \* searched out, or that a walk was in the middle of

table == <<slot, tmr_nbr, typeNbr>>
users == <<handle, armed, elapsed, raced>>
vars  == <<table, sem, pc, at, call, users>>

Live(i)   == slot[i].id > 0
FreeSlots == {i \in Slots : ~Live(i)}

Blocked(t) == pc[t] = "pend" /\ sem[t] = 0
CanRun(t)  == \A u \in Types : Priority[u] < Priority[t] => Blocked(u)

\* What TMR_Subscribe writes to a slot.
Timer(id, h) == [id |-> id, type |-> TypeOf[h], cyclic |-> Cyclic[h],
                 value |-> Value[h], count |-> Value[h], hdlr |-> h]
Booted(h)    == \E k \in DOMAIN Boot : Boot[k] = h
---------------------------------------------------------------------------
BootSlot ==
  [i \in Slots |-> IF i < Len(Boot) THEN Timer(i + 1, Boot[i + 1])
                   ELSE [id |-> 0, type |-> None, cyclic |-> FALSE,
                         value |-> 0, count |-> 0, hdlr |-> None]]
BootNbr    == [ty \in Types |->
                 Cardinality({i \in Slots : i < Len(Boot) /\ TypeOf[Boot[i + 1]] = ty})]
BootHandle == [h \in Users |->
                 IF Booted(h) THEN (CHOOSE k \in DOMAIN Boot : Boot[k] = h) - 1 ELSE None]

Init ==
  /\ slot = BootSlot /\ tmr_nbr = Len(Boot) /\ typeNbr = BootNbr
  /\ sem = [ty \in Types |-> 1]
  /\ pc = [t \in Types |-> "pend"]
  /\ at = [t \in Types |-> 0]
  /\ call = [t \in Types |-> None]
  /\ handle = BootHandle
  /\ armed = [h \in Users |-> Booted(h)]
  /\ elapsed = [h \in Users |-> 0]
  /\ raced = FALSE

\* TMR_Subscribe up to its critical section: that there is room, and which
\* slot is free, is read without protection.
SubscribeScan(t, h) ==
  /\ pc[t] = "handler" /\ CanRun(t)
  /\ raced => CallsAfterRace
  /\ Owner[h] = t /\ handle[h] = None
  /\ tmr_nbr < TMR_ID_COUNT
  /\ \E i \in FreeSlots : /\ \A j \in FreeSlots : i <= j
                          /\ call' = [call EXCEPT ![t] = [user |-> h, slot |-> i]]
  /\ pc' = [pc EXCEPT ![t] = "fill"]
  /\ UNCHANGED <<table, sem, at, users>>

\* Another task has the slot i, or is at one of these steps of its walk there.
WalkedAt(i, steps) == \E ty \in Types : pc[ty] \in steps /\ at[ty] = i
Taken(i) ==
  Live(i) \/ WalkedAt(i, {"count", "down", "due", "expire", "reload", "call", "enter"})

\* Its critical section, and the caller storing the handle.
SubscribeFill(t) ==
  /\ pc[t] = "fill" /\ CanRun(t)
  /\ LET h == call[t].user
         i == call[t].slot
     IN  /\ slot' = [slot EXCEPT ![i] = Timer(U8(tmr_nbr + 1), h)]
         /\ typeNbr' = [typeNbr EXCEPT ![TypeOf[h]] = U8(@ + 1)]
         /\ handle' = [handle EXCEPT ![h] = i]
         /\ armed' = [armed EXCEPT ![h] = TRUE]
         /\ elapsed' = [elapsed EXCEPT ![h] = 0]
         /\ raced' = (raced \/ Taken(i) \/ tmr_nbr = TMR_ID_COUNT)
  /\ tmr_nbr' = U8(tmr_nbr + 1)
  /\ call' = [call EXCEPT ![t] = None]
  /\ pc' = [pc EXCEPT ![t] = "handler"]
  /\ UNCHANGED <<sem, at>>

\* Mutants: TMR_UnSubscribe without its test of the id, of the handler.
FoundExpired(h) ==
  LET s == slot[handle[h]]
  IN  s.hdlr = h /\ s.type = TypeOf[h] /\ tmr_nbr > 0 /\ typeNbr[TypeOf[h]] > 0
FoundAnybody(h) ==
  LET s == slot[handle[h]]
  IN  s.type = TypeOf[h] /\ s.id > 0 /\ tmr_nbr > 0 /\ typeNbr[TypeOf[h]] > 0

\* Does TMR_UnSubscribe find the timer of handle[h]?
Found(h) ==
  LET s == slot[handle[h]]
  IN  s.hdlr = h /\ s.type = TypeOf[h] /\ s.id > 0 /\ tmr_nbr > 0 /\ typeNbr[TypeOf[h]] > 0

\* TMR_UnSubscribe up to its critical section.  When nothing is found the
\* result is FALSE and the caller keeps its handle.
UnSubscribeScan(t, h) ==
  /\ pc[t] = "handler" /\ CanRun(t)
  /\ raced => CallsAfterRace
  /\ Owner[h] = t /\ h \in Cancels /\ handle[h] # None
  /\ Found(h)
  /\ call' = [call EXCEPT ![t] = [user |-> h, slot |-> handle[h]]]
  /\ pc' = [pc EXCEPT ![t] = "clear"]
  /\ UNCHANGED <<table, sem, at, users>>

\* A walk has found slot i in use and reads the rest of it, frees its one-shot,
\* or is about to call its handler.  Cancelled there, the slot has count 0 and is
\* not cyclic, so that the walk frees it again, or it has no handler to call.
Examined(i) == WalkedAt(i, {"count", "due", "expire", "enter"})

\* Its critical section, and the caller clearing its handle.
UnSubscribeClear(t) ==
  /\ pc[t] = "clear" /\ CanRun(t)
  /\ LET h == call[t].user
     IN  /\ slot' = [slot EXCEPT ![call[t].slot] =
                       [id |-> 0, type |-> TypeOf[h], cyclic |-> FALSE,
                        value |-> 0, count |-> 0, hdlr |-> None]]
         /\ typeNbr' = [typeNbr EXCEPT ![TypeOf[h]] = U8(@ - 1)]
         /\ handle' = [handle EXCEPT ![h] = None]
         /\ armed' = [armed EXCEPT ![h] = FALSE]
         /\ raced' = (raced \/ ~Found(h) \/ Examined(call[t].slot))
  /\ tmr_nbr' = U8(tmr_nbr - 1)
  /\ call' = [call EXCEPT ![t] = None]
  /\ pc' = [pc EXCEPT ![t] = "handler"]
  /\ UNCHANGED <<sem, at, elapsed>>

\* An expired one-shot is cancelled in vain, and the handle forgotten.
Forget(t, h) ==
  /\ pc[t] = "handler" /\ CanRun(t)
  /\ Owner[h] = t /\ h \in Cancels /\ handle[h] # None /\ ~Found(h) /\ ~armed[h]
  /\ handle' = [handle EXCEPT ![h] = None]
  /\ UNCHANGED <<table, sem, pc, at, call, armed, elapsed, raced>>
---------------------------------------------------------------------------
(* TMR_1MS_UpdateRequest, TMR_TickUpdateRequest and TMR_100msUpdateRequest *)
(* are one text but for the counter a one-shot gives back.                 *)

\* TMR_SemPost and TMR_SemPost_1MS, from the tick interrupt.
Tick(ty) ==
  /\ sem[ty] < MaxPending
  /\ sem' = [sem EXCEPT ![ty] = @ + 1]
  /\ UNCHANGED <<table, pc, at, call, users>>

\* One more tick for the armed timers of ty; no need to count past lateness.
Aged(ty) == [h \in Users |-> IF armed[h] /\ TypeOf[h] = ty /\ elapsed[h] <= Value[h]
                             THEN elapsed[h] + 1 ELSE elapsed[h]]

\* Mutant: the walk is skipped when one timer of the type is left.
PendSkipsLast(ty) ==
  /\ pc[ty] = "pend" /\ CanRun(ty)
  /\ sem[ty] > 0
  /\ sem' = [sem EXCEPT ![ty] = @ - 1]
  /\ pc' = [pc EXCEPT ![ty] = IF tmr_nbr > 0 /\ typeNbr[ty] > 1 THEN "visit" ELSE "pend"]
  /\ at' = [at EXCEPT ![ty] = 0]
  /\ elapsed' = Aged(ty)
  /\ UNCHANGED <<table, call, handle, armed, raced>>

\* The update task takes a tick and starts a walk if it has timers to serve.
Pend(ty) ==
  /\ pc[ty] = "pend" /\ CanRun(ty)
  /\ sem[ty] > 0
  /\ sem' = [sem EXCEPT ![ty] = @ - 1]
  /\ pc' = [pc EXCEPT ![ty] = IF tmr_nbr > 0 /\ typeNbr[ty] > 0 THEN "visit" ELSE "pend"]
  /\ at' = [at EXCEPT ![ty] = 0]
  /\ elapsed' = Aged(ty)
  /\ UNCHANGED <<table, call, handle, armed, raced>>

\* Mutant: the walk's bound is off by one.
AdvanceTooFar(ty) ==
  IF at[ty] < TMR_ID_COUNT
  THEN at' = [at EXCEPT ![ty] = @ + 1] /\ pc' = [pc EXCEPT ![ty] = "visit"]
  ELSE at' = at /\ pc' = [pc EXCEPT ![ty] = "pend"]

\* On to the next slot, or back to the semaphore after the last.
Advance(ty) ==
  IF at[ty] + 1 < TMR_ID_COUNT
  THEN at' = [at EXCEPT ![ty] = @ + 1] /\ pc' = [pc EXCEPT ![ty] = "visit"]
  ELSE at' = at /\ pc' = [pc EXCEPT ![ty] = "pend"]

Mine(ty) == Live(at[ty]) /\ slot[at[ty]].type = ty

Walks(ty, from, to) == pc[ty] = from /\ CanRun(ty) /\ pc' = [pc EXCEPT ![ty] = to]

\* The slot is free, or of another type.  A cancellation leaves the type, so one
\* between the reads of id and type is one right after them.
VisitOther(ty) ==
  /\ pc[ty] = "visit" /\ CanRun(ty)
  /\ ~Mine(ty)
  /\ Advance(ty)
  /\ UNCHANGED <<table, sem, call, users>>

VisitMine(ty) ==
  /\ Walks(ty, "visit", "count")
  /\ Mine(ty)
  /\ UNCHANGED <<table, sem, at, call, users>>

VisitCount(ty) ==
  /\ Walks(ty, "count", IF slot[at[ty]].count <= 1 THEN "due" ELSE "down")
  /\ UNCHANGED <<table, sem, at, call, users>>

\* Not due yet.
CountDown(ty) ==
  /\ pc[ty] = "down" /\ CanRun(ty)
  /\ slot' = [slot EXCEPT ![at[ty]].count = @ - 1]
  /\ Advance(ty)
  /\ UNCHANGED <<tmr_nbr, typeNbr, sem, call, users>>

\* Due: a cyclic timer is given its period again, a one-shot is to be freed.
VisitDue(ty) ==
  /\ Walks(ty, "due", IF slot[at[ty]].cyclic THEN "reload" ELSE "expire")
  /\ UNCHANGED <<table, sem, at, call, users>>

\* Mutant: the count is left as it is.
ReloadForgotten(ty) ==
  /\ Walks(ty, "reload", "call")
  /\ UNCHANGED <<table, sem, at, call, users>>

Reload(ty) ==
  /\ Walks(ty, "reload", "call")
  /\ slot' = [slot EXCEPT ![at[ty]].count = slot[at[ty]].value]
  /\ UNCHANGED <<tmr_nbr, typeNbr, sem, at, call, users>>

\* The counter an expired one-shot of type ty gives back: the 1 ms update
\* decrements the 10 ms one.
GivesBack(ty) == IF ty = "1MS" THEN "10MS" ELSE ty

\* The critical section that frees an expired one-shot.
Expire(ty) ==
  /\ pc[ty] = "expire" /\ CanRun(ty)
  /\ slot' = [slot EXCEPT ![at[ty]].id = 0]
  /\ tmr_nbr' = U8(tmr_nbr - 1)
  /\ typeNbr' = [c \in Types |-> IF c = GivesBack(ty) THEN U8(typeNbr[c] - 1) ELSE typeNbr[c]]
  /\ pc' = [pc EXCEPT ![ty] = "call"]
  /\ UNCHANGED <<sem, at, call, users>>

\* The slot may have no handler by now.
TestHandler(ty) ==
  /\ pc[ty] = "call" /\ CanRun(ty)
  /\ IF slot[at[ty]].hdlr = None THEN Advance(ty)
     ELSE at' = at /\ pc' = [pc EXCEPT ![ty] = "enter"]
  /\ UNCHANGED <<table, sem, call, users>>

\* The handler the slot holds now is called; it runs user code and returns.
CallHandler(ty) ==
  /\ Walks(ty, "enter", "handler")
  /\ LET h == slot[at[ty]].hdlr
     IN  /\ h # None
         /\ armed' = [armed EXCEPT ![h] = @ /\ slot[at[ty]].cyclic]
         /\ elapsed' = [elapsed EXCEPT ![h] = 0]
  /\ UNCHANGED <<table, sem, at, call, handle, raced>>

\* NULL is called: the hard fault loops until the watchdog resets the system.
CallNull(ty) ==
  /\ pc[ty] = "enter" /\ CanRun(ty) /\ slot[at[ty]].hdlr = None
  /\ slot' = BootSlot /\ tmr_nbr' = Len(Boot) /\ typeNbr' = BootNbr
  /\ sem' = [t \in Types |-> 1]
  /\ pc' = [t \in Types |-> "pend"]
  /\ at' = [t \in Types |-> 0]
  /\ call' = [t \in Types |-> None]
  /\ handle' = BootHandle
  /\ armed' = [h \in Users |-> Booted(h)]
  /\ elapsed' = [h \in Users |-> 0]
  /\ raced' = FALSE

Return(ty) ==
  /\ pc[ty] = "handler" /\ CanRun(ty)
  /\ Advance(ty)
  /\ UNCHANGED <<table, sem, call, users>>
---------------------------------------------------------------------------
UserStep(t) ==
  \/ \E h \in Users : SubscribeScan(t, h) \/ UnSubscribeScan(t, h) \/ Forget(t, h)
  \/ SubscribeFill(t)
  \/ UnSubscribeClear(t)

UpdateStep(ty) ==
  \/ Pend(ty) \/ VisitOther(ty) \/ VisitMine(ty) \/ VisitCount(ty) \/ CountDown(ty)
  \/ VisitDue(ty) \/ Expire(ty) \/ Reload(ty)
  \/ TestHandler(ty) \/ CallHandler(ty) \/ CallNull(ty) \/ Return(ty)

Next ==
  \/ \E ty \in Types : Tick(ty) \/ UpdateStep(ty)
  \/ \E t \in Types : UserStep(t)

\* The tick interrupt keeps coming, a task that gets to run again and again goes
\* on, and every handler returns.
Fairness ==
  \A ty \in Types :
    /\ WF_vars(Tick(ty))
    /\ SF_vars(UpdateStep(ty) \/ SubscribeFill(ty) \/ UnSubscribeClear(ty))
    /\ SF_vars(Return(ty))

Spec     == Init /\ [][Next]_vars
FairSpec == Spec /\ Fairness
---------------------------------------------------------------------------
\* The types: counters and identifiers fit their byte, and a walk of the update
\* requests never leaves the table.
TypeOK ==
  /\ slot \in [Slots -> [id : 0 .. 255, type : Types \cup {None}, cyclic : BOOLEAN,
                         value : Nat, count : Int, hdlr : Users \cup {None}]]
  /\ tmr_nbr \in 0 .. 255
  /\ typeNbr \in [Types -> 0 .. 255]
  /\ sem \in [Types -> Nat]
  /\ pc \in [Types -> {"pend", "visit", "count", "down", "due", "expire", "reload",
                       "call", "enter", "handler", "fill", "clear"}]
  /\ at \in [Types -> Slots]
  /\ call \in [Types -> [user : Users, slot : Slots] \cup {None}]
  /\ handle \in [Users -> Slots \cup {None}]
  /\ armed \in [Users -> BOOLEAN]
  /\ elapsed \in [Users -> Nat]

\* Timer.tmr_nbr is the number of timers (the comment at its declaration), and
\* the counter of each type the number of its live timers: TMR_Subscribe refuses
\* new timers by the first, and the updates skip the walk by both.  They are
\* exact, whoever preempts whom, up to the first of three races: a task fills a
\* slot that another has searched out before its critical section, or that the
\* walk of an update task is in the middle of; or it cancels the timer of a slot
\* after the walk has found the slot in use and before it has decided to count it
\* down or to give it its period again, a one-shot up to its end; or it does
\* between the walk's test of the handler and its call.
CountersExact ==
  \/ raced
  \/ /\ tmr_nbr = Cardinality({i \in Slots : Live(i)})
     /\ \A ty \in Types : typeNbr[ty] = Cardinality({i \in Slots : Live(i) /\ slot[i].type = ty})

\* An armed user holds the handle of its timer and a live slot is the timer of
\* the armed user that holds it: none runs on that nobody can cancel, and no
\* stale handle of an expired one-shot cancels the slot's next timer.
HandlesOwnSlots ==
  ~raced =>
    /\ \A h \in Users : armed[h] => handle[h] # None /\ slot[handle[h]].hdlr = h
    /\ \A i \in Slots : Live(i) => LET h == slot[i].hdlr
                                   IN  h # None /\ armed[h] /\ handle[h] = i

\* A handler runs only for a user that is armed, and on the tick its period
\* asks for: one tick early when it subscribed from a handler of a slot before
\* its own, whose walk still reaches it.
FiresOnTime ==
  [][~raced => \A ty \in Types :
       (pc[ty] = "enter" /\ pc'[ty] = "handler") =>
         LET h == slot[at[ty]].hdlr
         IN  armed[h] /\ elapsed[h] \in {Value[h] - 1, Value[h]}]_vars

\* No timer is forgotten: an armed one runs its handler or is cancelled, as
\* long as the tasks above its own come to their end again and again.
EveryTimerFires ==
  \A h \in Users :
    (\A u \in Types : Priority[u] < Priority[TypeOf[h]] => []<>Blocked(u)) =>
      (armed[h] ~> (raced \/ ~armed[h]
                    \/ \E ty \in Types : pc[ty] = "handler" /\ slot[at[ty]].hdlr = h))
=============================================================================
