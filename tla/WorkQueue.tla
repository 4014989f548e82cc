------------------------------ MODULE WorkQueue ------------------------------
(***************************************************************************)
(* The work queue of worker.c and the task of os_worker.c that serves it.  *)
(* Tasks of higher priority start works: the 100 ms timer task the AT      *)
(* command work and lwIP's, the USART task the work that digests what the  *)
(* modem sent.  The worker task, the lowest of all, runs their functions.  *)
(*                                                                         *)
(* The kernel is preemptive: a task runs only while every task of higher   *)
(* priority is blocked.  WORKER_StartupWork reads the queue before its     *)
(* critical section, so its checks and its write are separate steps.       *)
(***************************************************************************)
EXTENDS Integers, FiniteSets

CONSTANTS WORKER_MAX_NBR, \* slots of the queue
          Starters,       \* the tasks that call WORKER_StartupWork
          Works,          \* the work objects
          Starts,         \* Starts[t]: the works t starts
          Priority,       \* Priority[t]: the lower number runs first
          SEM_MAX,        \* the largest count of a semaphore
          None

Slots    == 0 .. WORKER_MAX_NBR - 1
U8(n)    == n % 256

ASSUME QueueAssumption ==
  /\ WORKER_MAX_NBR \in 1 .. 127
  /\ SEM_MAX \in Nat \ {0}
  /\ Starts \in [Starters -> SUBSET Works]
  /\ Priority \in [Starters -> Nat]
  \* Each work is started by one task.
  /\ \A t, u \in Starters : t # u => Starts[t] \cap Starts[u] = {}
  /\ IsFiniteSet(Starters) /\ WORKER_MAX_NBR + Cardinality(Starters) <= 255
  /\ None \notin Works

VARIABLES
  workQueue,    \* stat and workHdlr of each slot
  wqUsedNumber,
  wqAllocaIdx,
  sem,          \* count of work_os_sem
  starter,      \* where each starter is, with its work and slot
  worker,       \* where the worker task is
  at,           \* the slot the worker task is at
  due,          \* due[w]: w was accepted and has not run since
  preempted     \* a start has come in between the steps of another start

queue == <<workQueue, wqUsedNumber, wqAllocaIdx>>
vars  == <<queue, sem, starter, worker, at, due, preempted>>

Idle      == [pc |-> "idle", work |-> None, slot |-> None]
Holds(i)  == workQueue[i].workHdlr # None
Queued(w) == {i \in Slots : workQueue[i].workHdlr = w}

\* A starter runs when those of higher priority sleep, the worker when all do.
CanRun(t)     == \A u \in Starters : Priority[u] < Priority[t] => starter[u].pc = "idle"
WorkerCanRun  == \A t \in Starters : starter[t].pc = "idle"
---------------------------------------------------------------------------
Init ==
  /\ workQueue = [i \in Slots |-> [stat |-> "NO_EXIST", workHdlr |-> None]]
  /\ wqUsedNumber = 0
  /\ wqAllocaIdx = 0
  /\ sem = 1
  /\ starter = [t \in Starters |-> Idle]
  /\ worker = "check"
  /\ at = 0
  /\ due = [w \in Works |-> FALSE]
  /\ preempted = FALSE

\* WORKER_StartupWork up to its search: the limit, and that the work is not
\* in the queue already.  A refusal returns an error nobody reads.
StartupWork(t, w) ==
  /\ starter[t].pc = "idle" /\ CanRun(t)
  /\ w \in Starts[t]
  /\ wqUsedNumber < WORKER_MAX_NBR
  /\ wqUsedNumber > 0 => Queued(w) = {}
  /\ starter' = [starter EXCEPT ![t] = [pc |-> "search", work |-> w, slot |-> None]]
  /\ preempted' = (preempted \/ \E u \in Starters : starter[u].pc # "idle")
  /\ UNCHANGED <<queue, sem, worker, at, due>>

\* Mutant: a slot is free when its work is not running.
SearchIdle(t) ==
  /\ starter[t].pc = "search" /\ CanRun(t)
  /\ LET free == {i \in wqAllocaIdx .. WORKER_MAX_NBR - 1 : workQueue[i].stat # "BUSY_RUNNING"}
     IN  \E i \in free : /\ \A j \in free : i <= j
                        /\ starter' = [starter EXCEPT ![t].pc = "place", ![t].slot = i]
  /\ UNCHANGED <<queue, sem, worker, at, due, preempted>>

\* The search starts at wqAllocaIdx.  When it ends in vain the goto starts it
\* again, at wqAllocaIdx too: the task stays here until a slot there is free.
Search(t) ==
  /\ starter[t].pc = "search" /\ CanRun(t)
  /\ LET free == {i \in wqAllocaIdx .. WORKER_MAX_NBR - 1 :
                    workQueue[i].stat = "NO_EXIST" /\ ~Holds(i)}
     IN  \E i \in free : /\ \A j \in free : i <= j
                        /\ starter' = [starter EXCEPT ![t].pc = "place", ![t].slot = i]
  /\ UNCHANGED <<queue, sem, worker, at, due, preempted>>

\* Mutants: the work is not counted; the worker task is not woken.
PlaceUncounted(t) ==
  /\ starter[t].pc = "place" /\ CanRun(t)
  /\ workQueue' = [workQueue EXCEPT ![starter[t].slot] =
                     [stat |-> "BUSY_PENDING", workHdlr |-> starter[t].work]]
  /\ wqAllocaIdx' = starter[t].slot
  /\ due' = [due EXCEPT ![starter[t].work] = TRUE]
  /\ sem' = IF sem < SEM_MAX THEN sem + 1 ELSE sem
  /\ starter' = [starter EXCEPT ![t] = Idle]
  /\ UNCHANGED <<wqUsedNumber, worker, at, preempted>>
PlaceNoPost(t) ==
  /\ starter[t].pc = "place" /\ CanRun(t)
  /\ workQueue' = [workQueue EXCEPT ![starter[t].slot] =
                     [stat |-> "BUSY_PENDING", workHdlr |-> starter[t].work]]
  /\ wqUsedNumber' = U8(wqUsedNumber + 1)
  /\ wqAllocaIdx' = starter[t].slot
  /\ due' = [due EXCEPT ![starter[t].work] = TRUE]
  /\ starter' = [starter EXCEPT ![t] = Idle]
  /\ UNCHANGED <<sem, worker, at, preempted>>

\* The critical section, and WORKER_SemPost: OSSemPost refuses at the limit.
Place(t) ==
  /\ starter[t].pc = "place" /\ CanRun(t)
  /\ workQueue' = [workQueue EXCEPT ![starter[t].slot] =
                     [stat |-> "BUSY_PENDING", workHdlr |-> starter[t].work]]
  /\ wqUsedNumber' = U8(wqUsedNumber + 1)
  /\ wqAllocaIdx' = starter[t].slot
  /\ due' = [due EXCEPT ![starter[t].work] = TRUE]
  /\ sem' = IF sem < SEM_MAX THEN sem + 1 ELSE sem
  /\ starter' = [starter EXCEPT ![t] = Idle]
  /\ UNCHANGED <<worker, at, preempted>>
---------------------------------------------------------------------------
(* App_TaskWorkers: WORKER_DoWorks, then a wait on the semaphore, without  *)
(* a limit when the queue was empty and with one when it was not.          *)

DoWorks ==
  /\ worker = "check" /\ WorkerCanRun
  /\ worker' = IF wqUsedNumber > 0 THEN "visit" ELSE "pend"
  /\ at' = 0
  /\ UNCHANGED <<queue, sem, starter, due, preempted>>

NextSlot ==
  IF at + 1 < WORKER_MAX_NBR
  THEN at' = at + 1 /\ worker' = "visit"
  ELSE at' = 0 /\ worker' = "pendTimed"

VisitEmpty ==
  /\ worker = "visit" /\ WorkerCanRun
  /\ ~Holds(at)
  /\ NextSlot
  /\ UNCHANGED <<queue, sem, starter, due, preempted>>

\* The slot's work is marked running; its function starts.
Run ==
  /\ worker = "visit" /\ WorkerCanRun
  /\ Holds(at)
  /\ workQueue' = [workQueue EXCEPT ![at].stat = "BUSY_RUNNING"]
  /\ due' = [due EXCEPT ![workQueue[at].workHdlr] = FALSE]
  /\ worker' = "run"
  /\ UNCHANGED <<wqUsedNumber, wqAllocaIdx, sem, starter, at, preempted>>

\* Mutant: wqAllocaIdx is not set back when the queue is empty.
RunEndsKeepsIdx ==
  /\ worker = "run" /\ WorkerCanRun
  /\ workQueue' = [workQueue EXCEPT ![at] = [stat |-> "NO_EXIST", workHdlr |-> None]]
  /\ wqUsedNumber' = IF wqUsedNumber > 0 THEN wqUsedNumber - 1 ELSE 0
  /\ NextSlot
  /\ UNCHANGED <<wqAllocaIdx, sem, starter, due, preempted>>

\* Mutant: "BUG-FIX #000" of the source undone, the slot is not emptied.
RunEndsKeepsWork ==
  /\ worker = "run" /\ WorkerCanRun
  /\ workQueue' = [workQueue EXCEPT ![at].stat = "NO_EXIST"]
  /\ wqUsedNumber' = IF wqUsedNumber > 0 THEN wqUsedNumber - 1 ELSE 0
  /\ wqAllocaIdx' = IF wqUsedNumber' = 0 THEN 0 ELSE wqAllocaIdx
  /\ NextSlot
  /\ UNCHANGED <<sem, starter, due, preempted>>

\* The function has returned: the critical section that empties the slot.
RunEnds ==
  /\ worker = "run" /\ WorkerCanRun
  /\ workQueue' = [workQueue EXCEPT ![at] = [stat |-> "NO_EXIST", workHdlr |-> None]]
  /\ wqUsedNumber' = IF wqUsedNumber > 0 THEN wqUsedNumber - 1 ELSE 0
  /\ wqAllocaIdx' = IF wqUsedNumber' = 0 THEN 0 ELSE wqAllocaIdx
  /\ NextSlot
  /\ UNCHANGED <<sem, starter, due, preempted>>

Wake ==
  /\ worker \in {"pend", "pendTimed"} /\ WorkerCanRun
  /\ sem > 0
  /\ sem' = sem - 1
  /\ worker' = "check"
  /\ UNCHANGED <<queue, starter, at, due, preempted>>

Timeout ==
  /\ worker = "pendTimed" /\ WorkerCanRun
  /\ sem = 0
  /\ worker' = "check"
  /\ UNCHANGED <<queue, sem, starter, at, due, preempted>>
---------------------------------------------------------------------------
StartStep(t) == Search(t) \/ Place(t)
WorkerStep   == DoWorks \/ VisitEmpty \/ Run \/ RunEnds \/ Wake \/ Timeout

Next ==
  \/ \E t \in Starters : (\E w \in Works : StartupWork(t, w)) \/ StartStep(t)
  \/ WorkerStep

\* The kernel runs a task that can run, and a work's function returns.
Fairness == (\A t \in Starters : WF_vars(StartStep(t))) /\ WF_vars(WorkerStep)

Spec     == Init /\ [][Next]_vars
FairSpec == Spec /\ Fairness
---------------------------------------------------------------------------
\* wqUsedNumber is never less than the works in the queue, whoever preempts
\* whom between the checks of WORKER_StartupWork and its critical section: the
\* worker task never passes over a queue that holds a work.  It is exact as
\* long as no start has preempted another.
UsedCoversQueue ==
  LET held == Cardinality({i \in Slots : Holds(i)})
  IN  held <= wqUsedNumber /\ (preempted \/ held = wqUsedNumber)

\* No wake-up is lost: the worker task does not sleep without a limit on a
\* semaphore without a count while a work waits in the queue.
NoLostWakeup == worker = "pend" /\ sem = 0 => \A i \in Slots : ~Holds(i)

\* No work is lost: one that was accepted is in the queue until it runs, unless
\* a start preempted another and took the slot it had found.
AcceptedIsQueued == \A w \in Works : due[w] => preempted \/ Queued(w) # {}

\* The worker task runs a work only when it was accepted since it last ran, and
\* so once for each start.
RunsOnlyWhatIsDue ==
  [][worker = "visit" /\ worker' = "run" => due[workQueue[at].workHdlr]]_vars

\* A task that starts a work gets its answer, unless the start came in the
\* middle of the worker's walk, or was preempted by another: then the search
\* may find nothing from wqAllocaIdx on, and is repeated for ever.  (With more
\* slots than the two of the code it may at other times, too.)
StartupReturns ==
  \A t \in Starters :
    starter[t].pc # "idle" ~>
      (starter[t].pc = "idle" \/ preempted \/ worker \in {"visit", "run"})
=============================================================================
