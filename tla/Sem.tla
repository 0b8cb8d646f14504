-------------------------------- MODULE Sem ---------------------------------
(***************************************************************************)
(* A semaphore of kern/krnl/sync/sem.c that guards a critical section, over *)
(* the scheduler of module Sched and the wait queues of module Wait.  Every *)
(* lock of the kernel (mm->sem, files->sem, BlockCacheSem, IDE_Sem, fat_sem *)
(* and the others) is used in this way: acquireSem, work, releaseSem.       *)
(*                                                                         *)
(* The tasks of KThreads are kernel threads and run with IF set: a tick can *)
(* come anywhere outside intr_save/intr_restore, between the intr_restore() *)
(* of down() and its schedule() too.  The others are processes in a system  *)
(* call, with IF clear: down() is one step up to the schedule() in it.      *)
(***************************************************************************)
EXTENDS Wait

CONSTANTS
    KThreads,   \* the tasks that run with interrupts enabled
    Value       \* the value given to initSem()

\* A Task_t is a block of kernel memory: there are finitely many.
ASSUME TasksAssumption == IsFiniteSet(Tasks)
ASSUME KThreadsAssumption == KThreads \subseteq Tasks \ {Idle}
ASSUME ValueAssumption == Value \in Nat

VARIABLES
    sch,        \* the scheduler state of module Sched
    value,      \* Semaphore_t.value
    wait_queue, \* Semaphore_t.wait_queue, see module Wait
    pc          \* where each task stands

vars == <<sch, value, wait_queue, pc>>

Workers == Tasks \ {Idle}
Cur == sch.CurrentTask

\* "out": before acquireSem.  "schedule": in down(), between intr_restore()
\* and schedule().  "woken": in down(), after schedule().  "in": before
\* releaseSem.
Locations == {"out", "schedule", "woken", "in"}

\* A process in user mode is "out".
Interruptible(t) == t \in KThreads \cup {Idle} \/ pc[t] = "out"

\* All tasks have been woken and none has run yet; initSem().
Init ==
    /\ \E q \in SetToSeqs(Workers) :
          sch = [CurrentTask |-> Idle, run_list |-> q, task_num |-> Len(q),
                 state |-> [t \in Tasks |-> "RUNNABLE"],
                 wait_state |-> [t \in Tasks |-> "NOTWAIT"],
                 time_slice |-> [t \in Tasks |-> IF t = Idle THEN 0 ELSE MaxTimeSlices],
                 need_resched |-> [t \in Tasks |-> t = Idle], panic |-> FALSE]
    /\ value = Value
    /\ wait_queue = EmptyQueue
    /\ pc = [t \in Tasks |-> "out"]

Tick ==
    /\ Interruptible(Cur)
    /\ sch' = timerCallBack(sch)
    /\ UNCHANGED <<value, wait_queue, pc>>

----------------------------------------------------------------------------
(* down().                                                                 *)

DownTakes(t) ==
    /\ Cur = t /\ pc[t] = "out"
    /\ value > 0
    /\ value' = value - 1
    /\ pc' = [pc EXCEPT ![t] = "in"]
    /\ UNCHANGED <<sch, wait_queue>>

DownWaits(t) ==
    /\ Cur = t /\ pc[t] = "out"
    /\ value <= 0
    /\ wait_queue' = waitAdd(wait_queue, t)
    /\ LET s == waitSleep(sch, "KSEM")
       IN  IF t \in KThreads
             THEN sch' = s /\ pc' = [pc EXCEPT ![t] = "schedule"]
             ELSE sch' = schedule(s) /\ pc' = [pc EXCEPT ![t] = "woken"]
    /\ UNCHANGED value

acquireSem(t) == DownTakes(t) \/ DownWaits(t)

DownSchedules(t) ==
    /\ Cur = t /\ pc[t] = "schedule"
    /\ sch' = schedule(sch)
    /\ pc' = [pc EXCEPT ![t] = "woken"]
    /\ UNCHANGED <<value, wait_queue>>

\* The end of down() and the test of its result in acquireSem().
DownReturns(t) ==
    /\ Cur = t /\ pc[t] = "woken"
    /\ wait_queue' = waitDelCurrent(wait_queue, t)
    /\ sch' = IF wait_queue.flags[t] # "KSEM" THEN [sch EXCEPT !.panic = TRUE] ELSE sch
    /\ pc' = [pc EXCEPT ![t] = "in"]
    /\ UNCHANGED value

----------------------------------------------------------------------------
(* up().                                                                   *)

Mut_up(t) ==                        \* mutant: counts the unit it hands over
    /\ value' = value + 1
    /\ IF wait_queue.list = << >>
         THEN UNCHANGED <<sch, wait_queue>>
         ELSE /\ wait_queue' = wakeupWait(wait_queue, "KSEM")
              /\ sch' = wakeupTask(sch, Head(wait_queue.list))

Mut_upWakesNobody(t) ==             \* mutant: leaves the unit to be found
    /\ value' = value + 1
    /\ UNCHANGED <<sch, wait_queue>>

up(t) ==
    IF wait_queue.list = << >>
      THEN value' = value + 1 /\ UNCHANGED <<sch, wait_queue>>
      ELSE /\ wait_queue' = wakeupWait(wait_queue, "KSEM")
           /\ sch' = wakeupTask(sch, Head(wait_queue.list))
           /\ UNCHANGED value

releaseSem(t) ==
    /\ Cur = t /\ pc[t] = "in"
    /\ up(t)
    /\ pc' = [pc EXCEPT ![t] = "out"]

----------------------------------------------------------------------------

Next ==
    \/ Tick
    \/ \E t \in Workers :
          \/ acquireSem(t) \/ DownSchedules(t) \/ DownReturns(t)
          \/ releaseSem(t)

Spec == Init /\ [][Next]_vars

(* The timer ticks, and a task does not stop inside down() or in the        *)
(* critical section.  A thread can be preempted at each of its steps, but   *)
(* between two ticks it executes far more code than one of them holds: a    *)
(* thread that gets the CPU again and again goes on, hence SF.  Nobody has  *)
(* to call acquireSem().                                                    *)
Fairness ==
    /\ WF_vars(Tick)
    /\ \A t \in Workers :
          /\ SF_vars(DownSchedules(t)) /\ SF_vars(DownReturns(t))
          /\ SF_vars(releaseSem(t))

FairSpec == Spec /\ Fairness

----------------------------------------------------------------------------
(* Properties.                                                             *)

\* The variables have their types; no time slice gets below zero (tickTask).
TypeOK ==
    /\ sch \in SchedState
    /\ value \in Int
    /\ wait_queue \in WaitQueue
    /\ pc \in [Tasks -> Locations]

Inside == {t \in Workers : pc[t] = "in"}

\* Tasks still in down() to which an up() has given its unit.
Handed ==
    {t \in Workers : pc[t] \in {"schedule", "woken"} /\ wait_queue.flags[t] = "KSEM"}

\* The units of the semaphore are never lost or multiplied: each is free, in
\* use, or on its way from an up() to the task it woke (sem.c, down and up),
\* so that never more than Value tasks are in the critical section; and no
\* unit lies idle while a task waits.
UnitsConserved ==
    /\ value >= 0
    /\ value + Cardinality(Inside) + Cardinality(Handed) = Value
    /\ value > 0 => wait_queue.list = << >>

\* Who sleeps in down() is in the queue of the semaphore, and who has been
\* handed a unit is awake, though the up() may come between the intr_restore()
\* and the schedule() of a thread.
SleepersQueued ==
    \A t \in Workers :
        /\ waitlistIsInList(wait_queue, t) <=> sch.state[t] = "SLEEPING"
        /\ t \in Handed => sch.state[t] = "RUNNABLE"
        /\ pc[t] \in {"schedule", "woken"}
              => waitlistIsInList(wait_queue, t) \/ t \in Handed

\* The run queue and the wait queue fit each other when up() wakes a thread that
\* is on its way to sleep, or that a tick has already taken off the CPU (sem.c,
\* sched.c); neither the panic of acquireSem() ("Sem flag is not 0!") nor the
\* one of wakeupTask() is reached.
QueuesOK == TypeOK /\ RunQueueExact(sch) /\ SleepersQueued /\ ~sch.panic

\* sem.c implements a first-in first-out semaphore: the refinement mapping
\* counts a task as an owner from the up() that hands it the unit.
Fifo == INSTANCE FifoSem WITH Procs <- Workers, Units <- Value, units <- value,
                              queue <- wait_queue.list, owners <- Inside \cup Handed

ImplementsFifo == Fifo!FSpec

\* A task that has called acquireSem() gets the semaphore.
WaiterEnters ==
    \A t \in Workers : pc[t] \in {"schedule", "woken"} ~> pc[t] = "in"

=============================================================================
