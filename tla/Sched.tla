------------------------------- MODULE Sched -------------------------------
(***************************************************************************)
(* The round-robin scheduler of kern/krnl/task/sched.c with the timer      *)
(* interrupt that drives it (kern/driver/timer.c).                         *)
(*                                                                         *)
(* Every function of sched.c runs with interrupts masked on the only CPU,  *)
(* so each one is a function from scheduler states to scheduler states.    *)
(* The modules that use the scheduler (Task, Sem, Stdin) keep one variable *)
(* holding such a state and compose these functions inside their actions,  *)
(* in the order of the calls in the code.                                  *)
(*                                                                         *)
(* A scheduler state is a record:                                          *)
(*   CurrentTask   the task whose context is on the CPU                    *)
(*   run_list      RunQueue.run_list from head to tail                     *)
(*   task_num      RunQueue.task_num                                       *)
(*   state         Task_t.state, "FREE" for a Task_t that is not allocated *)
(*   wait_state    Task_t.wait_state                                       *)
(*   time_slice    Task_t.time_slice                                       *)
(*   need_resched  Task_t.need_resched                                     *)
(*   panic         a panic() of the kernel has been reached                *)
(***************************************************************************)
EXTENDS Integers, Sequences, FiniteSets

CONSTANTS
    Tasks,          \* the Task_t structures the kernel can ever allocate
    Idle,           \* idle_task, the main() flow of control
    MaxTimeSlices   \* MAX_TIME_SLICES, 1 in sched.h

ASSUME IdleAssumption == Idle \in Tasks
ASSUME SliceAssumption == MaxTimeSlices \in Nat \ {0}

States == {"FREE", "UNINIT", "SLEEPING", "RUNNABLE", "ZOMBIE"}
WaitStates == {"NOTWAIT", "CHILD", "KSEM", "KBD"}

SchedState ==
    [CurrentTask : Tasks, run_list : Seq(Tasks), task_num : Int,
     state : [Tasks -> States], wait_state : [Tasks -> WaitStates],
     time_slice : [Tasks -> 0 .. MaxTimeSlices],
     need_resched : [Tasks -> BOOLEAN], panic : BOOLEAN]

Queued(s, t) == \E i \in 1 .. Len(s.run_list) : s.run_list[i] = t

----------------------------------------------------------------------------
(* Assignments to the fields of a Task_t.                                  *)

setState(s, t, x) == [s EXCEPT !.state[t] = x]
setWaitState(s, t, w) == [s EXCEPT !.wait_state[t] = w]
clearSlice(s, t) == [s EXCEPT !.time_slice[t] = 0, !.need_resched[t] = FALSE]

----------------------------------------------------------------------------
(* The run queue.                                                          *)

enqueueRunQueue(s, t) ==
    [s EXCEPT !.run_list = Append(@, t),
              !.time_slice[t] = IF @ = 0 \/ @ > MaxTimeSlices
                                  THEN MaxTimeSlices ELSE @,
              !.task_num = @ + 1]

\* schedule() only ever dequeues the task getHeadRunQueue() returned.
dequeueRunQueue(s) == [s EXCEPT !.run_list = Tail(@), !.task_num = @ - 1]

----------------------------------------------------------------------------
(* schedule(): the current task goes back to the tail if it still can run, *)
(* then the head of the queue, or idle when it is empty, gets the CPU.     *)
(* runTask() is the assignment of CurrentTask; the context switch itself   *)
(* is the fact that the next step is one of the new CurrentTask.           *)

Mut_requeueAnyState(s) ==       \* mutant: requeues a task that went to sleep
    LET a == [s EXCEPT !.need_resched[s.CurrentTask] = FALSE]
    IN  IF s.CurrentTask # Idle THEN enqueueRunQueue(a, s.CurrentTask) ELSE a

Mut_requeueInFront(s) ==        \* mutant: listAdd instead of listAddBefore
    LET a == [s EXCEPT !.need_resched[s.CurrentTask] = FALSE]
    IN  IF s.state[s.CurrentTask] = "RUNNABLE" /\ s.CurrentTask # Idle
          THEN [enqueueRunQueue(a, s.CurrentTask) EXCEPT
                   !.run_list = <<s.CurrentTask>> \o s.run_list]
          ELSE a

requeueCurrent(s) ==
    LET a == [s EXCEPT !.need_resched[s.CurrentTask] = FALSE]
    IN  IF s.state[s.CurrentTask] = "RUNNABLE" /\ s.CurrentTask # Idle
          THEN enqueueRunQueue(a, s.CurrentTask) ELSE a

runNext(s) ==
    IF s.run_list # << >>
      THEN [dequeueRunQueue(s) EXCEPT !.CurrentTask = Head(s.run_list)]
      ELSE [s EXCEPT !.CurrentTask = Idle]

schedule(s) == runNext(requeueCurrent(s))

Mut_wakeKeepsReason(s, t) ==    \* mutant: leaves wait_state behind
    IF s.state[t] = "RUNNABLE" THEN s
    ELSE LET w == setState(s, t, "RUNNABLE")
         IN  IF t # s.CurrentTask /\ t # Idle THEN enqueueRunQueue(w, t) ELSE w

makeRunnable(s, t) ==
    IF s.state[t] = "RUNNABLE" THEN s
    ELSE LET w == setWaitState(setState(s, t, "RUNNABLE"), t, "NOTWAIT")
         IN  IF t # s.CurrentTask /\ t # Idle THEN enqueueRunQueue(w, t) ELSE w

\* wakeupTask(): waking a zombie is a panic, a runnable task is left alone.
wakeupTask(s, t) ==
    IF s.state[t] = "ZOMBIE" THEN [s EXCEPT !.panic = TRUE] ELSE makeRunnable(s, t)

----------------------------------------------------------------------------
(* The timer interrupt.                                                    *)

Mut_tickTask(s, t) ==           \* mutant: no test for a time slice of 0
    [s EXCEPT !.time_slice[t] = @ - 1,
              !.need_resched[t] = @ \/ s.time_slice[t] = 1]

tickTask(s, t) ==
    LET left == IF s.time_slice[t] > 0 THEN s.time_slice[t] - 1 ELSE 0
    IN  [s EXCEPT !.time_slice[t] = left,
                  !.need_resched[t] = @ \/ left = 0]

\* timerCallBack() schedules by itself, whatever mode it interrupted; the
\* test of need_resched in IntrHandlerCall comes after it, when it is clear.
timerCallBack(s) ==
    LET a == tickTask(s, s.CurrentTask)
    IN  IF a.need_resched[s.CurrentTask] THEN schedule(a) ELSE a

----------------------------------------------------------------------------
(* What the scheduler keeps true.                                          *)

\* The run queue holds exactly the tasks that can run and are neither on the
\* CPU nor the idle task, each one once, and task_num counts them: a task in
\* the queue twice would corrupt the list links, a runnable task outside it
\* would never run again.
RunQueueExact(s) ==
    /\ \A i, j \in 1 .. Len(s.run_list) :
          s.run_list[i] = s.run_list[j] => i = j
    /\ \A t \in Tasks :
          Queued(s, t) <=> /\ s.state[t] = "RUNNABLE"
                           /\ t # s.CurrentTask
                           /\ t # Idle
    /\ s.task_num = Len(s.run_list)

=============================================================================
