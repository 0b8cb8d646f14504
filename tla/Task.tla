-------------------------------- MODULE Task --------------------------------
(***************************************************************************)
(* The life of tasks: kern/krnl/task/task.c (do_fork, do_exit, do_wait and *)
(* the task lists) and the init thread of kern/krnl/task/init_task.c, over *)
(* the scheduler of module Sched.                                          *)
(*                                                                         *)
(* Interrupt gates and every isr stub clear IF, so a system call of a user *)
(* process is one uninterrupted piece of code up to the call of schedule() *)
(* that puts it to sleep: one action.  The init thread runs with IF set,   *)
(* and timerCallBack() schedules whatever it interrupted: every access of  *)
(* init to shared state that is not inside intr_save/intr_restore is an    *)
(* action of its own, and Tick may come between any two of them.           *)
(*                                                                         *)
(* The sibling list (cptr, optr, yptr) is the sequence children[p], from   *)
(* the youngest child: cptr is its head, optr the next element, yptr the   *)
(* previous one.                                                           *)
(***************************************************************************)
EXTENDS Sched, SequencesExt

CONSTANTS
    InitTask,   \* init_task, the second task
    MaxTasks,   \* MAX_TASKS
    NULL        \* the null pointer

ASSUME InitTaskAssumption == InitTask \in Tasks \ {Idle}
ASSUME NULLAssumption == NULL \notin Tasks
ASSUME MaxTasksAssumption == MaxTasks \in Nat

VARIABLES
    sch,        \* the scheduler state of module Sched
    parent,     \* Task_t.parent
    children,   \* the sibling list that starts at Task_t.cptr
    taskList,   \* TaskList from its head, the newest task first
    tid,        \* Task_t.tid
    pc,         \* where the task stands, see Locations
    arg,        \* the pid a task in do_wait() waits for
    ptr         \* the local variable "task" of init in do_wait() and do_fork()

vars == <<sch, parent, children, taskList, tid, pc, arg, ptr>>

Cur == sch.CurrentTask
Users == Tasks \ {Idle, InitTask}

(* "user": in user mode, or about to enter it.  "wait": asleep in do_wait  *)
(* of a system call, to go on at "repeat".  "kthread": user_task() before  *)
(* its exec.  The others are the points of init between two of its steps,  *)
(* named after the statement that comes next.                              *)
InitLocations == {"create", "wakeup", "repeat", "scan", "set_state",
                  "set_wait", "schedule", "del_task", "kfree", "next",
                  "exit", "exit_cli"}
Locations == InitLocations \cup {"none", "idle", "user", "kthread", "wait", "dead"}

TaskCount == Len(taskList)

\* A tick is taken at once by a task that runs with IF set.
Interruptible(t) == pc[t] \notin {"wait", "dead", "none"}

Init ==
    /\ sch = [CurrentTask |-> Idle, run_list |-> <<InitTask>>, task_num |-> 1,
              state |-> [t \in Tasks |-> IF t \in Users THEN "FREE" ELSE "RUNNABLE"],
              wait_state |-> [t \in Tasks |-> "NOTWAIT"],
              time_slice |-> [t \in Tasks |-> IF t = InitTask THEN MaxTimeSlices ELSE 0],
              need_resched |-> [t \in Tasks |-> t = Idle], panic |-> FALSE]
    /\ parent = [t \in Tasks |-> IF t = InitTask THEN Idle ELSE NULL]
    /\ children = [t \in Tasks |-> IF t = Idle THEN <<InitTask>> ELSE << >>]
    /\ taskList = <<InitTask, Idle>>
    /\ tid = [t \in Tasks |-> IF t = Idle THEN 0 ELSE IF t = InitTask THEN 1 ELSE -1]
    /\ pc = [t \in Tasks |-> IF t = Idle THEN "idle"
                             ELSE IF t = InitTask THEN "create" ELSE "none"]
    /\ arg = [t \in Tasks |-> 0]
    /\ ptr = NULL

----------------------------------------------------------------------------
(* The timer and the idle loop.                                            *)

Tick ==
    /\ Interruptible(Cur)
    /\ sch' = timerCallBack(sch)
    /\ UNCHANGED <<parent, children, taskList, tid, pc, arg, ptr>>

cpu_idle ==
    /\ Cur = Idle
    /\ sch.need_resched[Idle]
    /\ sch' = schedule(sch)
    /\ UNCHANGED <<parent, children, taskList, tid, pc, arg, ptr>>

----------------------------------------------------------------------------
(* do_fork(): the new task is in the task list and among the children of   *)
(* its parent before it is woken.  A failed allocation undoes everything   *)
(* that was done before it and leaves this state as it was.                *)

get_new_tid == TaskCount

allocTask(s, c) ==
    clearSlice(setWaitState(setState(s, c, "UNINIT"), c, "NOTWAIT"), c)

add_task(p, c) ==
    /\ taskList' = <<c>> \o taskList
    /\ children' = [children EXCEPT ![p] = <<c>> \o @]
    /\ parent' = [parent EXCEPT ![c] = p]

sys_fork(t, c) ==
    /\ Cur = t /\ pc[t] = "user"
    /\ TaskCount < MaxTasks
    /\ sch.state[c] = "FREE"
    /\ tid' = [tid EXCEPT ![c] = get_new_tid]
    /\ add_task(t, c)
    /\ sch' = wakeupTask(allocTask(sch, c), c)
    /\ pc' = [pc EXCEPT ![c] = "user"]
    /\ UNCHANGED <<arg, ptr>>

----------------------------------------------------------------------------
(* do_exit().                                                              *)

\* The parent is woken if it waits for a child, then init for each child it
\* inherits that is a zombie already.
wakeWaiters(s, t) ==
    LET a == IF s.wait_state[parent[t]] = "CHILD" THEN wakeupTask(s, parent[t]) ELSE s
    IN  IF /\ \E i \in 1 .. Len(children[t]) : s.state[children[t][i]] = "ZOMBIE"
           /\ a.wait_state[InitTask] = "CHILD"
          THEN wakeupTask(a, InitTask) ELSE a

Mut_reparent(t) ==                  \* mutant: the children keep their dead parent
    UNCHANGED <<parent, children>>

\* Each child in turn is taken from the head of the list of the dead task
\* and put in front of the list of init.
reparent(t) ==
    /\ parent' = [c \in Tasks |-> IF Contains(children[t], c) THEN InitTask
                                                              ELSE parent[c]]
    /\ children' = LET left == [children EXCEPT ![t] = << >>]
                   IN  [left EXCEPT ![InitTask] = Reverse(children[t]) \o @]

sys_exit(t) ==
    /\ Cur = t /\ t # InitTask /\ pc[t] \in {"user", "kthread"}
    /\ sch' = schedule(wakeWaiters(setState(sch, t, "ZOMBIE"), t))
    /\ reparent(t)
    /\ pc' = [pc EXCEPT ![t] = "dead"]
    /\ UNCHANGED <<taskList, tid, arg, ptr>>

(* A kernel thread that returns from its function is in do_exit() with IF   *)
(* set: a Tick can come before intr_save(), and a zombie does not come back *)
(* from it to do the rest.                                                  *)

ThreadExits(t) ==
    /\ Cur = t /\ pc[t] = "exit"
    /\ sch' = setState(sch, t, "ZOMBIE")
    /\ pc' = [pc EXCEPT ![t] = "exit_cli"]
    /\ UNCHANGED <<parent, children, taskList, tid, arg, ptr>>

\* For init the loop over the children would never end if it had one left:
\* see InitLeavesLast.
ThreadExitsCli(t) ==
    /\ Cur = t /\ pc[t] = "exit_cli"
    /\ sch' = schedule(wakeWaiters(sch, t))
    /\ reparent(t)
    /\ pc' = [pc EXCEPT ![t] = "dead"]
    /\ UNCHANGED <<taskList, tid, arg, ptr>>

----------------------------------------------------------------------------
(* do_wait() as a system call: pid = 0 takes any child.                    *)

\* find_task(p) returns c: the first task of the list, hence the newest,
\* that has this tid.
find_task(p, c) ==
    \E i \in 1 .. Len(taskList) :
        /\ taskList[i] = c /\ tid[c] = p
        /\ \A j \in 1 .. i - 1 : tid[taskList[j]] # p

haskid(t, p) ==
    IF p = 0 THEN children[t] # << >>
    ELSE \E c \in Tasks : find_task(p, c) /\ parent[c] = t

\* z is the child that do_wait() reaps now: for pid = 0 the first zombie
\* among the children.
found(t, p, z) ==
    /\ sch.state[z] = "ZOMBIE"
    /\ IF p # 0 THEN find_task(p, z) /\ parent[z] = t
       ELSE \E i \in 1 .. Len(children[t]) :
              /\ children[t][i] = z
              /\ \A j \in 1 .. i - 1 : sch.state[children[t][j]] # "ZOMBIE"

Mut_del_task(z) ==                  \* mutant: stays among the children
    /\ \E i \in 1 .. Len(taskList) :
          taskList[i] = z /\ taskList' = RemoveAt(taskList, i)
    /\ UNCHANGED children

del_task(z) ==
    /\ \E i \in 1 .. Len(taskList) :
          taskList[i] = z /\ taskList' = RemoveAt(taskList, i)
    /\ \E i \in 1 .. Len(children[parent[z]]) :
          /\ children[parent[z]][i] = z
          /\ children' = [children EXCEPT ![parent[z]] = RemoveAt(@, i)]

\* kfree() of the Task_t: the memory may be used for another task.
Released(z) ==
    /\ parent' = [parent EXCEPT ![z] = NULL]
    /\ tid' = [tid EXCEPT ![z] = -1]

WaitReaps(t, p) ==
    \E z \in Tasks :
        /\ found(t, p, z)
        /\ del_task(z) /\ Released(z)
        /\ sch' = setState(sch, z, "FREE")
        /\ pc' = [pc EXCEPT ![t] = "user", ![z] = "none"]
        /\ arg' = [arg EXCEPT ![t] = 0]
        /\ UNCHANGED ptr

Mut_WaitSleeps(t, p) ==             \* mutant: goes to sleep without the reason
    /\ haskid(t, p) /\ ~ \E z \in Tasks : found(t, p, z)
    /\ sch' = schedule(setState(sch, t, "SLEEPING"))
    /\ pc' = [pc EXCEPT ![t] = "wait"]
    /\ arg' = [arg EXCEPT ![t] = p]
    /\ UNCHANGED <<parent, children, taskList, tid, ptr>>

WaitSleeps(t, p) ==
    /\ haskid(t, p) /\ ~ \E z \in Tasks : found(t, p, z)
    /\ sch' = schedule(setWaitState(setState(sch, t, "SLEEPING"), t, "CHILD"))
    /\ pc' = [pc EXCEPT ![t] = "wait"]
    /\ arg' = [arg EXCEPT ![t] = p]
    /\ UNCHANGED <<parent, children, taskList, tid, ptr>>

\* -E_BAD_PROC
WaitFails(t, p) ==
    /\ ~haskid(t, p)
    /\ pc' = [pc EXCEPT ![t] = "user"]
    /\ arg' = [arg EXCEPT ![t] = 0]
    /\ UNCHANGED <<sch, parent, children, taskList, tid, ptr>>

do_wait(t, p) == WaitReaps(t, p) \/ WaitSleeps(t, p) \/ WaitFails(t, p)

sys_wait(t) ==
    /\ Cur = t /\ pc[t] = "user"
    /\ \E p \in 0 .. Cardinality(Tasks) - 1 : do_wait(t, p)

\* schedule() returned: goto repeat.
WaitRepeats(t) ==
    /\ Cur = t /\ pc[t] = "wait"
    /\ do_wait(t, arg[t])

----------------------------------------------------------------------------
(* The init thread: createKernelThread(user_task), then do_wait(0, NULL)   *)
(* and schedule() for as long as it has children.  All of it runs with IF  *)
(* set, so each step below can be followed by a Tick.                      *)

AtInit(loc) == Cur = InitTask /\ pc[InitTask] = loc
GoTo(loc) == pc' = [pc EXCEPT ![InitTask] = loc]

InitCreates(c) ==
    /\ AtInit("create")
    /\ sch.state[c] = "FREE" /\ TaskCount < MaxTasks
    /\ sch' = allocTask(sch, c)
    /\ tid' = [tid EXCEPT ![c] = get_new_tid]
    /\ add_task(InitTask, c)
    /\ ptr' = c
    /\ pc' = [pc EXCEPT ![InitTask] = "wakeup", ![c] = "kthread"]
    /\ UNCHANGED arg

InitWakes ==
    /\ AtInit("wakeup")
    /\ sch' = wakeupTask(sch, ptr)
    /\ ptr' = NULL
    /\ GoTo("repeat")
    /\ UNCHANGED <<parent, children, taskList, tid, arg>>

\* task = CurrentTask->cptr; without a child do_wait() fails, init_task_func
\* returns and kernel_thread_entry_s calls do_exit().
InitRepeats ==
    /\ AtInit("repeat")
    /\ IF children[InitTask] = << >>
         THEN GoTo("exit") /\ UNCHANGED ptr
         ELSE GoTo("scan") /\ ptr' = Head(children[InitTask])
    /\ UNCHANGED <<sch, parent, children, taskList, tid, arg>>

\* A zombie is reaped; otherwise task = task->optr, one place further in
\* the list, and past its end init goes to sleep.
InitScans ==
    /\ AtInit("scan")
    /\ IF sch.state[ptr] = "ZOMBIE"
         THEN GoTo("del_task") /\ UNCHANGED ptr
         ELSE \E i \in 1 .. Len(children[InitTask]) :
                /\ children[InitTask][i] = ptr
                /\ IF i = Len(children[InitTask])
                     THEN ptr' = NULL /\ GoTo("set_state")
                     ELSE ptr' = children[InitTask][i + 1] /\ GoTo("scan")
    /\ UNCHANGED <<sch, parent, children, taskList, tid, arg>>

InitSetsState ==
    /\ AtInit("set_state")
    /\ sch' = setState(sch, InitTask, "SLEEPING")
    /\ GoTo("set_wait")
    /\ UNCHANGED <<parent, children, taskList, tid, arg, ptr>>

InitSetsWaitState ==
    /\ AtInit("set_wait")
    /\ sch' = setWaitState(sch, InitTask, "CHILD")
    /\ GoTo("schedule")
    /\ UNCHANGED <<parent, children, taskList, tid, arg, ptr>>

\* The schedule() of do_wait() and the one in the loop of init_task_func.
InitSchedules ==
    /\ AtInit("schedule") \/ AtInit("next")
    /\ sch' = schedule(sch)
    /\ GoTo("repeat")
    /\ UNCHANGED <<parent, children, taskList, tid, arg, ptr>>

InitDeletes ==
    /\ AtInit("del_task")
    /\ del_task(ptr)
    /\ GoTo("kfree")
    /\ UNCHANGED <<sch, parent, tid, arg, ptr>>

InitFrees ==
    /\ AtInit("kfree")
    /\ sch' = setState(sch, ptr, "FREE")
    /\ Released(ptr)
    /\ pc' = [pc EXCEPT ![InitTask] = "next", ![ptr] = "none"]
    /\ ptr' = NULL
    /\ UNCHANGED <<children, taskList, arg>>

InitStep ==
    \/ \E c \in Users : InitCreates(c)
    \/ InitWakes \/ InitRepeats \/ InitScans
    \/ InitSetsState \/ InitSetsWaitState \/ InitSchedules
    \/ InitDeletes \/ InitFrees
    \/ ThreadExits(InitTask) \/ ThreadExitsCli(InitTask)

\* user_task() enters user mode through KERNEL_EXECVE.  When its arguments
\* cannot be copied the exec returns, and so does user_task(); when the program
\* cannot be opened or loaded do_execve() calls do_exit(), the sys_exit of a
\* "kthread".
user_task(t) ==
    /\ Cur = t /\ pc[t] = "kthread"
    /\ \E loc \in {"user", "exit"} : pc' = [pc EXCEPT ![t] = loc]
    /\ UNCHANGED <<sch, parent, children, taskList, tid, arg, ptr>>

----------------------------------------------------------------------------

Next ==
    \/ Tick \/ cpu_idle \/ InitStep
    \/ \E t \in Users :
          \/ user_task(t) \/ ThreadExits(t) \/ ThreadExitsCli(t)
          \/ sys_exit(t) \/ sys_wait(t) \/ WaitRepeats(t)
          \/ \E c \in Users : sys_fork(t, c)

Spec == Init /\ [][Next]_vars

(* The timer keeps ticking, and code that is on the CPU goes on: a system   *)
(* call until it returns or sleeps, and a thread, which a tick can take off *)
(* the CPU before each of its steps, whenever it gets the CPU again and     *)
(* again: a time slice holds far more code than one step, hence SF.  What a *)
(* program does in user mode is its own business: no fairness for sys_fork, *)
(* sys_exit and sys_wait.                                                   *)
Fairness ==
    /\ WF_vars(Tick)
    /\ SF_vars(InitStep)
    /\ \A t \in Users :
          /\ WF_vars(WaitRepeats(t))
          /\ SF_vars(user_task(t))
          /\ SF_vars(ThreadExits(t)) /\ SF_vars(ThreadExitsCli(t))

FairSpec == Spec /\ Fairness

----------------------------------------------------------------------------
(* Properties.                                                             *)

Allocated == {t \in Tasks : sch.state[t] # "FREE"}

\* The variables have their types; no time slice gets below zero (tickTask).
TypeOK ==
    /\ sch \in SchedState
    /\ parent \in [Tasks -> Tasks \cup {NULL}]
    /\ children \in [Tasks -> Seq(Tasks)]
    /\ taskList \in Seq(Tasks)
    /\ tid \in [Tasks -> Int]
    /\ pc \in [Tasks -> Locations]
    /\ arg \in [Tasks -> Nat]
    /\ ptr \in Tasks \cup {NULL}

(* The inductive invariant behind RunQueueOK and NoPanic.                  *)

\* WT_CHILD is the mark of a task that is asleep: do_exit() never wakes a
\* zombie or a task that runs.
WaitInv == \A t \in Tasks : sch.wait_state[t] = "CHILD" => sch.state[t] = "SLEEPING"

\* The zombies are the tasks in the last part of do_exit().
DeadInv == \A t \in Tasks : sch.state[t] = "ZOMBIE" <=> pc[t] \in {"dead", "exit_cli"}

\* The task on the CPU can run, or it is a kernel thread between an
\* assignment to its state and its call of schedule().
CurInv ==
    \/ sch.state[Cur] = "RUNNABLE"
    \/ Cur = InitTask /\ pc[Cur] \in {"set_wait", "schedule"}
    \/ pc[Cur] = "exit_cli"

ParentInv ==
    /\ \A t \in Tasks \ {Idle} : parent[t] = NULL <=> sch.state[t] = "FREE"
    /\ \A p \in Tasks : \A i \in 1 .. Len(children[p]) : parent[children[p][i]] = p
    /\ \A p \in Tasks : \A i, j \in 1 .. Len(children[p]) :
          children[p][i] = children[p][j] => i = j

\* What init knows between two of its steps, whatever ran in between.
PtrInv ==
    /\ pc[InitTask] = "set_wait" => /\ sch.state[InitTask] = "SLEEPING"
                                    /\ sch.wait_state[InitTask] # "CHILD"
    /\ pc[InitTask] = "wakeup" => ptr \in Tasks /\ sch.state[ptr] = "UNINIT"
    /\ pc[InitTask] \in {"scan", "del_task", "kfree"} =>
          ptr \in Tasks /\ parent[ptr] = InitTask
    /\ pc[InitTask] \in {"del_task", "kfree"} => sch.state[ptr] = "ZOMBIE"
    /\ pc[InitTask] = "kfree" => ~Contains(children[InitTask], ptr)

\* All of it: the wait marks, the zombies, the CPU, the family and what the
\* init thread holds on to while it is preempted inside do_wait().
TaskInv == WaitInv /\ DeadInv /\ CurInv /\ ParentInv /\ PtrInv

\* The run queue stays exact through every fork, exit, wait and preemption,
\* those that hit init between setting its state and calling schedule() too.
RunQueueOK == RunQueueExact(sch)

\* No reachable call of panic(): a zombie is never woken ("try to wake up
\* zombie task!") and the schedule() at the end of do_exit() never returns
\* ("do_exit will not return!").
NoPanic == ~sch.panic /\ pc[Cur] # "dead"

\* Parent pointers and sibling lists agree, and every task but idle has a
\* parent that has not exited: do_exit() hands all orphans to init, so that
\* somebody is left to reap them.
FamilyOK ==
    /\ \A p, c \in Tasks : Contains(children[p], c)
                            <=> parent[c] = p /\ Contains(taskList, c)
    /\ \A c \in Allocated \ {Idle} : parent[c] # NULL /\ pc[parent[c]] # "dead"

\* The init thread exits only as the last task but idle: do_exit() of init
\* with a child left would never leave the loop that gives children to init.
InitLeavesLast ==
    pc[InitTask] \in {"exit", "exit_cli", "dead"} => Allocated \subseteq {Idle, InitTask}

\* When do_wait() has given a Task_t back to the allocator, nothing points to
\* it: no queue, no list, no parent pointer, and it is not the current task.
NoDanglingTask ==
    \A z \in Tasks \ Allocated :
        /\ z # Cur /\ ~Queued(sch, z)
        /\ ~Contains(taskList, z)
        /\ \A p \in Tasks : parent[p] # z /\ ~Contains(children[p], z)

\* A process asleep in the wait system call has no child it could reap: the
\* exit of the child cannot fall between the look at the children and the
\* sleep, because the system call runs with interrupts masked.
NoMissedChild ==
    \A t \in Users :
        pc[t] = "wait" /\ sch.state[t] = "SLEEPING"
            => ~ \E z \in Tasks : found(t, arg[t], z)

\* Round robin does not starve: a runnable task gets the CPU.
RunnableRuns ==
    \A t \in Tasks \ {Idle} : sch.state[t] = "RUNNABLE" ~> Cur = t

\* do_wait(0) of a process that has a zombie child returns.
WaiterReturns ==
    \A t \in Users :
        /\ pc[t] = "wait" /\ arg[t] = 0
        /\ \E c \in Tasks : parent[c] = t /\ sch.state[c] = "ZOMBIE"
        ~> pc[t] # "wait"

\* init_task.c: init is the parent of all orphans and clears them all up.
InitReapsAll ==
    \A z \in Users :
        sch.state[z] = "ZOMBIE" /\ parent[z] = InitTask ~> sch.state[z] = "FREE"

\* task.c: do_wait(pid) with pid # 0 is waitpid(): it fails only if no child
\* of the caller has that pid.
WaitpidFindsChild ==
    [][ \A t \in Users, p \in 1 .. Cardinality(Tasks) - 1 :
          /\ Cur = t /\ (pc[t] = "user" \/ (pc[t] = "wait" /\ arg[t] = p))
          /\ \E c \in Tasks : parent[c] = t /\ tid[c] = p
          => ~WaitFails(t, p) ]_vars

=============================================================================
