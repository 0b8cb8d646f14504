-------------------------------- MODULE Wait --------------------------------
(***************************************************************************)
(* The wait queues of kern/krnl/sync/wait.c, used by the semaphores and by *)
(* the keyboard device.                                                    *)
(*                                                                         *)
(* A Wait_t lives on the stack of the task that waits, one for each wait,  *)
(* so the task stands for its Wait_t.  A queue is a record:                *)
(*   list    the list of Wait_t that starts at the head, first waiter first *)
(*   flags   Wait_t.flags of the waits of each task                        *)
(* The callers hold interrupts masked around every function below.         *)
(***************************************************************************)
EXTENDS Sched, SequencesExt

WakeupFlags == {"INTERRUPTED", "KSEM", "KBD"}

WaitQueue == [list : Seq(Tasks), flags : [Tasks -> WakeupFlags]]

EmptyQueue == [list |-> << >>, flags |-> [t \in Tasks |-> "INTERRUPTED"]]

waitlistIsInList(q, t) == Contains(q.list, t)

Mut_waitlistAddHead(q, t) ==        \* mutant: the newest waiter goes first
    [q EXCEPT !.list = <<t>> \o @, !.flags[t] = "INTERRUPTED"]

\* waitInit() and waitlistAdd() of the current task; the sleep that
\* waitAddCurrent() also is, is waitSleep.
waitAdd(q, t) == [q EXCEPT !.list = Append(@, t), !.flags[t] = "INTERRUPTED"]

waitSleep(s, reason) ==
    setWaitState(setState(s, s.CurrentTask, "SLEEPING"), s.CurrentTask, reason)

waitDelCurrent(q, t) ==
    IF waitlistIsInList(q, t) THEN [q EXCEPT !.list = RemoveFirst(@, t)] ELSE q

Mut_wakeupKeepsWait(q, wakeup_flags) ==  \* mutant: del = FALSE
    [q EXCEPT !.flags[Head(q.list)] = wakeup_flags]

\* wakeupWait(head, first, wakeup_flags, TRUE) without its wakeupTask().
wakeupWait(q, wakeup_flags) ==
    [q EXCEPT !.list = Tail(@), !.flags[Head(q.list)] = wakeup_flags]

=============================================================================
