---------------------------- MODULE SchedProofs ----------------------------
(***************************************************************************)
(* The functions of sched.c keep the run queue exact, for every set of     *)
(* tasks and every length of the time slice.  The lemmas say what each one *)
(* does to the other fields, so that the modules that compose them can use *)
(* them without looking inside.                                            *)
(***************************************************************************)
EXTENDS Sched, SequenceTheorems, TLAPS

\* The scheduler invariant: types, the exact run queue, and an idle task
\* that can always run.
SchedInv(s) ==
    /\ s \in SchedState
    /\ RunQueueExact(s)
    /\ s.state[Idle] = "RUNNABLE"

\* Between requeueCurrent and runNext nobody is on the CPU: the queue holds
\* every runnable task but idle.
AllQueued(s) ==
    /\ s \in SchedState
    /\ \A i, j \in 1 .. Len(s.run_list) :
          s.run_list[i] = s.run_list[j] => i = j
    /\ \A t \in Tasks : Queued(s, t) <=> s.state[t] = "RUNNABLE" /\ t # Idle
    /\ s.task_num = Len(s.run_list)
    /\ s.state[Idle] = "RUNNABLE"

\* Appending to a sequence adds exactly one element to those in it.
LEMMA AppendElements ==
    ASSUME NEW S, NEW q \in Seq(S), NEW e \in S
    PROVE  /\ Append(q, e) \in Seq(S)
           /\ Len(Append(q, e)) = Len(q) + 1
           /\ \A i \in 1 .. Len(q) : Append(q, e)[i] = q[i]
           /\ Append(q, e)[Len(q) + 1] = e
  OBVIOUS

\* Updating the queue and a time slice keeps the types.
LEMMA UpdateQueue ==
    ASSUME NEW s \in SchedState, NEW t \in Tasks, NEW q \in Seq(Tasks),
           NEW n \in Int, NEW x \in 0 .. MaxTimeSlices
    PROVE  [s EXCEPT !.run_list = q, !.time_slice[t] = x, !.task_num = n]
              \in SchedState
  BY DEF SchedState

\* enqueueRunQueue keeps the types: a slice it leaves alone is in range.
LEMMA EnqueueType ==
    ASSUME NEW s \in SchedState, NEW t \in Tasks
    PROVE  enqueueRunQueue(s, t) \in SchedState
  <1> DEFINE q == Append(s.run_list, t)
             n == s.task_num + 1
             x == IF s.time_slice[t] = 0 \/ s.time_slice[t] > MaxTimeSlices
                    THEN MaxTimeSlices ELSE s.time_slice[t]
  <1>1. x \in 0 .. MaxTimeSlices
    BY SliceAssumption DEF SchedState
  <1>2. q \in Seq(Tasks) /\ n \in Int
    BY AppendElements DEF SchedState
  <1>3. enqueueRunQueue(s, t)
           = [s EXCEPT !.run_list = q, !.time_slice[t] = x, !.task_num = n]
    BY DEF enqueueRunQueue
  <1> HIDE DEF q, n, x
  <1>4. [s EXCEPT !.run_list = q, !.time_slice[t] = x, !.task_num = n] \in SchedState
    BY <1>1, <1>2, UpdateQueue, Zenon
  <1> QED
    BY <1>3, <1>4, Zenon

\* enqueueRunQueue puts a task that is not queued behind the others.
LEMMA EnqueueAdds ==
    ASSUME NEW s \in SchedState, NEW t \in Tasks,
           \A i, j \in 1 .. Len(s.run_list) :
              s.run_list[i] = s.run_list[j] => i = j,
           ~Queued(s, t), s.task_num = Len(s.run_list),
           NEW e, e = enqueueRunQueue(s, t)
    PROVE  /\ e \in SchedState
           /\ \A i, j \in 1 .. Len(e.run_list) :
                 e.run_list[i] = e.run_list[j] => i = j
           /\ \A u \in Tasks : Queued(e, u) <=> Queued(s, u) \/ u = t
           /\ e.task_num = Len(e.run_list)
           /\ e.CurrentTask = s.CurrentTask /\ e.state = s.state
           /\ e.wait_state = s.wait_state /\ e.panic = s.panic
           /\ e.need_resched = s.need_resched
  <1>1. /\ e.run_list = Append(s.run_list, t)
        /\ e.task_num = s.task_num + 1
        /\ e.CurrentTask = s.CurrentTask /\ e.state = s.state
        /\ e.wait_state = s.wait_state /\ e.panic = s.panic
        /\ e.need_resched = s.need_resched
    BY DEF enqueueRunQueue, SchedState
  <1>2. e \in SchedState
    BY EnqueueType
  <1>3. /\ s.run_list \in Seq(Tasks) /\ Len(s.run_list) \in Nat
        /\ Len(e.run_list) = Len(s.run_list) + 1
        /\ \A i \in 1 .. Len(s.run_list) : e.run_list[i] = s.run_list[i]
        /\ e.run_list[Len(s.run_list) + 1] = t
    BY <1>1, AppendElements DEF SchedState
  <1>4. \A i, j \in 1 .. Len(e.run_list) :
           e.run_list[i] = e.run_list[j] => i = j
    BY <1>3, SMTT(30) DEF Queued
  <1>5. \A u \in Tasks : Queued(e, u) <=> Queued(s, u) \/ u = t
    BY <1>3 DEF Queued
  <1> QED
    BY <1>1, <1>2, <1>3, <1>4, <1>5

\* The first half of schedule().
LEMMA RequeueCurrent ==
    ASSUME NEW s, SchedInv(s), NEW r, r = requeueCurrent(s)
    PROVE  /\ AllQueued(r)
           /\ r.state = s.state /\ r.wait_state = s.wait_state
           /\ r.panic = s.panic
  <1> DEFINE a == [s EXCEPT !.need_resched[s.CurrentTask] = FALSE]
  <1>1. /\ a \in SchedState
        /\ a.run_list = s.run_list /\ a.task_num = s.task_num
        /\ a.CurrentTask = s.CurrentTask /\ a.state = s.state
        /\ a.wait_state = s.wait_state /\ a.panic = s.panic
    BY DEF SchedInv, SchedState
  <1>2. \A u \in Tasks : Queued(a, u) <=> Queued(s, u)
    BY <1>1 DEF Queued
  <1>3. s.CurrentTask \in Tasks
    BY DEF SchedInv, SchedState
  <1>4. CASE s.state[s.CurrentTask] = "RUNNABLE" /\ s.CurrentTask # Idle
    <2>1. r = enqueueRunQueue(a, s.CurrentTask)
      BY <1>4 DEF requeueCurrent
    <2>2. ~Queued(a, s.CurrentTask)
      BY <1>2, <1>3 DEF SchedInv, RunQueueExact
    <2>3. /\ \A i, j \in 1 .. Len(a.run_list) :
                a.run_list[i] = a.run_list[j] => i = j
          /\ a.task_num = Len(a.run_list)
      BY <1>1 DEF SchedInv, RunQueueExact
    <2> HIDE DEF a
    <2>4. /\ r \in SchedState
          /\ \A i, j \in 1 .. Len(r.run_list) :
                r.run_list[i] = r.run_list[j] => i = j
          /\ \A u \in Tasks : Queued(r, u) <=> Queued(a, u) \/ u = s.CurrentTask
          /\ r.task_num = Len(r.run_list)
          /\ r.state = a.state
          /\ r.wait_state = a.wait_state /\ r.panic = a.panic
      BY <1>1, <1>3, <2>1, <2>2, <2>3, EnqueueAdds
    <2> QED
      BY <1>1, <1>2, <1>4, <2>4 DEF AllQueued, SchedInv, RunQueueExact
  <1>5. CASE ~(s.state[s.CurrentTask] = "RUNNABLE" /\ s.CurrentTask # Idle)
    <2>1. r = a
      BY <1>5 DEF requeueCurrent
    <2> QED
      BY <1>1, <1>2, <1>5, <2>1, ZenonT(60) DEF AllQueued, SchedInv, RunQueueExact
  <1> QED
    BY <1>4, <1>5

\* The second half of schedule().
LEMMA RunNext ==
    ASSUME NEW s, AllQueued(s), NEW r, r = runNext(s)
    PROVE  /\ SchedInv(r)
           /\ r.state = s.state /\ r.wait_state = s.wait_state
           /\ r.panic = s.panic
           /\ r.state[r.CurrentTask] = "RUNNABLE"
  <1>0. /\ s \in SchedState /\ s.run_list \in Seq(Tasks)
        /\ Len(s.run_list) \in Nat
    BY DEF AllQueued, SchedState
  <1>1. CASE s.run_list = << >>
    <2>1. r = [s EXCEPT !.CurrentTask = Idle]
      BY <1>1 DEF runNext
    <2>2. /\ r \in SchedState /\ r.run_list = s.run_list
          /\ r.task_num = s.task_num /\ r.CurrentTask = Idle
          /\ r.state = s.state /\ r.wait_state = s.wait_state
          /\ r.panic = s.panic
      BY <1>0, <2>1, IdleAssumption DEF SchedState
    <2>3. \A u \in Tasks : Queued(r, u) <=> Queued(s, u)
      BY <2>2 DEF Queued
    <2> QED
      BY <1>0, <2>2, <2>3 DEF AllQueued, SchedInv, RunQueueExact
  <1>2. CASE s.run_list # << >>
    <2>0. Len(s.run_list) > 0
      BY <1>0, <1>2
    <2>1. r = [dequeueRunQueue(s) EXCEPT !.CurrentTask = Head(s.run_list)]
      BY <1>2 DEF runNext
    <2>2. /\ Head(s.run_list) = s.run_list[1]
          /\ s.run_list[1] \in Tasks
          /\ Tail(s.run_list) \in Seq(Tasks)
          /\ Len(Tail(s.run_list)) = Len(s.run_list) - 1
          /\ \A i \in 1 .. Len(s.run_list) - 1 :
                Tail(s.run_list)[i] = s.run_list[i + 1]
      BY <1>0, <1>2, <2>0, HeadTailProperties
    <2>3. /\ r \in SchedState /\ r.run_list = Tail(s.run_list)
          /\ r.task_num = s.task_num - 1 /\ r.CurrentTask = s.run_list[1]
          /\ r.state = s.state /\ r.wait_state = s.wait_state
          /\ r.panic = s.panic
      <3> DEFINE q == Tail(s.run_list)
                 n == s.task_num - 1
                 c == s.run_list[1]
      <3>1. q \in Seq(Tasks) /\ n \in Int /\ c \in Tasks
        BY <1>0, <2>2 DEF SchedState
      <3>2. r = [s EXCEPT !.run_list = q, !.task_num = n, !.CurrentTask = c]
        BY <2>1, <2>2 DEF dequeueRunQueue
      <3>3. n = s.task_num - 1
        OBVIOUS
      <3> HIDE DEF q, n, c
      <3>4. /\ r \in SchedState /\ r.run_list = q
            /\ r.task_num = n /\ r.CurrentTask = c
            /\ r.state = s.state /\ r.wait_state = s.wait_state
            /\ r.panic = s.panic
        BY <1>0, <3>1, <3>2 DEF SchedState
      <3> QED
        BY <3>4 DEF q, n, c
    <2>4. \A i, j \in 1 .. Len(r.run_list) :
             r.run_list[i] = r.run_list[j] => i = j
      BY <1>0, <2>2, <2>3 DEF AllQueued
    <2>5. ASSUME NEW u \in Tasks
          PROVE  Queued(r, u) <=> Queued(s, u) /\ u # s.run_list[1]
      <3>1. ASSUME Queued(r, u) PROVE Queued(s, u) /\ u # s.run_list[1]
        <4>1. PICK k \in 1 .. Len(r.run_list) : r.run_list[k] = u
          BY <3>1 DEF Queued
        <4>2. k + 1 \in 1 .. Len(s.run_list) /\ k + 1 # 1 /\ 1 \in 1 .. Len(s.run_list)
          BY <1>0, <2>0, <2>2, <2>3, <4>1
        <4>3. s.run_list[k + 1] = u
          BY <1>0, <2>2, <2>3, <4>1, <4>2
        <4> QED
          BY <4>2, <4>3 DEF Queued, AllQueued
      <3>2. ASSUME Queued(s, u), u # s.run_list[1] PROVE Queued(r, u)
        <4>1. PICK k \in 1 .. Len(s.run_list) : s.run_list[k] = u
          BY <3>2 DEF Queued
        <4>2. k - 1 \in 1 .. Len(r.run_list) /\ (k - 1) + 1 = k
          BY <1>0, <2>2, <2>3, <3>2, <4>1
        <4>3. r.run_list[k - 1] = u
          BY <1>0, <2>2, <2>3, <4>1, <4>2
        <4> QED
          BY <4>2, <4>3 DEF Queued
      <3> QED
        BY <3>1, <3>2
    <2>6. Queued(s, s.run_list[1])
      BY <1>0, <2>0 DEF Queued
    <2>7. /\ s.state[s.run_list[1]] = "RUNNABLE" /\ s.run_list[1] # Idle
          /\ r.task_num = Len(r.run_list)
      BY <1>0, <2>2, <2>3, <2>6 DEF AllQueued
    <2>8. r.state[Idle] = "RUNNABLE"
      BY <2>3 DEF AllQueued
    <2>9. \A u \in Tasks : Queued(r, u) <=> /\ r.state[u] = "RUNNABLE"
                                            /\ u # r.CurrentTask
                                            /\ u # Idle
      BY <2>3, <2>5 DEF AllQueued
    <2> QED
      BY <2>3, <2>4, <2>7, <2>8, <2>9 DEF SchedInv, RunQueueExact
  <1> QED
    BY <1>1, <1>2

\* schedule() (sched.c) keeps the scheduler invariant whatever the state of
\* the caller is, and gives the CPU to a task that can run.
THEOREM ScheduleCorrect ==
    ASSUME NEW s, SchedInv(s)
    PROVE  /\ SchedInv(schedule(s))
           /\ schedule(s).state = s.state
           /\ schedule(s).wait_state = s.wait_state
           /\ schedule(s).panic = s.panic
           /\ schedule(s).state[schedule(s).CurrentTask] = "RUNNABLE"
  <1> DEFINE q == requeueCurrent(s)
             r == runNext(q)
  <1>1. /\ AllQueued(q)
        /\ q.state = s.state /\ q.wait_state = s.wait_state
        /\ q.panic = s.panic
    BY RequeueCurrent
  <1>2. schedule(s) = r
    BY DEF schedule
  <1> HIDE DEF q
  <1>3. /\ SchedInv(r)
        /\ r.state = q.state /\ r.wait_state = q.wait_state
        /\ r.panic = q.panic
        /\ r.state[r.CurrentTask] = "RUNNABLE"
    BY <1>1, RunNext
  <1> HIDE DEF r
  <1> QED
    BY <1>1, <1>2, <1>3

\* What an assignment to state or wait_state changes.
LEMMA SetStateFields ==
    ASSUME NEW s \in SchedState, NEW t \in Tasks, NEW x \in States
    PROVE  /\ setState(s, t, x) \in SchedState
           /\ setState(s, t, x).run_list = s.run_list
           /\ setState(s, t, x).task_num = s.task_num
           /\ setState(s, t, x).CurrentTask = s.CurrentTask
           /\ setState(s, t, x).panic = s.panic
           /\ setState(s, t, x).wait_state = s.wait_state
           /\ setState(s, t, x).state = [s.state EXCEPT ![t] = x]
  BY DEF SchedState, setState

LEMMA SetWaitStateFields ==
    ASSUME NEW s \in SchedState, NEW t \in Tasks, NEW w \in WaitStates
    PROVE  /\ setWaitState(s, t, w) \in SchedState
           /\ setWaitState(s, t, w).run_list = s.run_list
           /\ setWaitState(s, t, w).task_num = s.task_num
           /\ setWaitState(s, t, w).CurrentTask = s.CurrentTask
           /\ setWaitState(s, t, w).panic = s.panic
           /\ setWaitState(s, t, w).state = s.state
           /\ setWaitState(s, t, w).wait_state = [s.wait_state EXCEPT ![t] = w]
  BY DEF SchedState, setWaitState

\* wakeupTask() (sched.c) of a task that is no zombie keeps the scheduler
\* invariant and makes that task, and no other, runnable; it does not panic.
THEOREM WakeupCorrect ==
    ASSUME NEW s, SchedInv(s), NEW t \in Tasks, s.state[t] # "ZOMBIE"
    PROVE  /\ SchedInv(wakeupTask(s, t))
           /\ wakeupTask(s, t).CurrentTask = s.CurrentTask
           /\ wakeupTask(s, t).panic = s.panic
           /\ wakeupTask(s, t).state = [s.state EXCEPT ![t] = "RUNNABLE"]
           /\ wakeupTask(s, t).wait_state =
                 IF s.state[t] = "RUNNABLE" THEN s.wait_state
                 ELSE [s.wait_state EXCEPT ![t] = "NOTWAIT"]
  <1> SUFFICES ASSUME NEW r, r = wakeupTask(s, t)
               PROVE  /\ SchedInv(r)
                      /\ r.CurrentTask = s.CurrentTask
                      /\ r.panic = s.panic
                      /\ r.state = [s.state EXCEPT ![t] = "RUNNABLE"]
                      /\ r.wait_state =
                            IF s.state[t] = "RUNNABLE" THEN s.wait_state
                            ELSE [s.wait_state EXCEPT ![t] = "NOTWAIT"]
    OBVIOUS
  <1>0. s \in SchedState /\ r = makeRunnable(s, t)
    BY DEF SchedInv, wakeupTask
  <1>1. CASE s.state[t] = "RUNNABLE"
    <2>1. r = s
      BY <1>0, <1>1 DEF makeRunnable
    <2> QED
      BY <1>0, <1>1, <2>1 DEF SchedState
  <1>2. CASE s.state[t] # "RUNNABLE"
    <2> DEFINE v == setState(s, t, "RUNNABLE")
               w == setWaitState(v, t, "NOTWAIT")
    <2>0. /\ v \in SchedState
          /\ v.run_list = s.run_list /\ v.task_num = s.task_num
          /\ v.CurrentTask = s.CurrentTask /\ v.panic = s.panic
          /\ v.wait_state = s.wait_state
          /\ v.state = [s.state EXCEPT ![t] = "RUNNABLE"]
      BY <1>0, SetStateFields DEF States
    <2>1. /\ w \in SchedState
          /\ w.run_list = v.run_list /\ w.task_num = v.task_num
          /\ w.CurrentTask = v.CurrentTask /\ w.panic = v.panic
          /\ w.state = v.state
          /\ w.wait_state = [v.wait_state EXCEPT ![t] = "NOTWAIT"]
      <3> HIDE DEF v
      <3> QED
        BY <2>0, SetWaitStateFields DEF WaitStates
    <2>2. /\ w.run_list = s.run_list /\ w.task_num = s.task_num
          /\ w.CurrentTask = s.CurrentTask /\ w.panic = s.panic
          /\ w.state = [s.state EXCEPT ![t] = "RUNNABLE"]
          /\ w.wait_state = [s.wait_state EXCEPT ![t] = "NOTWAIT"]
      BY <2>0, <2>1
    <2>3. r = IF t # s.CurrentTask /\ t # Idle THEN enqueueRunQueue(w, t) ELSE w
      BY <1>0, <1>2 DEF makeRunnable
    <2>4. /\ \A u \in Tasks : Queued(w, u) <=> Queued(s, u)
          /\ ~Queued(w, t)
      BY <1>2, <2>2 DEF Queued, SchedInv, RunQueueExact
    <2>5. /\ \A i, j \in 1 .. Len(w.run_list) :
                w.run_list[i] = w.run_list[j] => i = j
          /\ w.task_num = Len(w.run_list)
      BY <2>2 DEF SchedInv, RunQueueExact
    <2>6. w.state[t] = "RUNNABLE" /\ \A u \in Tasks \ {t} : w.state[u] = s.state[u]
      BY <1>0, <2>2 DEF SchedState
    <2> HIDE DEF v, w
    <2>7. CASE t # s.CurrentTask /\ t # Idle
      <3>1. r = enqueueRunQueue(w, t)
        BY <2>3, <2>7
      <3>2. /\ r \in SchedState
            /\ \A i, j \in 1 .. Len(r.run_list) :
                  r.run_list[i] = r.run_list[j] => i = j
            /\ \A u \in Tasks : Queued(r, u) <=> Queued(w, u) \/ u = t
            /\ r.task_num = Len(r.run_list)
            /\ r.CurrentTask = w.CurrentTask /\ r.state = w.state
            /\ r.wait_state = w.wait_state /\ r.panic = w.panic
        BY <2>1, <2>4, <2>5, <3>1, EnqueueAdds
      <3>3. \A u \in Tasks : Queued(r, u) <=> /\ r.state[u] = "RUNNABLE"
                                              /\ u # r.CurrentTask
                                              /\ u # Idle
        BY <2>2, <2>4, <2>6, <2>7, <3>2 DEF SchedInv, RunQueueExact
      <3>4. r.state[Idle] = "RUNNABLE"
        BY <2>6, <3>2, IdleAssumption DEF SchedInv
      <3> QED
        BY <1>2, <2>2, <3>2, <3>3, <3>4 DEF SchedInv, RunQueueExact
    <2>8. CASE ~(t # s.CurrentTask /\ t # Idle)
      <3>1. r = w
        BY <2>3, <2>8
      <3>2. \A u \in Tasks : Queued(w, u) <=> /\ w.state[u] = "RUNNABLE"
                                              /\ u # w.CurrentTask
                                              /\ u # Idle
        BY <2>2, <2>4, <2>6, <2>8 DEF SchedInv, RunQueueExact
      <3>3. w.state[Idle] = "RUNNABLE"
        BY <2>6, IdleAssumption DEF SchedInv
      <3>4. SchedInv(w)
        BY <2>1, <2>5, <3>2, <3>3 DEF SchedInv, RunQueueExact
      <3> QED
        BY <1>2, <2>2, <3>1, <3>4
    <2> QED
      BY <2>7, <2>8
  <1> QED
    BY <1>1, <1>2

\* Updating a slice and a need_resched flag keeps the types.
LEMMA UpdateSlice ==
    ASSUME NEW s \in SchedState, NEW t \in Tasks,
           NEW x \in 0 .. MaxTimeSlices, NEW b \in BOOLEAN
    PROVE  [s EXCEPT !.time_slice[t] = x, !.need_resched[t] = b] \in SchedState
  BY DEF SchedState

\* A tick changes the slice and need_resched of the current task only.
LEMMA TickTask ==
    ASSUME NEW s \in SchedState, NEW t \in Tasks,
           NEW r, r = tickTask(s, t)
    PROVE  /\ r \in SchedState
           /\ r.run_list = s.run_list /\ r.task_num = s.task_num
           /\ r.CurrentTask = s.CurrentTask /\ r.state = s.state
           /\ r.wait_state = s.wait_state /\ r.panic = s.panic
  <1> DEFINE x == IF s.time_slice[t] > 0 THEN s.time_slice[t] - 1 ELSE 0
             b == s.need_resched[t] \/ x = 0
  <1>1. x \in 0 .. MaxTimeSlices
    BY SliceAssumption DEF SchedState
  <1>2. r = [s EXCEPT !.time_slice[t] = x, !.need_resched[t] = b]
    BY DEF tickTask
  <1>3. b \in BOOLEAN
    OBVIOUS
  <1> HIDE DEF x, b
  <1>4. [s EXCEPT !.time_slice[t] = x, !.need_resched[t] = b] \in SchedState
    BY <1>1, <1>3, UpdateSlice, Zenon
  <1>5. r \in SchedState
    BY <1>2, <1>4, Zenon
  <1> QED
    BY <1>2, <1>5 DEF SchedState

\* timerCallBack() (timer.c) keeps the scheduler invariant whatever it
\* interrupts, and changes no state and no wait_state.
THEOREM TimerCorrect ==
    ASSUME NEW s, SchedInv(s)
    PROVE  /\ SchedInv(timerCallBack(s))
           /\ timerCallBack(s).state = s.state
           /\ timerCallBack(s).wait_state = s.wait_state
           /\ timerCallBack(s).panic = s.panic
           /\ \/ timerCallBack(s).CurrentTask = s.CurrentTask
              \/ timerCallBack(s).state[timerCallBack(s).CurrentTask] = "RUNNABLE"
  <1> DEFINE a == tickTask(s, s.CurrentTask)
  <1>1. /\ a \in SchedState
        /\ a.run_list = s.run_list /\ a.task_num = s.task_num
        /\ a.CurrentTask = s.CurrentTask /\ a.state = s.state
        /\ a.wait_state = s.wait_state /\ a.panic = s.panic
    <2>1. s \in SchedState /\ s.CurrentTask \in Tasks
      BY DEF SchedInv, SchedState
    <2> QED
      BY <2>1, TickTask
  <1> HIDE DEF a
  <1>2. SchedInv(a)
    BY <1>1 DEF SchedInv, RunQueueExact, Queued
  <1>3. /\ SchedInv(schedule(a))
        /\ schedule(a).state = a.state
        /\ schedule(a).wait_state = a.wait_state
        /\ schedule(a).panic = a.panic
        /\ schedule(a).state[schedule(a).CurrentTask] = "RUNNABLE"
    BY <1>2, ScheduleCorrect
  <1>4. timerCallBack(s) = schedule(a) \/ timerCallBack(s) = a
    BY DEF timerCallBack, a
  <1> QED
    BY <1>1, <1>2, <1>3, <1>4

\* A task that is not queued may be given any state that is not RUNNABLE.
LEMMA SetStateKeeps ==
    ASSUME NEW s, SchedInv(s), NEW t \in Tasks, t # Idle, NEW x \in States,
           x # "RUNNABLE", t = s.CurrentTask \/ s.state[t] # "RUNNABLE"
    PROVE  SchedInv(setState(s, t, x))
  <1> SUFFICES ASSUME NEW r, r = setState(s, t, x) PROVE SchedInv(r)
    OBVIOUS
  <1>1. s \in SchedState
    BY DEF SchedInv
  <1>2. /\ r \in SchedState
        /\ r.run_list = s.run_list /\ r.task_num = s.task_num
        /\ r.CurrentTask = s.CurrentTask
        /\ r.state = [s.state EXCEPT ![t] = x]
    BY <1>1, SetStateFields
  <1>3. \A u \in Tasks : Queued(r, u) <=> Queued(s, u)
    BY <1>2 DEF Queued
  <1>4. r.state[t] = x /\ \A u \in Tasks \ {t} : r.state[u] = s.state[u]
    BY <1>1, <1>2 DEF SchedState
  <1>5. \A u \in Tasks : Queued(r, u) <=> /\ r.state[u] = "RUNNABLE"
                                          /\ u # r.CurrentTask
                                          /\ u # Idle
    BY <1>2, <1>3, <1>4 DEF SchedInv, RunQueueExact
  <1>6. r.state[Idle] = "RUNNABLE"
    BY <1>4, IdleAssumption DEF SchedInv
  <1>7. /\ \A i, j \in 1 .. Len(r.run_list) :
              r.run_list[i] = r.run_list[j] => i = j
        /\ r.task_num = Len(r.run_list)
    BY <1>2 DEF SchedInv, RunQueueExact
  <1> QED
    BY <1>2, <1>5, <1>6, <1>7 DEF SchedInv, RunQueueExact

\* The other fields do not matter to the run queue.
LEMMA SameQueue ==
    ASSUME NEW s, SchedInv(s), NEW r \in SchedState,
           r.run_list = s.run_list, r.task_num = s.task_num,
           r.CurrentTask = s.CurrentTask, r.state = s.state
    PROVE  SchedInv(r)
  BY DEF SchedInv, RunQueueExact, Queued

\* An assignment to wait_state alone.
LEMMA SetWaitStateKeeps ==
    ASSUME NEW s, SchedInv(s), NEW t \in Tasks, NEW w \in WaitStates
    PROVE  SchedInv(setWaitState(s, t, w))
  <1> SUFFICES ASSUME NEW r, r = setWaitState(s, t, w) PROVE SchedInv(r)
    OBVIOUS
  <1>1. s \in SchedState
    BY DEF SchedInv
  <1>2. /\ r \in SchedState
        /\ r.run_list = s.run_list /\ r.task_num = s.task_num
        /\ r.CurrentTask = s.CurrentTask /\ r.state = s.state
    BY <1>1, SetWaitStateFields
  <1> QED
    BY <1>2, SameQueue

=============================================================================
