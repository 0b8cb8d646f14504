----------------------------- MODULE SemProofs ------------------------------
(***************************************************************************)
(* For every number of kernel threads and processes and every initial      *)
(* value: a semaphore of sem.c loses no sleeper and no unit, and it is a   *)
(* first-in first-out semaphore.                                           *)
(***************************************************************************)
EXTENDS Sem, SchedProofs, FiniteSetTheorems

Distinct(q) == \A i, j \in 1 .. Len(q) : q[i] = q[j] => i = j

InDown(t) == pc[t] \in {"schedule", "woken"}

\* The queue of the semaphore: each waiter once, and nobody but the tasks in
\* down() that no up() has woken.
WaitInv ==
    /\ Distinct(wait_queue.list)
    /\ \A t \in Tasks :
          waitlistIsInList(wait_queue, t)
             <=> t # Idle /\ InDown(t) /\ wait_queue.flags[t] = "INTERRUPTED"
    /\ \A t \in Tasks : wait_queue.flags[t] \in {"INTERRUPTED", "KSEM"}

\* A worker sleeps exactly while it is in the queue; one that has called
\* schedule() in down() does not get the CPU before it is woken.
StateInv ==
    /\ \A t \in Workers :
          sch.state[t] = IF waitlistIsInList(wait_queue, t) THEN "SLEEPING" ELSE "RUNNABLE"
    /\ pc[Cur] = "woken" => sch.state[Cur] = "RUNNABLE"

SemInv == TypeOK /\ SchedInv(sch) /\ ~sch.panic /\ WaitInv /\ StateInv

----------------------------------------------------------------------------
(* Sequences without repetition.                                           *)

\* A new element at the end of a sequence without repetition.
LEMMA AppendDistinct ==
    ASSUME NEW S, NEW q \in Seq(S), NEW e \in S, Distinct(q), ~Contains(q, e)
    PROVE  /\ Append(q, e) \in Seq(S) /\ Distinct(Append(q, e))
           /\ \A x : Contains(Append(q, e), x) <=> Contains(q, x) \/ x = e
  <1> DEFINE r == Append(q, e)
  <1>1. /\ r \in Seq(S) /\ Len(q) \in Nat
        /\ Len(r) = Len(q) + 1
        /\ \A i \in 1 .. Len(q) : r[i] = q[i]
        /\ r[Len(q) + 1] = e
    BY AppendElements
  <1> HIDE DEF r
  <1>2. Distinct(r)
    BY <1>1 DEF Distinct, Contains
  <1>3. \A x : Contains(r, x) <=> Contains(q, x) \/ x = e
    BY <1>1 DEF Contains
  <1> QED
    BY <1>1, <1>2, <1>3 DEF r

\* The first element taken off a sequence without repetition.
LEMMA TailDistinct ==
    ASSUME NEW S, NEW q \in Seq(S), q # << >>, Distinct(q)
    PROVE  /\ Head(q) \in S /\ Contains(q, Head(q))
           /\ Tail(q) \in Seq(S) /\ Distinct(Tail(q))
           /\ \A x : Contains(Tail(q), x) <=> Contains(q, x) /\ x # Head(q)
  <1> DEFINE r == Tail(q)
             h == Head(q)
  <1>0. Len(q) \in Nat /\ Len(q) > 0
    OBVIOUS
  <1>1. /\ r \in Seq(S) /\ Len(r) = Len(q) - 1
        /\ \A i \in 1 .. Len(q) - 1 : r[i] = q[i + 1]
        /\ h = q[1] /\ h \in S
    BY <1>0, HeadTailProperties
  <1> HIDE DEF r, h
  <1>2. Distinct(r)
    BY <1>0, <1>1 DEF Distinct
  <1>3. Contains(q, h)
    BY <1>0, <1>1 DEF Contains
  <1>4. ASSUME NEW x PROVE Contains(r, x) => Contains(q, x) /\ x # h
    <2> SUFFICES ASSUME NEW i \in 1 .. Len(r), r[i] = x
                 PROVE  Contains(q, x) /\ x # h
      BY DEF Contains
    <2>1. i + 1 \in 1 .. Len(q) /\ 1 \in 1 .. Len(q) /\ i + 1 # 1 /\ q[i + 1] = x
      BY <1>0, <1>1
    <2> QED
      BY <1>1, <2>1 DEF Contains, Distinct
  <1>5. ASSUME NEW x PROVE Contains(q, x) /\ x # h => Contains(r, x)
    <2> SUFFICES ASSUME NEW i \in 1 .. Len(q), q[i] = x, x # h
                 PROVE  Contains(r, x)
      BY DEF Contains
    <2>1. i - 1 \in 1 .. Len(r) /\ (i - 1) + 1 = i
      BY <1>0, <1>1
    <2>2. r[i - 1] = x
      BY <1>0, <1>1, <2>1
    <2> QED
      BY <2>1, <2>2 DEF Contains
  <1> QED
    BY <1>1, <1>2, <1>3, <1>4, <1>5 DEF r, h

\* A sequence of Cardinality(S) different elements of S holds all of S.
LEMMA OrderOf ==
    ASSUME NEW S, IsFiniteSet(S), NEW q \in SetToSeqs(S)
    PROVE  /\ q \in Seq(S) /\ Distinct(q)
           /\ \A x \in S : \E i \in 1 .. Len(q) : q[i] = x
  <1> DEFINE n == Cardinality(S)
  <1>1. n \in Nat
    BY FS_CardinalityType
  <1>2. q \in [1 .. n -> S] /\ \A i, j \in 1 .. n : i # j => q[i] # q[j]
    BY DEF SetToSeqs
  <1> HIDE DEF n
  <1>3. q \in Seq(S) /\ Len(q) = n
    BY <1>1, <1>2
  <1>4. q \in Injection(1 .. n, S)
    BY <1>2 DEF Injection, IsInjective
  <1>5. Cardinality(1 .. n) = n
    BY <1>1, FS_Interval
  <1>6. q \in Surjection(1 .. n, S)
    BY <1>4, <1>5, FS_Injection DEF n
  <1> QED
    BY <1>2, <1>3, <1>6 DEF Surjection, Distinct

----------------------------------------------------------------------------
(* Scheduler states.                                                       *)

\* waitAddCurrent() puts the current task to sleep.
LEMMA WaitSleep ==
    ASSUME NEW s, SchedInv(s), s.CurrentTask # Idle, NEW r, r = waitSleep(s, "KSEM")
    PROVE  /\ SchedInv(r)
           /\ r.CurrentTask = s.CurrentTask /\ r.panic = s.panic
           /\ r.state = [s.state EXCEPT ![s.CurrentTask] = "SLEEPING"]
  <1> DEFINE c == s.CurrentTask
             v == setState(s, c, "SLEEPING")
  <1>1. s \in SchedState /\ c \in Tasks /\ "SLEEPING" \in States /\ "KSEM" \in WaitStates
    BY DEF SchedInv, SchedState, States, WaitStates
  <1>2. /\ SchedInv(v) /\ v \in SchedState
        /\ v.CurrentTask = c /\ v.panic = s.panic
        /\ v.state = [s.state EXCEPT ![c] = "SLEEPING"]
    BY <1>1, SetStateKeeps, SetStateFields
  <1> DEFINE w == setWaitState(v, c, "KSEM")
  <1>3. r = w
    BY DEF waitSleep
  <1> HIDE DEF v, c
  <1>4. /\ SchedInv(w)
        /\ w.CurrentTask = v.CurrentTask /\ w.panic = v.panic /\ w.state = v.state
    BY <1>1, <1>2, SetWaitStateKeeps, SetWaitStateFields DEF WaitStates
  <1> HIDE DEF w
  <1> QED
    BY <1>2, <1>3, <1>4 DEF c

----------------------------------------------------------------------------
(* The invariant, action by action.                                        *)

\* The tasks have been woken, nobody waits.
LEMMA InitSem == Init => SemInv
  <1> SUFFICES ASSUME Init PROVE SemInv
    OBVIOUS
  <1>1. PICK q \in SetToSeqs(Workers) :
           sch = [CurrentTask |-> Idle, run_list |-> q, task_num |-> Len(q),
                  state |-> [t \in Tasks |-> "RUNNABLE"],
                  wait_state |-> [t \in Tasks |-> "NOTWAIT"],
                  time_slice |-> [t \in Tasks |-> IF t = Idle THEN 0 ELSE MaxTimeSlices],
                  need_resched |-> [t \in Tasks |-> t = Idle], panic |-> FALSE]
    BY DEF Init
  <1>2. IsFiniteSet(Workers)
    BY TasksAssumption, FS_RemoveElement DEF Workers
  <1>3. /\ q \in Seq(Workers) /\ Distinct(q)
        /\ \A x \in Workers : \E i \in 1 .. Len(q) : q[i] = x
    BY <1>2, OrderOf
  <1>4. q \in Seq(Tasks) /\ Len(q) \in Nat /\ \A i \in 1 .. Len(q) : q[i] \in Workers
    BY <1>3 DEF Workers
  <1>5. sch \in SchedState
    BY <1>1, <1>4, IdleAssumption, SliceAssumption DEF SchedState, States, WaitStates
  <1>6. SchedInv(sch)
    BY <1>1, <1>3, <1>4, <1>5, IdleAssumption
       DEF SchedInv, RunQueueExact, Queued, Distinct, Workers
  <1>7. /\ value = Value /\ wait_queue = EmptyQueue /\ pc = [t \in Tasks |-> "out"]
    BY DEF Init
  <1>8. TypeOK
    BY <1>5, <1>7, ValueAssumption
       DEF TypeOK, EmptyQueue, WaitQueue, WakeupFlags, Locations
  <1>9. WaitInv
    BY <1>7 DEF WaitInv, Distinct, EmptyQueue, waitlistIsInList, Contains, InDown
  <1>10. StateInv
    BY <1>1, <1>7, IdleAssumption
       DEF StateInv, EmptyQueue, waitlistIsInList, Contains, Workers, Cur
  <1> QED
    BY <1>1, <1>6, <1>8, <1>9, <1>10 DEF SemInv

\* A tick may take the CPU from a thread that has just entered the queue.
LEMMA TickSem == SemInv /\ Tick => SemInv'
  <1> SUFFICES ASSUME SemInv, Tick PROVE SemInv'
    OBVIOUS
  <1>1. sch' = timerCallBack(sch) /\ UNCHANGED <<value, wait_queue, pc>>
    BY DEF Tick
  <1>2. /\ SchedInv(sch') /\ sch'.state = sch.state /\ sch'.panic = sch.panic
        /\ \/ sch'.CurrentTask = sch.CurrentTask
           \/ sch'.state[sch'.CurrentTask] = "RUNNABLE"
    BY <1>1, TimerCorrect DEF SemInv
  <1>3. TypeOK'
    BY <1>1, <1>2 DEF SemInv, TypeOK, SchedInv
  <1>4. WaitInv'
    BY <1>1 DEF SemInv, WaitInv, InDown
  <1>5. StateInv'
    BY <1>1, <1>2 DEF SemInv, StateInv, Cur
  <1> QED
    BY <1>2, <1>3, <1>4, <1>5 DEF SemInv

LEMMA TakesSem == \A t \in Workers : SemInv /\ DownTakes(t) => SemInv'
  <1> SUFFICES ASSUME NEW t \in Workers, SemInv, DownTakes(t) PROVE SemInv'
    OBVIOUS
  <1>1. /\ pc[t] = "out" /\ value' = value - 1 /\ pc' = [pc EXCEPT ![t] = "in"]
        /\ sch' = sch /\ wait_queue' = wait_queue /\ Cur = t
    BY DEF DownTakes
  <1>2. TypeOK'
    <2>1. pc' \in [Tasks -> Locations]
      BY <1>1 DEF SemInv, TypeOK, Locations
    <2> QED
      BY <1>1, <2>1 DEF SemInv, TypeOK
  <1>3. pc'[t] = "in" /\ \A u \in Tasks \ {t} : pc'[u] = pc[u]
    BY <1>1 DEF SemInv, TypeOK, Workers
  <1>4. WaitInv'
    BY <1>1, <1>3 DEF SemInv, WaitInv, InDown
  <1>5. StateInv'
    BY <1>1, <1>3 DEF SemInv, StateInv, Cur
  <1> QED
    BY <1>1, <1>2, <1>4, <1>5 DEF SemInv

LEMMA WaitsSem == \A t \in Workers : SemInv /\ DownWaits(t) => SemInv'
  <1> SUFFICES ASSUME NEW t \in Workers, SemInv, DownWaits(t) PROVE SemInv'
    OBVIOUS
  <1> DEFINE s == waitSleep(sch, "KSEM")
  <1>1. /\ sch.CurrentTask = t /\ pc[t] = "out" /\ value' = value
        /\ wait_queue' = waitAdd(wait_queue, t)
        /\ \/ sch' = s /\ pc' = [pc EXCEPT ![t] = "schedule"]
           \/ sch' = schedule(s) /\ pc' = [pc EXCEPT ![t] = "woken"]
    BY DEF DownWaits, Cur
  <1>2. t \in Tasks /\ t # Idle /\ SchedInv(sch) /\ sch \in SchedState
    BY DEF Workers, SemInv, SchedInv
  <1>3. /\ SchedInv(s) /\ s.CurrentTask = t /\ s.panic = sch.panic
        /\ s.state = [sch.state EXCEPT ![t] = "SLEEPING"]
    BY <1>1, <1>2, WaitSleep
  <1> HIDE DEF s
  <1>4. /\ SchedInv(schedule(s)) /\ schedule(s).state = s.state
        /\ schedule(s).panic = s.panic
        /\ schedule(s).state[schedule(s).CurrentTask] = "RUNNABLE"
    BY <1>3, ScheduleCorrect
  <1>5. /\ SchedInv(sch') /\ sch'.state = [sch.state EXCEPT ![t] = "SLEEPING"]
        /\ sch'.panic = sch.panic /\ sch' \in SchedState
    BY <1>1, <1>3, <1>4 DEF SchedInv
  <1>6. /\ wait_queue \in WaitQueue /\ wait_queue.list \in Seq(Tasks)
        /\ wait_queue.flags \in [Tasks -> WakeupFlags]
    BY DEF SemInv, TypeOK, WaitQueue
  <1>7. /\ wait_queue'.list = Append(wait_queue.list, t)
        /\ wait_queue'.flags = [wait_queue.flags EXCEPT ![t] = "INTERRUPTED"]
    BY <1>1, <1>6 DEF waitAdd, WaitQueue
  <1>8. Distinct(wait_queue.list) /\ ~Contains(wait_queue.list, t)
    BY <1>1, <1>2 DEF SemInv, WaitInv, waitlistIsInList, InDown
  <1>9. /\ wait_queue'.list \in Seq(Tasks) /\ Distinct(wait_queue'.list)
        /\ \A x : Contains(wait_queue'.list, x) <=> Contains(wait_queue.list, x) \/ x = t
    BY <1>2, <1>6, <1>7, <1>8, AppendDistinct
  <1>10. /\ wait_queue'.flags[t] = "INTERRUPTED"
         /\ \A u \in Tasks \ {t} : wait_queue'.flags[u] = wait_queue.flags[u]
    BY <1>2, <1>6, <1>7
  <1>11. wait_queue' \in WaitQueue
    <2>1. wait_queue' = [wait_queue EXCEPT !.list = wait_queue'.list,
                                           !.flags = wait_queue'.flags]
      BY <1>1, <1>6 DEF waitAdd, WaitQueue
    <2>2. wait_queue'.flags \in [Tasks -> WakeupFlags]
      BY <1>6, <1>7 DEF WakeupFlags
    <2> QED
      BY <1>6, <1>9, <2>1, <2>2 DEF WaitQueue
  <1>12. /\ pc' \in [Tasks -> Locations]
         /\ pc'[t] \in {"schedule", "woken"}
         /\ \A u \in Tasks \ {t} : pc'[u] = pc[u]
    BY <1>1, <1>2 DEF SemInv, TypeOK, Locations
  <1>13. TypeOK'
    BY <1>1, <1>5, <1>11, <1>12 DEF SemInv, TypeOK
  <1>14. WaitInv'
    BY <1>2, <1>9, <1>10, <1>12 DEF SemInv, WaitInv, waitlistIsInList, InDown
  <1>15. /\ sch'.state[t] = "SLEEPING"
         /\ \A u \in Tasks \ {t} : sch'.state[u] = sch.state[u]
    BY <1>2, <1>5 DEF SchedState
  <1>16. pc'[Cur'] = "woken" => sch'.state[Cur'] = "RUNNABLE"
    BY <1>1, <1>2, <1>3, <1>4 DEF SemInv, TypeOK, Cur
  <1>17. StateInv'
    BY <1>9, <1>15, <1>16 DEF SemInv, StateInv, waitlistIsInList, Workers
  <1> QED
    BY <1>5, <1>13, <1>14, <1>17 DEF SemInv

LEMMA SchedulesSem == \A t \in Workers : SemInv /\ DownSchedules(t) => SemInv'
  <1> SUFFICES ASSUME NEW t \in Workers, SemInv, DownSchedules(t) PROVE SemInv'
    OBVIOUS
  <1>1. /\ pc[t] = "schedule" /\ sch' = schedule(sch)
        /\ pc' = [pc EXCEPT ![t] = "woken"]
        /\ value' = value /\ wait_queue' = wait_queue
    BY DEF DownSchedules
  <1>2. /\ SchedInv(sch') /\ sch'.state = sch.state /\ sch'.panic = sch.panic
        /\ sch'.state[sch'.CurrentTask] = "RUNNABLE"
    BY <1>1, ScheduleCorrect DEF SemInv
  <1>3. /\ pc' \in [Tasks -> Locations] /\ pc'[t] = "woken"
        /\ \A u \in Tasks \ {t} : pc'[u] = pc[u]
    BY <1>1 DEF SemInv, TypeOK, Locations, Workers
  <1>4. TypeOK'
    BY <1>1, <1>2, <1>3 DEF SemInv, TypeOK, SchedInv
  <1>5. WaitInv'
    BY <1>1, <1>3 DEF SemInv, WaitInv, InDown
  <1>6. StateInv'
    BY <1>1, <1>2 DEF SemInv, StateInv, Cur
  <1> QED
    BY <1>2, <1>4, <1>5, <1>6 DEF SemInv

\* A task that gets the CPU back in down() has been handed a unit: it is not in
\* the queue any more, and its flags are what acquireSem() expects.
LEMMA WokenHanded ==
    \A t \in Workers : SemInv /\ Cur = t /\ pc[t] = "woken" =>
       /\ ~waitlistIsInList(wait_queue, t)
       /\ wait_queue.flags[t] = "KSEM"
  <1> SUFFICES ASSUME NEW t \in Workers, SemInv, Cur = t, pc[t] = "woken"
               PROVE  /\ ~waitlistIsInList(wait_queue, t)
                      /\ wait_queue.flags[t] = "KSEM"
    OBVIOUS
  <1>1. sch.state[t] = "RUNNABLE" /\ t \in Tasks /\ t # Idle /\ InDown(t)
    BY DEF SemInv, StateInv, Workers, InDown
  <1>2. ~waitlistIsInList(wait_queue, t)
    BY <1>1 DEF SemInv, StateInv
  <1> QED
    BY <1>1, <1>2 DEF SemInv, WaitInv

LEMMA ReturnsSem == \A t \in Workers : SemInv /\ DownReturns(t) => SemInv'
  <1> SUFFICES ASSUME NEW t \in Workers, SemInv, DownReturns(t) PROVE SemInv'
    OBVIOUS
  <1>1. ~waitlistIsInList(wait_queue, t) /\ wait_queue.flags[t] = "KSEM" /\ Cur = t
    BY WokenHanded DEF DownReturns
  <1>2. /\ value' = value /\ wait_queue' = wait_queue /\ sch' = sch
        /\ pc' = [pc EXCEPT ![t] = "in"]
    BY <1>1 DEF DownReturns, waitDelCurrent
  <1>3. /\ pc' \in [Tasks -> Locations] /\ pc'[t] = "in"
        /\ \A u \in Tasks \ {t} : pc'[u] = pc[u]
    BY <1>2 DEF SemInv, TypeOK, Locations, Workers
  <1>4. TypeOK'
    BY <1>2, <1>3 DEF SemInv, TypeOK
  <1>5. WaitInv'
    BY <1>1, <1>2, <1>3 DEF SemInv, WaitInv, InDown
  <1>6. StateInv'
    BY <1>1, <1>2, <1>3 DEF SemInv, StateInv, Cur
  <1> QED
    BY <1>2, <1>4, <1>5, <1>6 DEF SemInv

\* What up() does when somebody waits: the first waiter leaves the queue with
\* the unit and is made runnable, wherever in down() it stands.
LEMMA UpHands ==
    ASSUME NEW t \in Workers, SemInv, releaseSem(t), wait_queue.list # << >>,
           NEW h, h = Head(wait_queue.list)
    PROVE  /\ h \in Workers /\ h # t /\ InDown(h)
           /\ wait_queue.flags[h] = "INTERRUPTED"
           /\ wait_queue' \in WaitQueue
           /\ wait_queue'.list = Tail(wait_queue.list)
           /\ Distinct(wait_queue'.list)
           /\ \A x : Contains(wait_queue'.list, x) <=> Contains(wait_queue.list, x) /\ x # h
           /\ wait_queue'.flags[h] = "KSEM"
           /\ \A u \in Tasks \ {h} : wait_queue'.flags[u] = wait_queue.flags[u]
           /\ SchedInv(sch') /\ sch'.panic = sch.panic /\ Cur' = Cur
           /\ sch'.state = [sch.state EXCEPT ![h] = "RUNNABLE"]
           /\ value' = value
  <1>1. /\ wait_queue' = wakeupWait(wait_queue, "KSEM")
        /\ sch' = wakeupTask(sch, h)
        /\ value' = value /\ pc[t] = "in"
    BY DEF releaseSem, up
  <1>2. /\ wait_queue \in WaitQueue /\ wait_queue.list \in Seq(Tasks)
        /\ wait_queue.flags \in [Tasks -> WakeupFlags]
        /\ Distinct(wait_queue.list)
    BY DEF SemInv, TypeOK, WaitQueue, WaitInv
  <1> DEFINE q == Tail(wait_queue.list)
             f == [wait_queue.flags EXCEPT ![h] = "KSEM"]
  <1>3. /\ h \in Tasks /\ Contains(wait_queue.list, h)
        /\ q \in Seq(Tasks) /\ Distinct(q)
        /\ \A x : Contains(q, x) <=> Contains(wait_queue.list, x) /\ x # h
    BY <1>2, TailDistinct
  <1>4. wait_queue' = [wait_queue EXCEPT !.list = q, !.flags = f]
    BY <1>1, <1>2 DEF wakeupWait, WaitQueue
  <1>5. /\ f \in [Tasks -> WakeupFlags] /\ f[h] = "KSEM"
        /\ \A u \in Tasks \ {h} : f[u] = wait_queue.flags[u]
    BY <1>2, <1>3 DEF WakeupFlags
  <1> HIDE DEF q, f
  <1>6. wait_queue' \in WaitQueue /\ wait_queue'.list = q /\ wait_queue'.flags = f
    BY <1>2, <1>3, <1>4, <1>5 DEF WaitQueue
  <1>7. h # Idle /\ InDown(h) /\ wait_queue.flags[h] = "INTERRUPTED"
    BY <1>3 DEF SemInv, WaitInv, waitlistIsInList
  <1>8. h \in Workers /\ h # t /\ sch.state[h] = "SLEEPING" /\ SchedInv(sch)
    BY <1>1, <1>3, <1>7 DEF Workers, InDown, SemInv, StateInv, waitlistIsInList
  <1>9. /\ SchedInv(sch') /\ sch'.panic = sch.panic
        /\ sch'.CurrentTask = sch.CurrentTask
        /\ sch'.state = [sch.state EXCEPT ![h] = "RUNNABLE"]
    BY <1>1, <1>3, <1>8, WakeupCorrect
  <1>10. Cur' = Cur
    BY <1>9 DEF Cur
  <1>11. q = Tail(wait_queue.list)
    BY DEF q
  <1> QED
    BY <1>1, <1>3, <1>5, <1>6, <1>7, <1>8, <1>9, <1>10, <1>11, Zenon

LEMMA ReleaseSem == \A t \in Workers : SemInv /\ releaseSem(t) => SemInv'
  <1> SUFFICES ASSUME NEW t \in Workers, SemInv, releaseSem(t) PROVE SemInv'
    OBVIOUS
  <1>1. pc[t] = "in" /\ Cur = t /\ pc' = [pc EXCEPT ![t] = "out"]
    BY DEF releaseSem
  <1>2. /\ pc' \in [Tasks -> Locations] /\ pc'[t] = "out"
        /\ \A u \in Tasks \ {t} : pc'[u] = pc[u]
    BY <1>1 DEF SemInv, TypeOK, Locations, Workers
  <1>3. CASE wait_queue.list = << >>
    <2>1. value' = value + 1 /\ sch' = sch /\ wait_queue' = wait_queue
      BY <1>3 DEF releaseSem, up
    <2>2. TypeOK'
      BY <1>2, <2>1 DEF SemInv, TypeOK
    <2>3. WaitInv'
      BY <1>1, <1>2, <2>1 DEF SemInv, WaitInv, InDown
    <2>4. StateInv'
      BY <1>1, <1>2, <2>1 DEF SemInv, StateInv, Cur
    <2> QED
      BY <2>1, <2>2, <2>3, <2>4 DEF SemInv
  <1>4. CASE wait_queue.list # << >>
    <2> DEFINE h == Head(wait_queue.list)
    <2>1. /\ h \in Workers /\ h # t /\ InDown(h)
          /\ wait_queue' \in WaitQueue
          /\ Distinct(wait_queue'.list)
          /\ \A x : Contains(wait_queue'.list, x) <=> Contains(wait_queue.list, x) /\ x # h
          /\ wait_queue'.flags[h] = "KSEM"
          /\ \A u \in Tasks \ {h} : wait_queue'.flags[u] = wait_queue.flags[u]
          /\ SchedInv(sch') /\ sch'.panic = sch.panic /\ Cur' = Cur
          /\ sch'.state = [sch.state EXCEPT ![h] = "RUNNABLE"]
          /\ value' = value
      BY <1>4, UpHands
    <2> HIDE DEF h
    <2>2. TypeOK'
      BY <1>2, <2>1 DEF SemInv, TypeOK, SchedInv
    <2>3. WaitInv'
      BY <1>1, <1>2, <2>1 DEF SemInv, WaitInv, InDown, waitlistIsInList
    <2>4. /\ sch'.state[h] = "RUNNABLE"
          /\ \A u \in Tasks \ {h} : sch'.state[u] = sch.state[u]
      BY <2>1 DEF SemInv, TypeOK, SchedState, Workers
    <2>5. StateInv'
      BY <1>1, <1>2, <2>1, <2>4 DEF SemInv, StateInv, waitlistIsInList, Workers
    <2> QED
      BY <2>1, <2>2, <2>3, <2>5 DEF SemInv
  <1> QED
    BY <1>3, <1>4

LEMMA SemStep == SemInv /\ [Next]_vars => SemInv'
  <1> SUFFICES ASSUME SemInv, [Next]_vars PROVE SemInv'
    OBVIOUS
  <1>1. CASE UNCHANGED vars
    BY <1>1 DEF vars, SemInv, TypeOK, WaitInv, StateInv, InDown, Cur
  <1> QED
    BY <1>1, TickSem, TakesSem, WaitsSem, SchedulesSem, ReturnsSem, ReleaseSem
       DEF Next, acquireSem

\* The invariant holds in every reachable state of sem.c's callers.
THEOREM SemInvariant == Spec => []SemInv
  BY InitSem, SemStep, PTL DEF Spec

\* Whatever the threads and processes do, and wherever the ticks fall in
\* down() of sem.c: the run queue and the queue of the semaphore fit each
\* other, every sleeper is in the queue, and neither the panic of acquireSem()
\* nor that of wakeupTask() is reached.
THEOREM SemQueuesCorrect == Spec => []QueuesOK
  <1>1. SemInv => QueuesOK
    <2> SUFFICES ASSUME SemInv PROVE QueuesOK
      OBVIOUS
    <2>1. SleepersQueued
      BY DEF SemInv, WaitInv, StateInv, SleepersQueued, Handed, InDown, Workers
    <2> QED
      BY <2>1 DEF SemInv, QueuesOK, SchedInv
  <1> QED
    BY <1>1, SemInvariant, PTL

----------------------------------------------------------------------------
(* Who has a unit.  Each action moves at most one task into or out of the  *)
(* critical section, and one to or from those an up() has served.          *)

LEMMA TakesUnit ==
    ASSUME NEW t \in Workers, SemInv, DownTakes(t)
    PROVE  /\ t \notin Inside /\ t \notin Handed
           /\ Inside' = Inside \cup {t} /\ Handed' = Handed
  <1>1. pc[t] = "out" /\ pc' = [pc EXCEPT ![t] = "in"] /\ wait_queue' = wait_queue
    BY DEF DownTakes
  <1>2. pc'[t] = "in" /\ \A u \in Workers \ {t} : pc'[u] = pc[u]
    BY <1>1 DEF SemInv, TypeOK, Workers
  <1> QED
    BY <1>1, <1>2 DEF Inside, Handed

LEMMA WaitsUnit ==
    ASSUME NEW t \in Workers, SemInv, DownWaits(t)
    PROVE  /\ t \notin Inside /\ t \notin Handed
           /\ Inside' = Inside /\ Handed' = Handed
  <1>1. /\ pc[t] = "out"
        /\ \/ pc' = [pc EXCEPT ![t] = "schedule"]
           \/ pc' = [pc EXCEPT ![t] = "woken"]
        /\ wait_queue' = waitAdd(wait_queue, t)
    BY DEF DownWaits
  <1>2. /\ pc'[t] \in {"schedule", "woken"}
        /\ \A u \in Workers \ {t} : pc'[u] = pc[u]
    BY <1>1 DEF SemInv, TypeOK, Workers
  <1>3. /\ wait_queue'.flags[t] = "INTERRUPTED"
        /\ \A u \in Workers \ {t} : wait_queue'.flags[u] = wait_queue.flags[u]
    BY <1>1 DEF waitAdd, SemInv, TypeOK, WaitQueue, Workers
  <1> QED
    BY <1>1, <1>2, <1>3 DEF Inside, Handed

LEMMA SchedulesUnit ==
    ASSUME NEW t \in Workers, SemInv, DownSchedules(t)
    PROVE  Inside' = Inside /\ Handed' = Handed
  <1>1. pc[t] = "schedule" /\ pc' = [pc EXCEPT ![t] = "woken"] /\ wait_queue' = wait_queue
    BY DEF DownSchedules
  <1>2. pc'[t] = "woken" /\ \A u \in Workers \ {t} : pc'[u] = pc[u]
    BY <1>1 DEF SemInv, TypeOK, Workers
  <1> QED
    BY <1>1, <1>2 DEF Inside, Handed

LEMMA ReturnsUnit ==
    ASSUME NEW t \in Workers, SemInv, DownReturns(t)
    PROVE  /\ t \notin Inside /\ t \in Handed
           /\ Inside' = Inside \cup {t} /\ Handed' = Handed \ {t}
           /\ wait_queue' = wait_queue
  <1>1. ~waitlistIsInList(wait_queue, t) /\ wait_queue.flags[t] = "KSEM"
    BY WokenHanded DEF DownReturns
  <1>2. pc[t] = "woken" /\ pc' = [pc EXCEPT ![t] = "in"] /\ wait_queue' = wait_queue
    BY <1>1 DEF DownReturns, waitDelCurrent
  <1>3. pc'[t] = "in" /\ \A u \in Workers \ {t} : pc'[u] = pc[u]
    BY <1>2 DEF SemInv, TypeOK, Workers
  <1> QED
    BY <1>1, <1>2, <1>3 DEF Inside, Handed

LEMMA ReleaseUnit ==
    ASSUME NEW t \in Workers, SemInv, releaseSem(t)
    PROVE  /\ t \in Inside /\ Inside' = Inside \ {t} /\ t \notin Handed
           /\ IF wait_queue.list = << >>
                THEN Handed' = Handed
                ELSE /\ Head(wait_queue.list) \notin Handed
                     /\ Head(wait_queue.list) \notin Inside
                     /\ Handed' = Handed \cup {Head(wait_queue.list)}
  <1>1. pc[t] = "in" /\ pc' = [pc EXCEPT ![t] = "out"]
    BY DEF releaseSem
  <1>2. pc'[t] = "out" /\ \A u \in Workers \ {t} : pc'[u] = pc[u]
    BY <1>1 DEF SemInv, TypeOK, Workers
  <1>3. t \in Inside /\ Inside' = Inside \ {t} /\ t \notin Handed
    BY <1>1, <1>2 DEF Inside, Handed
  <1>4. CASE wait_queue.list = << >>
    <2>1. wait_queue' = wait_queue
      BY <1>4 DEF releaseSem, up
    <2> QED
      BY <1>1, <1>2, <1>3, <1>4, <2>1 DEF Handed
  <1>5. CASE wait_queue.list # << >>
    <2> DEFINE h == Head(wait_queue.list)
    <2>1. /\ h \in Workers /\ h # t /\ InDown(h)
          /\ wait_queue.flags[h] = "INTERRUPTED"
          /\ wait_queue'.flags[h] = "KSEM"
          /\ \A u \in Tasks \ {h} : wait_queue'.flags[u] = wait_queue.flags[u]
      BY <1>5, UpHands
    <2> HIDE DEF h
    <2>2. h \notin Handed /\ h \notin Inside /\ Handed' = Handed \cup {h}
      BY <1>1, <1>2, <2>1 DEF Handed, Inside, InDown, Workers
    <2> QED
      BY <1>3, <1>5, <2>2 DEF h
  <1> QED
    BY <1>4, <1>5

----------------------------------------------------------------------------
(* The units.                                                              *)

\* The number of tasks with a unit changes with the sets.
LEMMA UnitSets ==
    /\ IsFiniteSet(Inside) /\ IsFiniteSet(Handed)
    /\ Cardinality(Inside) \in Nat /\ Cardinality(Handed) \in Nat
  <1>1. Inside \in SUBSET Tasks /\ Handed \in SUBSET Tasks
    BY DEF Inside, Handed, Workers
  <1>2. IsFiniteSet(Inside) /\ IsFiniteSet(Handed)
    BY <1>1, TasksAssumption, FS_Subset
  <1> QED
    BY <1>2, FS_CardinalityType

LEMMA UnitsStep == SemInv /\ UnitsConserved /\ [Next]_vars => UnitsConserved'
  <1> SUFFICES ASSUME SemInv, UnitsConserved, [Next]_vars PROVE UnitsConserved'
    OBVIOUS
  <1> DEFINE n == Cardinality(Inside)
             m == Cardinality(Handed)
  <1>0. /\ n \in Nat /\ m \in Nat /\ value \in Int /\ value >= 0
        /\ value + n + m = Value
        /\ value > 0 => wait_queue.list = << >>
        /\ IsFiniteSet(Inside) /\ IsFiniteSet(Handed)
    BY UnitSets DEF UnitsConserved, SemInv, TypeOK
  <1>1. CASE Tick \/ UNCHANGED vars
    <2>1. value' = value /\ wait_queue' = wait_queue /\ pc' = pc
      BY <1>1 DEF Tick, vars
    <2>2. Inside' = Inside /\ Handed' = Handed
      BY <2>1 DEF Inside, Handed
    <2> QED
      BY <2>1, <2>2 DEF UnitsConserved
  <1>2. ASSUME NEW t \in Workers, DownTakes(t) PROVE UnitsConserved'
    <2>1. /\ t \notin Inside /\ Inside' = Inside \cup {t} /\ Handed' = Handed
      BY <1>2, TakesUnit
    <2>2. Cardinality(Inside') = n + 1 /\ Cardinality(Handed') = m
      BY <1>0, <2>1, FS_AddElement
    <2>3. value > 0 /\ value' = value - 1 /\ wait_queue' = wait_queue
      BY <1>2 DEF DownTakes
    <2> HIDE DEF n, m
    <2> QED
      BY <1>0, <2>2, <2>3 DEF UnitsConserved
  <1>3. ASSUME NEW t \in Workers, DownWaits(t) PROVE UnitsConserved'
    <2>1. Inside' = Inside /\ Handed' = Handed
      BY <1>3, WaitsUnit
    <2>2. value <= 0 /\ value' = value
      BY <1>3 DEF DownWaits
    <2> QED
      BY <1>0, <2>1, <2>2 DEF UnitsConserved
  <1>4. ASSUME NEW t \in Workers, DownSchedules(t) PROVE UnitsConserved'
    <2>1. Inside' = Inside /\ Handed' = Handed
      BY <1>4, SchedulesUnit
    <2>2. value' = value /\ wait_queue' = wait_queue
      BY <1>4 DEF DownSchedules
    <2> QED
      BY <2>1, <2>2 DEF UnitsConserved
  <1>5. ASSUME NEW t \in Workers, DownReturns(t) PROVE UnitsConserved'
    <2>1. /\ t \notin Inside /\ t \in Handed
          /\ Inside' = Inside \cup {t} /\ Handed' = Handed \ {t}
          /\ wait_queue' = wait_queue
      BY <1>5, ReturnsUnit
    <2>2. Cardinality(Inside') = n + 1 /\ Cardinality(Handed') = m - 1
      BY <1>0, <2>1, FS_AddElement, FS_RemoveElement
    <2>3. value' = value
      BY <1>5 DEF DownReturns
    <2> HIDE DEF n, m
    <2> QED
      BY <1>0, <2>1, <2>2, <2>3 DEF UnitsConserved
  <1>6. ASSUME NEW t \in Workers, releaseSem(t) PROVE UnitsConserved'
    <2>1. t \in Inside /\ Inside' = Inside \ {t}
      BY <1>6, ReleaseUnit
    <2>2. Cardinality(Inside') = n - 1
      BY <1>0, <2>1, FS_RemoveElement
    <2>3. CASE wait_queue.list = << >>
      <3>1. Handed' = Handed
        BY <1>6, <2>3, ReleaseUnit
      <3>2. value' = value + 1 /\ wait_queue' = wait_queue
        BY <1>6, <2>3 DEF releaseSem, up
      <3>3. Cardinality(Handed') = m
        BY <3>1
      <3> HIDE DEF n, m
      <3> QED
        BY <1>0, <2>2, <2>3, <3>2, <3>3 DEF UnitsConserved
    <2>4. CASE wait_queue.list # << >>
      <3> DEFINE h == Head(wait_queue.list)
      <3>1. h \notin Handed /\ Handed' = Handed \cup {h}
        BY <1>6, <2>4, ReleaseUnit
      <3>2. value' = value
        BY <1>6, <2>4 DEF releaseSem, up
      <3> HIDE DEF h
      <3>3. Cardinality(Handed') = m + 1
        BY <1>0, <3>1, FS_AddElement
      <3> HIDE DEF n, m
      <3> QED
        BY <1>0, <2>2, <2>4, <3>2, <3>3 DEF UnitsConserved
    <2> QED
      BY <2>3, <2>4
  <1> QED
    BY <1>1, <1>2, <1>3, <1>4, <1>5, <1>6 DEF Next, acquireSem

\* Nobody has a unit at first.
LEMMA InitUnits == Init => UnitsConserved
  <1> SUFFICES ASSUME Init PROVE UnitsConserved
    OBVIOUS
  <1>1. value = Value /\ wait_queue.list = << >> /\ Inside = {} /\ Handed = {}
    BY DEF Init, EmptyQueue, Inside, Handed, Workers
  <1>2. Cardinality(Inside) = 0 /\ Cardinality(Handed) = 0
    BY <1>1, FS_EmptySet
  <1> QED
    BY <1>1, <1>2, ValueAssumption DEF UnitsConserved

\* down() and up() of sem.c neither lose nor multiply the units, with any
\* number of tasks: never more than Value tasks are between acquireSem() and
\* releaseSem(), and no unit is free while a task waits.
THEOREM UnitsCorrect == Spec => []UnitsConserved
  BY SemInvariant, InitUnits, UnitsStep, PTL DEF Spec

----------------------------------------------------------------------------
(* The refinement.                                                         *)

\* Every step of sem.c is a step of the first-in first-out semaphore, or
\* moves no unit and no waiter.
LEMMA FifoStep ==
    SemInv /\ UnitsConserved /\ [Next]_vars => [Fifo!FNext]_(Fifo!fvars)
  <1> SUFFICES ASSUME SemInv, UnitsConserved, [Next]_vars
               PROVE  [Fifo!FNext]_(Fifo!fvars)
    OBVIOUS
  <1>0. /\ value \in Int /\ value >= 0
        /\ value > 0 => wait_queue.list = << >>
    BY DEF UnitsConserved, SemInv, TypeOK
  <1>1. CASE Tick \/ UNCHANGED vars
    <2>1. value' = value /\ wait_queue' = wait_queue /\ pc' = pc
      BY <1>1 DEF Tick, vars
    <2>2. Inside' = Inside /\ Handed' = Handed
      BY <2>1 DEF Inside, Handed
    <2> QED
      BY <2>1, <2>2 DEF Fifo!fvars
  <1>2. ASSUME NEW t \in Workers, DownTakes(t) PROVE Fifo!Take(t)
    <2>1. /\ t \notin Inside /\ t \notin Handed
          /\ Inside' = Inside \cup {t} /\ Handed' = Handed
      BY <1>2, TakesUnit
    <2>2. value > 0 /\ value' = value - 1 /\ wait_queue' = wait_queue
      BY <1>2 DEF DownTakes
    <2>3. wait_queue.list = << >>
      BY <1>0, <2>2
    <2> QED
      BY <2>1, <2>2, <2>3 DEF Fifo!Take, Fifo!Waits
  <1>3. ASSUME NEW t \in Workers, DownWaits(t) PROVE Fifo!Enqueue(t)
    <2>1. /\ t \notin Inside /\ t \notin Handed
          /\ Inside' = Inside /\ Handed' = Handed
      BY <1>3, WaitsUnit
    <2>2. /\ value <= 0 /\ value' = value /\ pc[t] = "out"
          /\ wait_queue' = waitAdd(wait_queue, t)
      BY <1>3 DEF DownWaits
    <2>3. value = 0
      BY <1>0, <2>2
    <2>4. ~Contains(wait_queue.list, t)
      BY <2>2 DEF SemInv, WaitInv, waitlistIsInList, InDown, Workers
    <2>5. wait_queue'.list = Append(wait_queue.list, t)
      BY <2>2 DEF waitAdd, SemInv, TypeOK, WaitQueue
    <2> QED
      BY <2>1, <2>2, <2>3, <2>4, <2>5 DEF Fifo!Enqueue, Fifo!Waits, Contains
  <1>4. ASSUME NEW t \in Workers, DownSchedules(t) PROVE UNCHANGED Fifo!fvars
    <2>1. Inside' = Inside /\ Handed' = Handed
      BY <1>4, SchedulesUnit
    <2>2. value' = value /\ wait_queue' = wait_queue
      BY <1>4 DEF DownSchedules
    <2> QED
      BY <2>1, <2>2 DEF Fifo!fvars
  <1>5. ASSUME NEW t \in Workers, DownReturns(t) PROVE UNCHANGED Fifo!fvars
    <2>1. /\ t \notin Inside /\ t \in Handed
          /\ Inside' = Inside \cup {t} /\ Handed' = Handed \ {t}
          /\ wait_queue' = wait_queue
      BY <1>5, ReturnsUnit
    <2>2. value' = value
      BY <1>5 DEF DownReturns
    <2>3. Inside' \cup Handed' = Inside \cup Handed
      BY <2>1
    <2> QED
      BY <2>1, <2>2, <2>3 DEF Fifo!fvars
  <1>6. ASSUME NEW t \in Workers, releaseSem(t) PROVE Fifo!Give(t)
    <2>1. t \in Inside /\ t \notin Handed /\ Inside' = Inside \ {t}
      BY <1>6, ReleaseUnit
    <2>2. CASE wait_queue.list = << >>
      <3>1. Handed' = Handed
        BY <1>6, <2>2, ReleaseUnit
      <3>2. value' = value + 1 /\ wait_queue' = wait_queue
        BY <1>6, <2>2 DEF releaseSem, up
      <3>3. Inside' \cup Handed' = (Inside \cup Handed) \ {t}
        BY <2>1, <3>1
      <3> QED
        BY <2>1, <2>2, <3>2, <3>3 DEF Fifo!Give
    <2>3. CASE wait_queue.list # << >>
      <3> DEFINE h == Head(wait_queue.list)
      <3>1. h \notin Inside /\ Handed' = Handed \cup {h}
        BY <1>6, <2>3, ReleaseUnit
      <3>2. value' = value /\ wait_queue'.list = Tail(wait_queue.list)
        BY <1>6, <2>3, UpHands
      <3>3. Inside' \cup Handed' = ((Inside \cup Handed) \ {t}) \cup {h}
        BY <2>1, <3>1
      <3> QED
        BY <2>1, <2>3, <3>2, <3>3 DEF Fifo!Give
    <2> QED
      BY <2>2, <2>3
  <1> QED
    BY <1>1, <1>2, <1>3, <1>4, <1>5, <1>6 DEF Next, acquireSem, Fifo!FNext

\* acquireSem() and releaseSem() of sem.c are those of a first-in first-out
\* counting semaphore: nobody overtakes, and a released unit goes straight to
\* the task that has waited longest.
THEOREM SemIsFifo == Spec => ImplementsFifo
  <1>1. Init => Fifo!FInit
    <2> SUFFICES ASSUME Init PROVE Fifo!FInit
      OBVIOUS
    <2>1. value = Value /\ wait_queue.list = << >> /\ Inside = {} /\ Handed = {}
      BY DEF Init, EmptyQueue, Inside, Handed, Workers
    <2> QED
      BY <2>1 DEF Fifo!FInit
  <1> QED
    BY <1>1, FifoStep, SemInvariant, UnitsCorrect, PTL DEF Spec, ImplementsFifo, Fifo!FSpec

=============================================================================
