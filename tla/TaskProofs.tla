----------------------------- MODULE TaskProofs -----------------------------
(***************************************************************************)
(* For every number of tasks: the run queue stays exact and no panic() of  *)
(* the scheduler or of do_exit() is reached, whatever the interleaving of  *)
(* system calls, ticks and steps of the preemptible init thread; and the   *)
(* family of tasks stays sound: lists and parent pointers agree, nobody is *)
(* left with a dead parent, init leaves last, a Task_t that was given back *)
(* is in no list, and a process asleep in wait has nothing to reap.        *)
(***************************************************************************)
EXTENDS Task, SchedProofs, WellFoundedInduction

IInv == TypeOK /\ SchedInv(sch) /\ TaskInv /\ ~sch.panic

----------------------------------------------------------------------------
(* Scheduler states.                                                       *)

\* What clearing the slice of a new task changes.
LEMMA ClearSliceFields ==
    ASSUME NEW s \in SchedState, NEW c \in Tasks
    PROVE  /\ clearSlice(s, c) \in SchedState
           /\ clearSlice(s, c).run_list = s.run_list
           /\ clearSlice(s, c).task_num = s.task_num
           /\ clearSlice(s, c).CurrentTask = s.CurrentTask
           /\ clearSlice(s, c).panic = s.panic
           /\ clearSlice(s, c).state = s.state
           /\ clearSlice(s, c).wait_state = s.wait_state
  <1>1. 0 \in 0 .. MaxTimeSlices /\ FALSE \in BOOLEAN
    BY SliceAssumption
  <1>2. clearSlice(s, c) \in SchedState
    BY <1>1, UpdateSlice, Zenon DEF clearSlice
  <1> QED
    BY <1>2 DEF SchedState, clearSlice

\* allocTask() of a free Task_t.
LEMMA AllocTask ==
    ASSUME NEW s, SchedInv(s), NEW c \in Tasks, s.state[c] = "FREE"
    PROVE  /\ SchedInv(allocTask(s, c))
           /\ allocTask(s, c).CurrentTask = s.CurrentTask
           /\ allocTask(s, c).panic = s.panic
           /\ allocTask(s, c).state = [s.state EXCEPT ![c] = "UNINIT"]
           /\ allocTask(s, c).wait_state = [s.wait_state EXCEPT ![c] = "NOTWAIT"]
  <1> DEFINE v == setState(s, c, "UNINIT")
             a == setWaitState(v, c, "NOTWAIT")
             r == clearSlice(a, c)
  <1>1. /\ s \in SchedState /\ c # Idle
        /\ "UNINIT" \in States /\ "NOTWAIT" \in WaitStates
    BY DEF SchedInv, States, WaitStates
  <1>2. /\ SchedInv(v) /\ v \in SchedState
        /\ v.CurrentTask = s.CurrentTask /\ v.panic = s.panic
        /\ v.state = [s.state EXCEPT ![c] = "UNINIT"]
        /\ v.wait_state = s.wait_state
    BY <1>1, SetStateKeeps, SetStateFields
  <1> HIDE DEF v
  <1>3. /\ SchedInv(a) /\ a \in SchedState
        /\ a.CurrentTask = v.CurrentTask /\ a.panic = v.panic
        /\ a.state = v.state
        /\ a.wait_state = [v.wait_state EXCEPT ![c] = "NOTWAIT"]
    BY <1>1, <1>2, SetWaitStateKeeps, SetWaitStateFields
  <1>4. allocTask(s, c) = r
    BY DEF allocTask, v
  <1> HIDE DEF a
  <1>5. /\ r \in SchedState
        /\ r.run_list = a.run_list /\ r.task_num = a.task_num
        /\ r.CurrentTask = a.CurrentTask /\ r.panic = a.panic
        /\ r.state = a.state /\ r.wait_state = a.wait_state
    BY <1>3, ClearSliceFields
  <1> HIDE DEF r
  <1>6. SchedInv(r)
    BY <1>3, <1>5, SameQueue
  <1> QED
    BY <1>2, <1>3, <1>4, <1>5, <1>6

\* A scheduler state in which WT_CHILD marks tasks that are asleep.
WaitOf(s) == \A t \in Tasks : s.wait_state[t] = "CHILD" => s.state[t] = "SLEEPING"

\* Nothing but some tasks asleep in do_wait() has been woken.
Woken(s, r) ==
    /\ r.CurrentTask = s.CurrentTask /\ r.panic = s.panic
    /\ \A t \in Tasks :
          \/ r.state[t] = s.state[t] /\ r.wait_state[t] = s.wait_state[t]
          \/ /\ s.wait_state[t] = "CHILD" /\ s.state[t] = "SLEEPING"
             /\ r.wait_state[t] = "NOTWAIT" /\ r.state[t] = "RUNNABLE"

LEMMA WakeOne ==
    ASSUME NEW s, SchedInv(s), WaitOf(s), NEW t \in Tasks,
           s.wait_state[t] = "CHILD"
    PROVE  /\ SchedInv(wakeupTask(s, t)) /\ WaitOf(wakeupTask(s, t))
           /\ Woken(s, wakeupTask(s, t))
  <1>1. s.state[t] = "SLEEPING" /\ s \in SchedState
    BY DEF WaitOf, SchedInv
  <1> DEFINE r == wakeupTask(s, t)
  <1>2. /\ SchedInv(r)
        /\ r.CurrentTask = s.CurrentTask /\ r.panic = s.panic
        /\ r.state = [s.state EXCEPT ![t] = "RUNNABLE"]
        /\ r.wait_state = IF s.state[t] = "RUNNABLE" THEN s.wait_state
                          ELSE [s.wait_state EXCEPT ![t] = "NOTWAIT"]
    BY <1>1, WakeupCorrect
  <1> HIDE DEF r
  <1>3. r.wait_state = [s.wait_state EXCEPT ![t] = "NOTWAIT"]
    BY <1>1, <1>2
  <1>4. Woken(s, r) /\ WaitOf(r)
    BY <1>1, <1>2, <1>3 DEF Woken, WaitOf, SchedState
  <1> QED
    BY <1>2, <1>4 DEF r

LEMMA WokenTransitive ==
    ASSUME NEW s, NEW a, NEW r, Woken(s, a), Woken(a, r)
    PROVE  Woken(s, r)
  BY DEF Woken

\* The notifications of do_exit().
LEMMA WakeWaiters ==
    ASSUME NEW s, SchedInv(s), WaitOf(s), NEW t \in Tasks, parent[t] \in Tasks
    PROVE  /\ SchedInv(wakeWaiters(s, t)) /\ WaitOf(wakeWaiters(s, t))
           /\ Woken(s, wakeWaiters(s, t))
  <1> DEFINE a == IF s.wait_state[parent[t]] = "CHILD"
                    THEN wakeupTask(s, parent[t]) ELSE s
             r == IF /\ \E i \in 1 .. Len(children[t]) : s.state[children[t][i]] = "ZOMBIE"
                     /\ a.wait_state[InitTask] = "CHILD"
                    THEN wakeupTask(a, InitTask) ELSE a
  <1>1. \A x : Woken(x, x)
    BY DEF Woken
  <1>2. SchedInv(a) /\ WaitOf(a) /\ Woken(s, a)
    BY <1>1, WakeOne
  <1>3. wakeWaiters(s, t) = r
    BY DEF wakeWaiters
  <1> HIDE DEF a
  <1>4. SchedInv(r) /\ WaitOf(r) /\ Woken(a, r)
    BY <1>1, <1>2, WakeOne, InitTaskAssumption
  <1> HIDE DEF r
  <1> QED
    BY <1>2, <1>3, <1>4, WokenTransitive

----------------------------------------------------------------------------
(* Sequences.                                                              *)

\* Putting an element in front.
LEMMA ConsElements ==
    ASSUME NEW S, NEW q \in Seq(S), NEW c \in S
    PROVE  /\ <<c>> \o q \in Seq(S)
           /\ Len(<<c>> \o q) = Len(q) + 1
           /\ (<<c>> \o q)[1] = c
           /\ \A i \in 2 .. Len(q) + 1 : (<<c>> \o q)[i] = q[i - 1]
  <1>1. <<c>> \in Seq(S) /\ Len(<<c>>) = 1 /\ <<c>>[1] = c
    OBVIOUS
  <1> QED
    BY <1>1, ConcatProperties

\* Taking one element out.
LEMMA RemoveAtElements ==
    ASSUME NEW S, NEW q \in Seq(S), NEW k \in 1 .. Len(q)
    PROVE  /\ RemoveAt(q, k) \in Seq(S)
           /\ Len(RemoveAt(q, k)) = Len(q) - 1
           /\ \A j \in 1 .. Len(q) - 1 :
                 RemoveAt(q, k)[j] = IF j < k THEN q[j] ELSE q[j + 1]
  <1> DEFINE a == SubSeq(q, 1, k - 1)
             b == SubSeq(q, k + 1, Len(q))
  <1>1. /\ a \in Seq(S) /\ Len(a) = k - 1
        /\ \A j \in 1 .. k - 1 : a[j] = q[j]
    BY SubSeqProperties
  <1>2. /\ b \in Seq(S) /\ Len(b) = Len(q) - k
        /\ \A j \in 1 .. Len(q) - k : b[j] = q[k + j]
    BY SubSeqProperties
  <1>3. RemoveAt(q, k) = a \o b
    BY DEF RemoveAt
  <1> HIDE DEF a, b
  <1>4. /\ a \o b \in Seq(S) /\ Len(a \o b) = Len(a) + Len(b)
        /\ \A j \in 1 .. Len(a) + Len(b) :
              (a \o b)[j] = IF j <= Len(a) THEN a[j] ELSE b[j - Len(a)]
    BY <1>1, <1>2, ConcatProperties
  <1>5. ASSUME NEW j \in 1 .. Len(q) - 1
        PROVE  (a \o b)[j] = IF j < k THEN q[j] ELSE q[j + 1]
    <2>1. CASE j < k
      BY <1>1, <1>2, <1>4, <2>1
    <2>2. CASE ~(j < k)
      <3>1. /\ j - (k - 1) \in 1 .. Len(q) - k /\ k + (j - (k - 1)) = j + 1
            /\ j \in 1 .. Len(a) + Len(b) /\ ~(j <= Len(a))
        BY <1>1, <1>2, <2>2
      <3>2. (a \o b)[j] = b[j - (k - 1)]
        BY <1>1, <1>4, <3>1
      <3>3. b[j - (k - 1)] = q[k + (j - (k - 1))]
        BY <1>2, <3>1
      <3> QED
        BY <2>2, <3>1, <3>2, <3>3
    <2> QED
      BY <2>1, <2>2
  <1> QED
    BY <1>1, <1>2, <1>3, <1>4, <1>5

\* r is p, taken head first, in front of q.
ReversedOnto(S, r, p, q) ==
    /\ r \in Seq(S)
    /\ Len(r) = Len(p) + Len(q)
    /\ \A i \in 1 .. Len(p) : r[i] = p[(Len(p) - i) + 1]
    /\ \A i \in 1 .. Len(q) : r[Len(p) + i] = q[i]

\* Putting a list, head first, in front of another one.
LEMMA ReverseConcatElements ==
    ASSUME NEW S, NEW p \in Seq(S), NEW q \in Seq(S)
    PROVE  ReversedOnto(S, Reverse(p) \o q, p, q)
  <1> DEFINE r == Reverse(p)
  <1>1. \A i \in 1 .. Len(p) : p[(Len(p) - i) + 1] \in S
    OBVIOUS
  <1>2. /\ r = [i \in 1 .. Len(p) |-> p[(Len(p) - i) + 1]]
    BY DEF Reverse
  <1>3. r \in Seq(S) /\ Len(r) = Len(p)
    BY <1>1, <1>2, IsASeq
  <1>4. \A i \in 1 .. Len(p) : r[i] = p[(Len(p) - i) + 1]
    BY <1>2
  <1> HIDE DEF r
  <1>5. /\ r \o q \in Seq(S) /\ Len(r \o q) = Len(r) + Len(q)
        /\ \A j \in 1 .. Len(r) + Len(q) :
              (r \o q)[j] = IF j <= Len(r) THEN r[j] ELSE q[j - Len(r)]
    BY <1>3, ConcatProperties
  <1>6. \A i \in 1 .. Len(q) : (r \o q)[Len(p) + i] = q[i]
    BY <1>3, <1>5
  <1>7. \A i \in 1 .. Len(p) : (r \o q)[i] = p[(Len(p) - i) + 1]
    BY <1>3, <1>4, <1>5
  <1> QED
    BY <1>3, <1>5, <1>6, <1>7 DEF r, ReversedOnto

----------------------------------------------------------------------------
(* Sibling lists.                                                          *)

\* The part of ParentInv about the lists.
ListsOK(par, ch) ==
    /\ \A p \in Tasks : \A i \in 1 .. Len(ch[p]) : par[ch[p][i]] = p
    /\ \A p \in Tasks : \A i, j \in 1 .. Len(ch[p]) : ch[p][i] = ch[p][j] => i = j

\* add_task() of a task without a parent.
LEMMA AddTask ==
    ASSUME NEW par \in [Tasks -> Tasks \cup {NULL}], NEW ch \in [Tasks -> Seq(Tasks)],
           ListsOK(par, ch), NEW p \in Tasks, NEW c \in Tasks, par[c] = NULL,
           NEW par2, par2 = [par EXCEPT ![c] = p],
           NEW ch2, ch2 = [ch EXCEPT ![p] = <<c>> \o @]
    PROVE  ch2 \in [Tasks -> Seq(Tasks)] /\ ListsOK(par2, ch2)
  <1>1. /\ ch[p] \in Seq(Tasks) /\ ch2[p] = <<c>> \o ch[p]
        /\ \A q \in Tasks \ {p} : ch2[q] = ch[q]
    OBVIOUS
  <1>2. /\ ch2[p] \in Seq(Tasks) /\ Len(ch2[p]) = Len(ch[p]) + 1
        /\ ch2[p][1] = c
        /\ \A i \in 2 .. Len(ch[p]) + 1 : ch2[p][i] = ch[p][i - 1]
    BY <1>1, ConsElements
  <1>3. ch2 \in [Tasks -> Seq(Tasks)]
    BY <1>1, <1>2
  <1>4. \A q \in Tasks : \A i \in 1 .. Len(ch[q]) : ch[q][i] \in Tasks /\ ch[q][i] # c
    BY NULLAssumption DEF ListsOK
  <1>5. \A q \in Tasks : \A i \in 1 .. Len(ch2[q]) : par2[ch2[q][i]] = q
    <2> SUFFICES ASSUME NEW q \in Tasks, NEW i \in 1 .. Len(ch2[q])
                 PROVE  par2[ch2[q][i]] = q
      OBVIOUS
    <2>1. CASE q # p
      BY <1>1, <1>4, <2>1 DEF ListsOK
    <2>2. CASE q = p /\ i = 1
      BY <1>2, <2>2
    <2>3. CASE q = p /\ i # 1
      <3>1. i \in 2 .. Len(ch[p]) + 1 /\ i - 1 \in 1 .. Len(ch[p])
        BY <1>1, <1>2, <2>3
      <3> QED
        BY <1>2, <1>4, <2>3, <3>1 DEF ListsOK
    <2> QED
      BY <2>1, <2>2, <2>3
  <1>6. ASSUME NEW q \in Tasks, NEW i \in 1 .. Len(ch2[q]),
               NEW j \in 1 .. Len(ch2[q]), ch2[q][i] = ch2[q][j]
        PROVE  i = j
    <2>1. CASE q # p
      BY <1>1, <1>6, <2>1 DEF ListsOK
    <2>2. CASE q = p
      <3>1. ch[p] \in Seq(Tasks) /\ Len(ch[p]) \in Nat
        BY <1>1
      <3>2. i # 1 => i - 1 \in 1 .. Len(ch[p]) /\ ch2[p][i] = ch[p][i - 1]
        BY <1>2, <2>2, <3>1
      <3>3. j # 1 => j - 1 \in 1 .. Len(ch[p]) /\ ch2[p][j] = ch[p][j - 1]
        BY <1>2, <2>2, <3>1
      <3>4. (i = 1 /\ j = 1) \/ (i # 1 /\ j # 1)
        BY <1>2, <1>4, <1>6, <2>2, <3>2, <3>3
      <3>5. CASE i # 1 /\ j # 1
        <4>1. i - 1 = j - 1
          BY <1>6, <2>2, <3>2, <3>3, <3>5 DEF ListsOK
        <4> QED
          BY <1>2, <2>2, <3>1, <4>1
      <3> QED
        BY <3>4, <3>5
    <2> QED
      BY <2>1, <2>2
  <1> QED
    BY <1>3, <1>5, <1>6 DEF ListsOK

\* No task has z among its children.
Orphan(ch, z) == \A q \in Tasks : \A i \in 1 .. Len(ch[q]) : ch[q][i] # z

\* The lists ch2 are the lists ch without the child z of p.
Unlinked(ch, ch2, p, z) ==
    \E k \in 1 .. Len(ch[p]) :
        ch[p][k] = z /\ ch2 = [ch EXCEPT ![p] = RemoveAt(ch[p], k)]

\* del_task(): the task is in no list afterwards.
LEMMA DelTask ==
    ASSUME NEW par \in [Tasks -> Tasks \cup {NULL}], NEW ch \in [Tasks -> Seq(Tasks)],
           ListsOK(par, ch), NEW p \in Tasks, NEW z, NEW ch2, Unlinked(ch, ch2, p, z)
    PROVE  /\ ch2 \in [Tasks -> Seq(Tasks)] /\ ListsOK(par, ch2)
           /\ Orphan(ch2, z)
  <1>0. PICK k \in 1 .. Len(ch[p]) :
           ch[p][k] = z /\ ch2 = [ch EXCEPT ![p] = RemoveAt(ch[p], k)]
    BY DEF Unlinked
  <1>1. /\ ch[p] \in Seq(Tasks) /\ Len(ch[p]) \in Nat
        /\ ch2[p] = RemoveAt(ch[p], k)
        /\ \A q \in Tasks \ {p} : ch2[q] = ch[q]
    BY <1>0
  <1>2. /\ ch2[p] \in Seq(Tasks) /\ Len(ch2[p]) = Len(ch[p]) - 1
        /\ \A j \in 1 .. Len(ch[p]) - 1 :
              ch2[p][j] = IF j < k THEN ch[p][j] ELSE ch[p][j + 1]
    BY <1>1, RemoveAtElements, ZenonT(60)
  <1>3. ch2 \in [Tasks -> Seq(Tasks)]
    BY <1>0, <1>1, <1>2
  <1> DEFINE old(j) == IF j < k THEN j ELSE j + 1
  <1>4. \A j \in 1 .. Len(ch2[p]) : /\ old(j) \in 1 .. Len(ch[p]) /\ old(j) # k
                                    /\ ch2[p][j] = ch[p][old(j)]
    BY <1>1, <1>2
  <1>5. \A i, j \in 1 .. Len(ch2[p]) : old(i) = old(j) => i = j
    BY <1>1, <1>2
  <1> HIDE DEF old
  <1>6. ASSUME NEW q \in Tasks, NEW i \in 1 .. Len(ch2[q])
        PROVE  par[ch2[q][i]] = q
    <2>1. CASE q # p
      BY <1>1, <2>1 DEF ListsOK
    <2>2. CASE q = p
      <3>1. old(i) \in 1 .. Len(ch[p]) /\ ch2[p][i] = ch[p][old(i)]
        BY <1>4, <2>2
      <3> QED
        BY <2>2, <3>1 DEF ListsOK
    <2> QED
      BY <2>1, <2>2
  <1>7. ASSUME NEW q \in Tasks, NEW i \in 1 .. Len(ch2[q]),
               NEW j \in 1 .. Len(ch2[q]), ch2[q][i] = ch2[q][j]
        PROVE  i = j
    <2>1. CASE q # p
      BY <1>1, <1>7, <2>1 DEF ListsOK
    <2>2. CASE q = p
      <3>1. /\ old(i) \in 1 .. Len(ch[p]) /\ old(j) \in 1 .. Len(ch[p])
            /\ ch[p][old(i)] = ch[p][old(j)]
        BY <1>4, <1>7, <2>2
      <3>2. old(i) = old(j)
        BY <3>1 DEF ListsOK
      <3> QED
        BY <1>5, <2>2, <3>2
    <2> QED
      BY <2>1, <2>2
  <1>8. ASSUME NEW q \in Tasks, NEW i \in 1 .. Len(ch2[q]), ch2[q][i] = z
        PROVE  FALSE
    <2>1. CASE q # p
      <3>1. i \in 1 .. Len(ch[q]) /\ ch[q][i] = ch[p][k]
        BY <1>0, <1>1, <1>8, <2>1
      <3> QED
        BY <2>1, <3>1 DEF ListsOK
    <2>2. CASE q = p
      <3>1. old(i) \in 1 .. Len(ch[p]) /\ old(i) # k /\ ch[p][old(i)] = ch[p][k]
        BY <1>0, <1>4, <1>8, <2>2
      <3> QED
        BY <3>1 DEF ListsOK
    <2> QED
      BY <2>1, <2>2
  <1> QED
    BY <1>3, <1>6, <1>7, <1>8 DEF ListsOK, Orphan

\* kfree() of a task that is in no list.
LEMMA ReleaseTask ==
    ASSUME NEW par \in [Tasks -> Tasks \cup {NULL}], NEW ch \in [Tasks -> Seq(Tasks)],
           ListsOK(par, ch), NEW z \in Tasks,
           Orphan(ch, z)
    PROVE  ListsOK([par EXCEPT ![z] = NULL], ch)
  <1> DEFINE par2 == [par EXCEPT ![z] = NULL]
  <1>1. \A c \in Tasks : c # z => par2[c] = par[c]
    OBVIOUS
  <1> HIDE DEF par2
  <1>2. \A q \in Tasks : \A i \in 1 .. Len(ch[q]) : ch[q][i] \in Tasks
    OBVIOUS
  <1>3. \A q \in Tasks : \A i \in 1 .. Len(ch[q]) : par2[ch[q][i]] = q
    BY <1>1, <1>2 DEF ListsOK, Orphan
  <1>4. ListsOK(par2, ch)
    BY <1>3 DEF ListsOK
  <1> QED
    BY <1>4 DEF par2

\* reparent(): whoever had a parent has one, and only the dead task lost its
\* children.
LEMMA Reparent ==
    ASSUME parent \in [Tasks -> Tasks \cup {NULL}], children \in [Tasks -> Seq(Tasks)],
           ListsOK(parent, children), NEW t \in Tasks, reparent(t)
    PROVE  /\ parent' \in [Tasks -> Tasks \cup {NULL}]
           /\ children' \in [Tasks -> Seq(Tasks)]
           /\ ListsOK(parent', children')
           /\ \A c \in Tasks : parent'[c] = parent[c] \/ (parent[c] = t /\ parent'[c] = InitTask)
           /\ \A c \in Tasks : Contains(children'[InitTask], c)
                               => parent[c] = t \/ Contains(children[InitTask], c)
  <1> DEFINE p == children[t]
             q == IF t = InitTask THEN << >> ELSE children[InitTask]
             r == Reverse(p) \o q
  <1>1. /\ p \in Seq(Tasks) /\ q \in Seq(Tasks) /\ Len(p) \in Nat /\ Len(q) \in Nat
        /\ InitTask \in Tasks /\ InitTask # NULL
    BY InitTaskAssumption, NULLAssumption
  <1>2. /\ r \in Seq(Tasks) /\ Len(r) = Len(p) + Len(q)
        /\ \A i \in 1 .. Len(p) : r[i] = p[(Len(p) - i) + 1]
        /\ \A i \in 1 .. Len(q) : r[Len(p) + i] = q[i]
    <2>1. ReversedOnto(Tasks, r, p, q)
      BY <1>1, ReverseConcatElements, Zenon
    <2> QED
      BY <2>1, Zenon DEF ReversedOnto
  <1>3. /\ children' = [x \in Tasks |-> children'[x]]
        /\ children'[InitTask] = r
        /\ \A x \in Tasks \ {InitTask} : children'[x] = IF x = t THEN << >> ELSE children[x]
    <2> DEFINE left == [children EXCEPT ![t] = << >>]
    <2>1. children' = [left EXCEPT ![InitTask] = Reverse(p) \o left[InitTask]]
      BY DEF reparent
    <2>2. /\ left = [x \in Tasks |-> left[x]] /\ left[InitTask] = q
          /\ \A x \in Tasks : left[x] = IF x = t THEN << >> ELSE children[x]
      BY <1>1
    <2> HIDE DEF p, q, left
    <2> QED
      BY <1>1, <2>1, <2>2
  <1>4. \A c \in Tasks : parent'[c] = IF \E i \in 1 .. Len(p) : p[i] = c
                                        THEN InitTask ELSE parent[c]
    BY DEF reparent, Contains
  <1>5. \A i \in 1 .. Len(p) : p[i] \in Tasks /\ parent[p[i]] = t
    BY <1>1 DEF ListsOK
  <1>6. \A i, j \in 1 .. Len(p) : p[i] = p[j] => i = j
    BY DEF ListsOK
  <1>q. \A i \in 1 .. Len(q) : q = children[InitTask]
    BY <1>1
  <1>7. \A i \in 1 .. Len(q) : q[i] \in Tasks /\ parent[q[i]] = InitTask /\ t # InitTask
    BY <1>1 DEF ListsOK
  <1>8. \A i, j \in 1 .. Len(q) : q[i] = q[j] => i = j
    BY <1>1 DEF ListsOK
  <1>9. parent' \in [Tasks -> Tasks \cup {NULL}]
    BY <1>1 DEF reparent
  <1>10. \A c \in Tasks : parent'[c] = parent[c] \/ (parent[c] = t /\ parent'[c] = InitTask)
    BY <1>4, <1>5
  <1> HIDE DEF p, q, r
  <1>11. children' \in [Tasks -> Seq(Tasks)]
    <2>1. << >> \in Seq(Tasks) /\ \A x \in Tasks : children[x] \in Seq(Tasks)
      OBVIOUS
    <2>2. \A x \in Tasks : children'[x] \in Seq(Tasks)
      BY <1>2, <1>3, <2>1
    <2> QED
      BY <1>3, <2>2
  <1>12. ASSUME NEW i \in 1 .. Len(r), NEW j \in 1 .. Len(r), r[i] = r[j]
         PROVE  /\ parent'[r[i]] = InitTask /\ i = j
                /\ \/ parent[r[i]] = t
                   \/ \E k \in 1 .. Len(children[InitTask]) : children[InitTask][k] = r[i]
    <2> DEFINE back(k) == (Len(p) - k) + 1
               past(k) == k - Len(p)
    <2>1. \A k \in 1 .. Len(r) :
             \/ back(k) \in 1 .. Len(p)
             \/ past(k) \in 1 .. Len(q) /\ k = Len(p) + past(k)
      <3> SUFFICES ASSUME NEW k \in 1 .. Len(p) + Len(q)
                   PROVE  \/ back(k) \in 1 .. Len(p)
                          \/ past(k) \in 1 .. Len(q) /\ k = Len(p) + past(k)
        BY <1>2
      <3>1. CASE k <= Len(p)
        BY <1>1, <3>1
      <3>2. CASE k > Len(p)
        BY <1>1, <3>2
      <3> QED
        BY <1>1, <3>1, <3>2
    <2>3. \A k \in 1 .. Len(q) : r[Len(p) + k] = q[k]
      BY <1>2
    <2>4. /\ \A k, l \in 1 .. Len(r) : back(k) = back(l) => k = l
          /\ \A k, l \in 1 .. Len(r) : past(k) = past(l) => k = l
          /\ \A k \in 1 .. Len(r) : back(k) \in 1 .. Len(p) => k \in 1 .. Len(p)
      BY <1>1, <1>2
    <2>5. \A k \in 1 .. Len(p) : r[k] = p[back(k)]
      BY <1>2
    <2> HIDE DEF back, past
    <2>6. \A k \in 1 .. Len(r) :
             \/ back(k) \in 1 .. Len(p) /\ r[k] = p[back(k)]
             \/ past(k) \in 1 .. Len(q) /\ r[k] = q[past(k)]
      BY <2>1, <2>3, <2>4, <2>5
    <2>7. parent'[r[i]] = InitTask
      <3>1. \A k \in 1 .. Len(p) : parent'[p[k]] = InitTask
        BY <1>4, <1>5
      <3>2. \A k \in 1 .. Len(q) : parent'[q[k]] = InitTask
        BY <1>4, <1>7
      <3> QED
        BY <2>6, <3>1, <3>2, ZenonT(60)
    <2>8. CASE back(i) \in 1 .. Len(p) /\ r[i] = p[back(i)]
      <3>1. back(j) \in 1 .. Len(p) /\ r[j] = p[back(j)]
        BY <1>5, <1>7, <1>12, <2>6, <2>8
      <3> QED
        BY <1>5, <1>6, <1>12, <2>4, <2>7, <2>8, <3>1
    <2>9. CASE past(i) \in 1 .. Len(q) /\ r[i] = q[past(i)]
      <3>1. past(j) \in 1 .. Len(q) /\ r[j] = q[past(j)]
        BY <1>5, <1>7, <1>12, <2>6, <2>9
      <3> QED
        BY <1>q, <1>8, <1>12, <2>4, <2>7, <2>9, <3>1
    <2>10. \/ back(i) \in 1 .. Len(p) /\ r[i] = p[back(i)]
           \/ past(i) \in 1 .. Len(q) /\ r[i] = q[past(i)]
      BY <2>6
    <2> QED
      BY <2>8, <2>9, <2>10
  <1>13. ASSUME NEW i \in 1 .. Len(r)
         PROVE  parent'[r[i]] = InitTask
    BY <1>12
  <1>14. ASSUME NEW i \in 1 .. Len(r), NEW j \in 1 .. Len(r), r[i] = r[j]
         PROVE  i = j
    BY <1>12, <1>14
  <1>15. ASSUME NEW x \in Tasks \ {InitTask}, NEW i \in 1 .. Len(children'[x])
         PROVE  /\ children'[x] = children[x] /\ x # t
                /\ parent'[children'[x][i]] = x
    <2>1. x # t /\ children'[x] = children[x]
      BY <1>3
    <2>2. children[x][i] \in Tasks /\ parent[children[x][i]] = x
      BY <2>1 DEF ListsOK
    <2> QED
      BY <1>10, <2>1, <2>2
  <1>16. ListsOK(parent', children')
    <2>1. \A x \in Tasks : \A i \in 1 .. Len(children'[x]) : parent'[children'[x][i]] = x
      BY <1>3, <1>13, <1>15
    <2>2. ASSUME NEW x \in Tasks, NEW i \in 1 .. Len(children'[x]),
                 NEW j \in 1 .. Len(children'[x]), children'[x][i] = children'[x][j]
          PROVE  i = j
      <3>1. CASE x = InitTask
        BY <1>3, <1>14, <2>2, <3>1
      <3>2. CASE x # InitTask
        BY <1>15, <2>2, <3>2 DEF ListsOK
      <3> QED
        BY <3>1, <3>2
    <2> QED
      BY <2>1, <2>2 DEF ListsOK
  <1>17. \A c \in Tasks : Contains(children'[InitTask], c)
                          => parent[c] = t \/ Contains(children[InitTask], c)
    BY <1>3, <1>12 DEF Contains
  <1> QED
    BY <1>9, <1>10, <1>11, <1>16, <1>17

----------------------------------------------------------------------------
(* The initial states and the steps, one lemma per action.                 *)

LEMMA InitHolds == Init => IInv
  <1> SUFFICES ASSUME Init PROVE IInv
    OBVIOUS
  <1> USE DEF Init
  <1>1. TypeOK
    BY IdleAssumption, InitTaskAssumption, SliceAssumption
       DEF TypeOK, SchedState, States, WaitStates, Users, Locations, InitLocations
  <1>2. /\ sch.run_list = <<InitTask>> /\ sch.task_num = 1
        /\ sch.CurrentTask = Idle
        /\ \A t \in Tasks : /\ sch.state[t] = "RUNNABLE" <=> t \in {Idle, InitTask}
                             /\ sch.state[t] \in {"RUNNABLE", "FREE"}
                             /\ sch.wait_state[t] = "NOTWAIT"
    BY DEF Users
  <1>3. SchedInv(sch)
    <2>1. sch \in SchedState
      BY <1>1 DEF TypeOK
    <2>2. Len(sch.run_list) = 1 /\ sch.run_list[1] = InitTask
      BY <1>2
    <2> QED
      BY <1>2, <2>1, <2>2, IdleAssumption, InitTaskAssumption
         DEF SchedInv, RunQueueExact, Queued
  <1>4. WaitInv /\ DeadInv /\ CurInv
    BY <1>2, IdleAssumption, InitTaskAssumption
       DEF WaitInv, DeadInv, CurInv, Cur
  <1>5. ParentInv
    <2>1. Len(children[Idle]) = 1 /\ children[Idle][1] = InitTask
          /\ \A p \in Tasks \ {Idle} : Len(children[p]) = 0
      BY IdleAssumption
    <2> QED
      BY <1>2, <2>1, IdleAssumption, InitTaskAssumption, NULLAssumption
         DEF ParentInv, Users
  <1>6. PtrInv
    BY InitTaskAssumption DEF PtrInv
  <1> QED
    BY <1>1, <1>3, <1>4, <1>5, <1>6 DEF IInv, TaskInv

\* A step that only switches tasks.
LEMMA SwitchKeeps ==
    ASSUME IInv, SchedInv(sch'), sch'.state = sch.state,
           sch'.wait_state = sch.wait_state, sch'.panic = sch.panic,
           \/ sch'.CurrentTask = sch.CurrentTask
           \/ sch'.state[sch'.CurrentTask] = "RUNNABLE",
           UNCHANGED <<parent, children, taskList, tid, pc, arg, ptr>>
    PROVE  IInv'
  <1>1. TypeOK'
    BY DEF IInv, TypeOK, SchedInv
  <1>2. TaskInv'
    BY DEF IInv, TaskInv, WaitInv, DeadInv, CurInv, ParentInv, PtrInv, Cur
  <1> QED
    BY <1>1, <1>2 DEF IInv

LEMMA TickKeeps == ASSUME IInv, Tick PROVE IInv'
  BY TimerCorrect, SwitchKeeps DEF Tick, IInv

LEMMA cpu_idleKeeps == ASSUME IInv, cpu_idle PROVE IInv'
  BY ScheduleCorrect, SwitchKeeps DEF cpu_idle, IInv

\* A step of init that moves its program counter between points at which
\* nothing is claimed of ptr, and perhaps switches tasks.
LEMMA InitSchedulesKeeps == ASSUME IInv, InitSchedules PROVE IInv'
  <1> USE DEF InitSchedules, AtInit, GoTo
  <1>1. /\ SchedInv(sch') /\ sch'.state = sch.state
        /\ sch'.wait_state = sch.wait_state /\ sch'.panic = sch.panic
        /\ sch'.state[sch'.CurrentTask] = "RUNNABLE"
    BY ScheduleCorrect DEF IInv
  <1>2. TypeOK'
    BY <1>1 DEF IInv, TypeOK, SchedInv, Locations, InitLocations
  <1>3. pc \in [Tasks -> Locations] /\ InitTask \in Tasks
    BY InitTaskAssumption DEF IInv, TypeOK
  <1>4. TaskInv'
    BY <1>1, <1>3 DEF IInv, TaskInv, WaitInv, DeadInv, CurInv, ParentInv, PtrInv, Cur
  <1> QED
    BY <1>1, <1>2, <1>4 DEF IInv

LEMMA InitRepeatsKeeps == ASSUME IInv, InitRepeats PROVE IInv'
  <1>1. /\ pc \in [Tasks -> Locations] /\ InitTask \in Tasks
        /\ children[InitTask] \in Seq(Tasks)
    BY InitTaskAssumption DEF IInv, TypeOK
  <1>2. /\ UNCHANGED <<sch, parent, children, taskList, tid, arg>>
        /\ \/ pc' = [pc EXCEPT ![InitTask] = "exit"] /\ ptr' = ptr
           \/ /\ pc' = [pc EXCEPT ![InitTask] = "scan"]
              /\ ptr' = children[InitTask][1]
              /\ 1 \in 1 .. Len(children[InitTask])
    BY <1>1 DEF InitRepeats, AtInit, GoTo
  <1>3. TypeOK'
    <2>1. ptr' \in Tasks \cup {NULL}
      BY <1>1, <1>2 DEF IInv, TypeOK
    <2>2. pc' \in [Tasks -> Locations]
      BY <1>1, <1>2 DEF Locations, InitLocations
    <2> QED
      BY <1>2, <2>1, <2>2 DEF IInv, TypeOK
  <1>4. TaskInv'
    BY <1>1, <1>2 DEF IInv, TaskInv, WaitInv, DeadInv, CurInv, ParentInv, PtrInv, Cur,
           AtInit, InitRepeats
  <1> QED
    BY <1>2, <1>3, <1>4 DEF IInv

LEMMA InitScansKeeps == ASSUME IInv, InitScans PROVE IInv'
  <1>1. /\ pc \in [Tasks -> Locations] /\ InitTask \in Tasks
        /\ children[InitTask] \in Seq(Tasks)
    BY InitTaskAssumption DEF IInv, TypeOK
  <1>2. /\ UNCHANGED <<sch, parent, children, taskList, tid, arg>>
        /\ \/ /\ pc' = [pc EXCEPT ![InitTask] = "del_task"] /\ ptr' = ptr
              /\ sch.state[ptr] = "ZOMBIE"
           \/ pc' = [pc EXCEPT ![InitTask] = "set_state"] /\ ptr' = NULL
           \/ /\ pc' = [pc EXCEPT ![InitTask] = "scan"]
              /\ \E i \in 1 .. Len(children[InitTask]) : ptr' = children[InitTask][i]
    BY <1>1 DEF InitScans, AtInit, GoTo
  <1>3. TypeOK'
    <2>1. ptr' \in Tasks \cup {NULL}
      BY <1>1, <1>2 DEF IInv, TypeOK
    <2>2. pc' \in [Tasks -> Locations]
      BY <1>1, <1>2 DEF Locations, InitLocations
    <2> QED
      BY <1>2, <2>1, <2>2 DEF IInv, TypeOK
  <1>4. TaskInv'
    BY <1>1, <1>2 DEF IInv, TaskInv, WaitInv, DeadInv, CurInv, ParentInv, PtrInv, Cur,
           AtInit, InitScans
  <1> QED
    BY <1>2, <1>3, <1>4 DEF IInv

LEMMA InitSetsStateKeeps == ASSUME IInv, InitSetsState PROVE IInv'
  <1>1. /\ pc \in [Tasks -> Locations] /\ InitTask \in Tasks \ {Idle}
        /\ sch \in SchedState /\ SchedInv(sch)
        /\ sch.CurrentTask = InitTask /\ "SLEEPING" \in States
    BY InitTaskAssumption DEF IInv, TypeOK, InitSetsState, AtInit, Cur, States
  <1>2. /\ pc[InitTask] = "set_state"
        /\ pc' = [pc EXCEPT ![InitTask] = "set_wait"]
        /\ sch' = setState(sch, InitTask, "SLEEPING")
        /\ UNCHANGED <<parent, children, taskList, tid, arg, ptr>>
    BY DEF InitSetsState, AtInit, GoTo
  <1>3. /\ SchedInv(sch') /\ sch' \in SchedState
        /\ sch'.CurrentTask = sch.CurrentTask /\ sch'.panic = sch.panic
        /\ sch'.wait_state = sch.wait_state
        /\ sch'.state = [sch.state EXCEPT ![InitTask] = "SLEEPING"]
    BY <1>1, <1>2, SetStateKeeps, SetStateFields
  <1>4. sch.state \in [Tasks -> States] /\ sch.state[InitTask] = "RUNNABLE"
    BY <1>1, <1>2 DEF IInv, TaskInv, CurInv, Cur, SchedState
  <1>5. TypeOK'
    <2>1. pc' \in [Tasks -> Locations]
      BY <1>1, <1>2 DEF Locations, InitLocations
    <2> QED
      BY <1>2, <1>3, <2>1 DEF IInv, TypeOK
  <1>6. TaskInv'
    BY <1>1, <1>2, <1>3, <1>4 DEF IInv, TaskInv, WaitInv, DeadInv, CurInv, ParentInv, PtrInv, Cur
  <1> QED
    BY <1>3, <1>5, <1>6 DEF IInv

LEMMA InitSetsWaitStateKeeps == ASSUME IInv, InitSetsWaitState PROVE IInv'
  <1>1. /\ pc \in [Tasks -> Locations] /\ InitTask \in Tasks
        /\ sch \in SchedState /\ SchedInv(sch)
        /\ sch.CurrentTask = InitTask /\ "CHILD" \in WaitStates
    BY InitTaskAssumption DEF IInv, TypeOK, InitSetsWaitState, AtInit, Cur, WaitStates
  <1>2. /\ pc[InitTask] = "set_wait"
        /\ pc' = [pc EXCEPT ![InitTask] = "schedule"]
        /\ sch' = setWaitState(sch, InitTask, "CHILD")
        /\ UNCHANGED <<parent, children, taskList, tid, arg, ptr>>
    BY DEF InitSetsWaitState, AtInit, GoTo
  <1>3. /\ SchedInv(sch') /\ sch' \in SchedState
        /\ sch'.CurrentTask = sch.CurrentTask /\ sch'.panic = sch.panic
        /\ sch'.state = sch.state
        /\ sch'.wait_state = [sch.wait_state EXCEPT ![InitTask] = "CHILD"]
    BY <1>1, <1>2, SetWaitStateKeeps, SetWaitStateFields
  <1>4. sch.wait_state \in [Tasks -> WaitStates] /\ sch.state[InitTask] = "SLEEPING"
    BY <1>1, <1>2 DEF IInv, TaskInv, PtrInv, SchedState
  <1>5. TypeOK'
    <2>1. pc' \in [Tasks -> Locations]
      BY <1>1, <1>2 DEF Locations, InitLocations
    <2> QED
      BY <1>2, <1>3, <2>1 DEF IInv, TypeOK
  <1>6. TaskInv'
    BY <1>1, <1>2, <1>3, <1>4 DEF IInv, TaskInv, WaitInv, DeadInv, CurInv, ParentInv, PtrInv, Cur
  <1> QED
    BY <1>3, <1>5, <1>6 DEF IInv

LEMMA InitWakesKeeps == ASSUME IInv, InitWakes PROVE IInv'
  <1>1. /\ pc \in [Tasks -> Locations] /\ InitTask \in Tasks
        /\ sch \in SchedState /\ SchedInv(sch)
        /\ sch.CurrentTask = InitTask
        /\ ptr \in Tasks /\ sch.state[ptr] = "UNINIT"
    BY InitTaskAssumption DEF IInv, TypeOK, TaskInv, PtrInv, InitWakes, AtInit, Cur
  <1>2. /\ pc[InitTask] = "wakeup"
        /\ pc' = [pc EXCEPT ![InitTask] = "repeat"]
        /\ sch' = wakeupTask(sch, ptr) /\ ptr' = NULL
        /\ UNCHANGED <<parent, children, taskList, tid, arg>>
    BY DEF InitWakes, AtInit, GoTo
  <1>3. /\ SchedInv(sch') /\ sch' \in SchedState
        /\ sch'.CurrentTask = sch.CurrentTask /\ sch'.panic = sch.panic
        /\ sch'.state = [sch.state EXCEPT ![ptr] = "RUNNABLE"]
        /\ sch'.wait_state = [sch.wait_state EXCEPT ![ptr] = "NOTWAIT"]
    <2>1. SchedInv(sch') => sch' \in SchedState
      BY DEF SchedInv
    <2> QED
      BY <1>1, <1>2, <2>1, WakeupCorrect
  <1>4. sch.state \in [Tasks -> States] /\ sch.wait_state \in [Tasks -> WaitStates]
    BY <1>1 DEF SchedState
  <1>5. TypeOK'
    <2>1. pc' \in [Tasks -> Locations]
      BY <1>1, <1>2 DEF Locations, InitLocations
    <2> QED
      BY <1>2, <1>3, <2>1 DEF IInv, TypeOK
  <1>6. WaitInv' /\ DeadInv' /\ CurInv'
    BY <1>1, <1>2, <1>3, <1>4 DEF IInv, TaskInv, WaitInv, DeadInv, CurInv, Cur
  <1>7. ParentInv' /\ PtrInv'
    BY <1>1, <1>2, <1>3, <1>4 DEF IInv, TaskInv, ParentInv, PtrInv
  <1> QED
    BY <1>3, <1>5, <1>6, <1>7 DEF IInv, TaskInv

\* What adding a task that is not allocated yet does to the family.
LEMMA AddTaskKeeps ==
    ASSUME IInv, NEW p \in Tasks, NEW c \in Users, sch.state[c] = "FREE",
           add_task(p, c)
    PROVE  /\ parent' = [parent EXCEPT ![c] = p]
           /\ parent' \in [Tasks -> Tasks \cup {NULL}]
           /\ children' \in [Tasks -> Seq(Tasks)]
           /\ taskList' \in Seq(Tasks)
           /\ ListsOK(parent', children')
  <1>1. /\ parent \in [Tasks -> Tasks \cup {NULL}] /\ children \in [Tasks -> Seq(Tasks)]
        /\ taskList \in Seq(Tasks) /\ c \in Tasks /\ parent[c] = NULL
        /\ ListsOK(parent, children)
    BY DEF IInv, TypeOK, TaskInv, ParentInv, ListsOK, Users
  <1>2. /\ taskList' = <<c>> \o taskList
        /\ children' = [children EXCEPT ![p] = <<c>> \o @]
        /\ parent' = [parent EXCEPT ![c] = p]
    BY DEF add_task
  <1>3. taskList' \in Seq(Tasks)
    BY <1>1, <1>2, ConsElements
  <1>4. children' \in [Tasks -> Seq(Tasks)] /\ ListsOK(parent', children')
    BY <1>1, <1>2, AddTask
  <1> QED
    BY <1>1, <1>2, <1>3, <1>4

LEMMA InitCreatesKeeps == ASSUME IInv, NEW c \in Users, InitCreates(c) PROVE IInv'
  <1>1. /\ pc \in [Tasks -> Locations] /\ InitTask \in Tasks /\ c \in Tasks \ {Idle, InitTask}
        /\ sch \in SchedState /\ SchedInv(sch)
        /\ sch.CurrentTask = InitTask /\ sch.state[c] = "FREE"
        /\ tid \in [Tasks -> Int] /\ taskList \in Seq(Tasks)
    BY InitTaskAssumption DEF IInv, TypeOK, InitCreates, AtInit, Cur, Users
  <1>2. /\ pc[InitTask] = "create"
        /\ pc' = [pc EXCEPT ![InitTask] = "wakeup", ![c] = "kthread"]
        /\ sch' = allocTask(sch, c) /\ ptr' = c
        /\ tid' = [tid EXCEPT ![c] = Len(taskList)]
        /\ add_task(InitTask, c) /\ arg' = arg
    BY DEF InitCreates, AtInit, get_new_tid, TaskCount
  <1>3. /\ SchedInv(sch') /\ sch' \in SchedState
        /\ sch'.CurrentTask = sch.CurrentTask /\ sch'.panic = sch.panic
        /\ sch'.state = [sch.state EXCEPT ![c] = "UNINIT"]
        /\ sch'.wait_state = [sch.wait_state EXCEPT ![c] = "NOTWAIT"]
    <2>1. SchedInv(sch') => sch' \in SchedState
      BY DEF SchedInv
    <2> QED
      BY <1>1, <1>2, <2>1, AllocTask
  <1>4. sch.state \in [Tasks -> States] /\ sch.wait_state \in [Tasks -> WaitStates]
    BY <1>1 DEF SchedState
  <1>5. /\ parent' = [parent EXCEPT ![c] = InitTask]
        /\ parent' \in [Tasks -> Tasks \cup {NULL}]
        /\ parent \in [Tasks -> Tasks \cup {NULL}]
        /\ children' \in [Tasks -> Seq(Tasks)]
        /\ taskList' \in Seq(Tasks) /\ ListsOK(parent', children')
    BY <1>1, <1>2, AddTaskKeeps DEF IInv, TypeOK
  <1>6. pc' = [x \in Tasks |-> IF x = InitTask THEN "wakeup"
                               ELSE IF x = c THEN "kthread" ELSE pc[x]]
    BY <1>1, <1>2
  <1>7. TypeOK'
    <2>1. pc' \in [Tasks -> Locations]
      BY <1>1, <1>6 DEF Locations, InitLocations
    <2>2. tid' \in [Tasks -> Int] /\ arg' = arg /\ ptr' \in Tasks
      BY <1>1, <1>2
    <2> QED
      BY <1>3, <1>5, <2>1, <2>2 DEF IInv, TypeOK
  <1>8. WaitInv' /\ DeadInv' /\ CurInv'
    <2>1. WaitInv'
      BY <1>3, <1>4 DEF IInv, TaskInv, WaitInv
    <2>2. DeadInv'
      BY <1>1, <1>2, <1>3, <1>4, <1>6 DEF IInv, TaskInv, DeadInv
    <2>3. CurInv'
      BY <1>1, <1>2, <1>3, <1>4 DEF IInv, TaskInv, CurInv, Cur
    <2> QED
      BY <2>1, <2>2, <2>3
  <1>9. ParentInv'
    <2>1. \A t \in Tasks \ {Idle} : parent'[t] = NULL <=> sch'.state[t] = "FREE"
      BY <1>1, <1>3, <1>4, <1>5, NULLAssumption DEF IInv, TaskInv, ParentInv
    <2> QED
      BY <1>5, <2>1 DEF ParentInv, ListsOK
  <1>10. PtrInv'
    BY <1>1, <1>2, <1>3, <1>4, <1>6 DEF PtrInv
  <1> QED
    BY <1>3, <1>7, <1>8, <1>9, <1>10 DEF IInv, TaskInv

\* del_task() of a task that is not in use any more.
LEMMA DelTaskKeeps ==
    ASSUME IInv, NEW z \in Tasks, parent[z] \in Tasks, del_task(z)
    PROVE  /\ children' \in [Tasks -> Seq(Tasks)] /\ taskList' \in Seq(Tasks)
           /\ ListsOK(parent, children')
           /\ Orphan(children', z)
  <1>1. /\ parent \in [Tasks -> Tasks \cup {NULL}] /\ children \in [Tasks -> Seq(Tasks)]
        /\ taskList \in Seq(Tasks) /\ ListsOK(parent, children)
    BY DEF IInv, TypeOK, TaskInv, ParentInv, ListsOK
  <1>2. PICK k \in 1 .. Len(taskList) : taskList' = RemoveAt(taskList, k)
    BY DEF del_task
  <1>3. Unlinked(children, children', parent[z], z)
    BY DEF del_task, Unlinked
  <1>4. taskList' \in Seq(Tasks)
    BY <1>1, <1>2, RemoveAtElements
  <1> QED
    BY <1>1, <1>3, <1>4, DelTask

\* A task with a parent among the tasks is allocated, and a zombie has one.
LEMMA ZombieParent ==
    ASSUME IInv, NEW z \in Tasks \ {Idle}, sch.state[z] = "ZOMBIE"
    PROVE  parent[z] \in Tasks
  BY DEF IInv, TypeOK, TaskInv, ParentInv

\* idle never exits: it is always runnable.
LEMMA IdleAlive == ASSUME IInv PROVE sch.state[Idle] = "RUNNABLE"
  BY DEF IInv, SchedInv

LEMMA InitDeletesKeeps == ASSUME IInv, InitDeletes PROVE IInv'
  <1>1. /\ pc \in [Tasks -> Locations] /\ InitTask \in Tasks
        /\ ptr \in Tasks /\ parent[ptr] = InitTask /\ sch.state[ptr] = "ZOMBIE"
        /\ sch.CurrentTask = InitTask
    BY InitTaskAssumption DEF IInv, TypeOK, TaskInv, PtrInv, InitDeletes, AtInit, Cur
  <1>2. /\ pc[InitTask] = "del_task"
        /\ pc' = [pc EXCEPT ![InitTask] = "kfree"]
        /\ del_task(ptr)
        /\ UNCHANGED <<sch, parent, tid, arg, ptr>>
    BY DEF InitDeletes, AtInit, GoTo
  <1>3. /\ children' \in [Tasks -> Seq(Tasks)] /\ taskList' \in Seq(Tasks)
        /\ ListsOK(parent, children')
        /\ Orphan(children', ptr)
    BY <1>1, <1>2, DelTaskKeeps
  <1>4. TypeOK'
    <2>1. pc' \in [Tasks -> Locations]
      BY <1>1, <1>2 DEF Locations, InitLocations
    <2> QED
      BY <1>2, <1>3, <2>1 DEF IInv, TypeOK
  <1>5. WaitInv' /\ DeadInv' /\ CurInv'
    BY <1>1, <1>2 DEF IInv, TaskInv, WaitInv, DeadInv, CurInv, Cur
  <1>6. ParentInv'
    BY <1>2, <1>3 DEF IInv, TaskInv, ParentInv, ListsOK
  <1>7. PtrInv'
    <2>1. ~Contains(children'[InitTask], ptr')
      BY <1>1, <1>2, <1>3 DEF Contains, Orphan
    <2> QED
      BY <1>1, <1>2, <2>1 DEF PtrInv
  <1> QED
    BY <1>2, <1>4, <1>5, <1>6, <1>7 DEF IInv, TaskInv

\* Giving back the Task_t of a zombie that is in no list any more.
LEMMA ReleasedKeeps ==
    ASSUME IInv, NEW z \in Tasks, sch.state[z] = "ZOMBIE",
           sch' = setState(sch, z, "FREE"), Released(z),
           children' \in [Tasks -> Seq(Tasks)], ListsOK(parent, children'),
           Orphan(children', z)
    PROVE  /\ SchedInv(sch') /\ sch' \in SchedState
           /\ sch'.CurrentTask = sch.CurrentTask /\ sch'.panic = sch.panic
           /\ sch'.wait_state = sch.wait_state
           /\ sch'.state = [sch.state EXCEPT ![z] = "FREE"]
           /\ sch.state \in [Tasks -> States]
           /\ parent' = [parent EXCEPT ![z] = NULL]
           /\ parent' \in [Tasks -> Tasks \cup {NULL}] /\ tid' \in [Tasks -> Int]
           /\ WaitInv' /\ ParentInv'
  <1>1. /\ sch \in SchedState /\ SchedInv(sch) /\ z # Idle /\ "FREE" \in States
        /\ parent \in [Tasks -> Tasks \cup {NULL}] /\ tid \in [Tasks -> Int]
        /\ sch.state \in [Tasks -> States]
    BY IdleAlive DEF IInv, TypeOK, States, SchedState
  <1>2. /\ SchedInv(sch') /\ sch' \in SchedState
        /\ sch'.CurrentTask = sch.CurrentTask /\ sch'.panic = sch.panic
        /\ sch'.wait_state = sch.wait_state
        /\ sch'.state = [sch.state EXCEPT ![z] = "FREE"]
    <2>1. SchedInv(setState(sch, z, "FREE"))
      BY <1>1, SetStateKeeps
    <2> QED
      BY <1>1, <2>1, SetStateFields
  <1>3. /\ parent' = [parent EXCEPT ![z] = NULL] /\ tid' = [tid EXCEPT ![z] = -1]
    BY DEF Released
  <1>4. parent' \in [Tasks -> Tasks \cup {NULL}] /\ tid' \in [Tasks -> Int]
    BY <1>1, <1>3
  <1>5. WaitInv'
    BY <1>1, <1>2 DEF IInv, TaskInv, WaitInv
  <1>6. ListsOK(parent', children')
    <2>1. ListsOK([parent EXCEPT ![z] = NULL], children')
      BY <1>1, ReleaseTask
    <2> QED
      BY <1>3, <2>1
  <1>7. \A t \in Tasks \ {Idle} : parent'[t] = NULL <=> sch'.state[t] = "FREE"
    BY <1>1, <1>2, <1>3 DEF IInv, TaskInv, ParentInv
  <1> QED
    BY <1>1, <1>2, <1>3, <1>4, <1>5, <1>6, <1>7 DEF ParentInv, ListsOK

LEMMA InitFreesKeeps == ASSUME IInv, InitFrees PROVE IInv'
  <1>1. /\ pc \in [Tasks -> Locations] /\ InitTask \in Tasks
        /\ ptr \in Tasks /\ parent[ptr] = InitTask /\ sch.state[ptr] = "ZOMBIE"
        /\ ~Contains(children[InitTask], ptr)
        /\ sch.CurrentTask = InitTask /\ children \in [Tasks -> Seq(Tasks)]
        /\ ListsOK(parent, children)
    BY InitTaskAssumption DEF IInv, TypeOK, TaskInv, PtrInv, ParentInv, ListsOK,
       InitFrees, AtInit, Cur
  <1>2. /\ pc[InitTask] = "kfree"
        /\ pc' = [pc EXCEPT ![InitTask] = "next", ![ptr] = "none"]
        /\ sch' = setState(sch, ptr, "FREE") /\ Released(ptr)
        /\ ptr' = NULL
        /\ UNCHANGED <<children, taskList, arg>>
    BY DEF InitFrees, AtInit
  <1>3. Orphan(children, ptr)
    BY <1>1 DEF ListsOK, Contains, Orphan
  <1>4. /\ SchedInv(sch') /\ sch' \in SchedState
        /\ sch'.CurrentTask = sch.CurrentTask /\ sch'.panic = sch.panic
        /\ sch'.wait_state = sch.wait_state
        /\ sch'.state = [sch.state EXCEPT ![ptr] = "FREE"]
        /\ sch.state \in [Tasks -> States]
        /\ parent' \in [Tasks -> Tasks \cup {NULL}] /\ tid' \in [Tasks -> Int]
        /\ WaitInv' /\ ParentInv'
    BY <1>1, <1>2, <1>3, ReleasedKeeps
  <1>5. sch.state[InitTask] = "RUNNABLE"
    BY <1>1, <1>2 DEF IInv, TaskInv, CurInv, Cur
  <1>6. pc' = [x \in Tasks |-> IF x = InitTask THEN "next"
                               ELSE IF x = ptr THEN "none" ELSE pc[x]]
    BY <1>1, <1>2, <1>5
  <1>7. TypeOK'
    <2>1. pc' \in [Tasks -> Locations]
      BY <1>1, <1>6 DEF Locations, InitLocations
    <2> QED
      BY <1>2, <1>4, <2>1 DEF IInv, TypeOK
  <1>8. DeadInv' /\ CurInv' /\ PtrInv'
    <2>1. DeadInv'
      BY <1>1, <1>2, <1>4, <1>5, <1>6, ZenonT(40) DEF IInv, TaskInv, DeadInv
    <2> QED
      BY <1>1, <1>2, <1>4, <1>5, <1>6, <2>1 DEF CurInv, PtrInv, Cur
  <1> QED
    BY <1>4, <1>7, <1>8 DEF IInv, TaskInv

\* The part of do_exit() after the assignment of TASK_ZOMBIE, which is s.
LEMMA ExitKeeps ==
    ASSUME IInv, NEW t \in Tasks \ {Idle}, sch.CurrentTask = t,
           sch.state[t] \in {"RUNNABLE", "ZOMBIE"},
           NEW s, SchedInv(s), s.CurrentTask = t, s.panic = sch.panic,
           s.state = [sch.state EXCEPT ![t] = "ZOMBIE"],
           s.wait_state = sch.wait_state,
           sch' = schedule(wakeWaiters(s, t)), reparent(t),
           pc' = [pc EXCEPT ![t] = "dead"],
           UNCHANGED <<taskList, tid, arg, ptr>>
    PROVE  IInv'
  <1>1. /\ pc \in [Tasks -> Locations] /\ InitTask \in Tasks
        /\ sch.state \in [Tasks -> States]
        /\ parent \in [Tasks -> Tasks \cup {NULL}] /\ children \in [Tasks -> Seq(Tasks)]
        /\ ListsOK(parent, children) /\ parent[t] \in Tasks
    BY InitTaskAssumption DEF IInv, TypeOK, SchedState, TaskInv, ParentInv, ListsOK
  <1>2. WaitOf(s)
    BY <1>1 DEF IInv, TaskInv, WaitInv, WaitOf
  <1> DEFINE w == wakeWaiters(s, t)
  <1>3. SchedInv(w) /\ WaitOf(w) /\ Woken(s, w)
    BY <1>1, <1>2, WakeWaiters
  <1>4. /\ SchedInv(sch') /\ sch'.state = w.state /\ sch'.wait_state = w.wait_state
        /\ sch'.panic = w.panic /\ sch'.state[sch'.CurrentTask] = "RUNNABLE"
    BY <1>3, ScheduleCorrect
  <1> HIDE DEF w
  <1>5. \A x \in Tasks :
           \/ sch'.state[x] = s.state[x] /\ sch'.wait_state[x] = sch.wait_state[x]
           \/ /\ sch.wait_state[x] = "CHILD" /\ s.state[x] = "SLEEPING"
              /\ sch'.wait_state[x] = "NOTWAIT" /\ sch'.state[x] = "RUNNABLE"
    BY <1>3, <1>4 DEF Woken
  <1>6. \A x \in Tasks : s.state[x] = IF x = t THEN "ZOMBIE" ELSE sch.state[x]
    BY <1>1
  <1>7. /\ parent' \in [Tasks -> Tasks \cup {NULL}]
        /\ children' \in [Tasks -> Seq(Tasks)] /\ ListsOK(parent', children')
        /\ \A c \in Tasks : parent'[c] = parent[c] \/ (parent[c] = t /\ parent'[c] = InitTask)
        /\ \A c \in Tasks : Contains(children'[InitTask], c)
                            => parent[c] = t \/ Contains(children[InitTask], c)
    BY <1>1, Reparent
  <1>8. TypeOK'
    <2>1. pc' \in [Tasks -> Locations]
      BY <1>1 DEF Locations, InitLocations
    <2>2. sch' \in SchedState
      BY <1>4 DEF SchedInv
    <2> QED
      BY <1>7, <2>1, <2>2 DEF IInv, TypeOK
  <1>9. WaitInv'
    BY <1>3, <1>4 DEF WaitInv, WaitOf
  <1>10. DeadInv'
    BY <1>1, <1>5, <1>6 DEF IInv, TaskInv, DeadInv
  <1>11. CurInv'
    BY <1>4 DEF CurInv, Cur
  <1>12. ParentInv'
    <2>1. ASSUME NEW x \in Tasks \ {Idle}
          PROVE  parent'[x] = NULL <=> sch'.state[x] = "FREE"
      <3>1. parent'[x] = NULL <=> parent[x] = NULL
        BY <1>1, <1>7, NULLAssumption
      <3>2. sch'.state[x] = "FREE" <=> sch.state[x] = "FREE"
        BY <1>5, <1>6
      <3> QED
        BY <3>1, <3>2 DEF IInv, TaskInv, ParentInv
    <2> QED
      BY <1>7, <2>1 DEF ParentInv, ListsOK
  <1>13. PtrInv'
    <2>1. CASE t = InitTask
      BY <1>1, <2>1 DEF PtrInv
    <2>2. CASE t # InitTask
      <3>1. pc'[InitTask] = pc[InitTask] /\ ptr' = ptr
        BY <1>1, <2>2
      <3>2. pc[InitTask] = "set_wait" => /\ sch'.state[InitTask] = "SLEEPING"
                                         /\ sch'.wait_state[InitTask] # "CHILD"
        BY <1>1, <1>5, <1>6, <2>2 DEF IInv, TaskInv, PtrInv
      <3>3. pc[InitTask] = "wakeup" => ptr \in Tasks /\ sch'.state[ptr] = "UNINIT"
        BY <1>5, <1>6 DEF IInv, TaskInv, PtrInv
      <3>4. pc[InitTask] \in {"scan", "del_task", "kfree"} =>
               ptr \in Tasks /\ parent[ptr] = InitTask /\ parent'[ptr] = InitTask
        BY <1>7 DEF IInv, TaskInv, PtrInv
      <3>5. pc[InitTask] \in {"del_task", "kfree"} => sch'.state[ptr] = "ZOMBIE"
        BY <1>5, <1>6 DEF IInv, TaskInv, PtrInv
      <3>6. pc[InitTask] = "kfree" => ~Contains(children'[InitTask], ptr)
        BY <1>7, <2>2, <3>4 DEF IInv, TaskInv, PtrInv
      <3> QED
        BY <3>1, <3>2, <3>3, <3>4, <3>5, <3>6 DEF PtrInv
    <2> QED
      BY <2>1, <2>2
  <1>14. ~sch'.panic
    BY <1>3, <1>4 DEF Woken, IInv
  <1> QED
    BY <1>4, <1>8, <1>9, <1>10, <1>11, <1>12, <1>13, <1>14 DEF IInv, TaskInv

LEMMA sys_exitKeeps == ASSUME IInv, NEW t \in Users, sys_exit(t) PROVE IInv'
  <1>1. /\ t \in Tasks \ {Idle} /\ sch.CurrentTask = t /\ pc[t] \in {"user", "kthread"}
        /\ sch \in SchedState /\ SchedInv(sch) /\ "ZOMBIE" \in States
    BY DEF sys_exit, Users, Cur, IInv, TypeOK, States
  <1>2. sch.state[t] = "RUNNABLE"
    BY <1>1 DEF IInv, TaskInv, CurInv, Cur, Users
  <1> DEFINE s == setState(sch, t, "ZOMBIE")
  <1>3. SchedInv(s)
    BY <1>1, SetStateKeeps
  <1>4. /\ s.CurrentTask = t /\ s.panic = sch.panic /\ s.wait_state = sch.wait_state
        /\ s.state = [sch.state EXCEPT ![t] = "ZOMBIE"]
    BY <1>1, SetStateFields
  <1>5. /\ sch' = schedule(wakeWaiters(s, t)) /\ reparent(t)
        /\ pc' = [pc EXCEPT ![t] = "dead"] /\ UNCHANGED <<taskList, tid, arg, ptr>>
    BY DEF sys_exit
  <1> HIDE DEF s
  <1> QED
    BY <1>1, <1>2, <1>3, <1>4, <1>5, ExitKeeps

LEMMA ThreadExitsCliKeeps ==
    ASSUME IInv, NEW t \in Tasks \ {Idle}, ThreadExitsCli(t) PROVE IInv'
  <1>1. /\ sch.CurrentTask = t /\ pc[t] = "exit_cli" /\ SchedInv(sch) /\ sch \in SchedState
    BY DEF ThreadExitsCli, Cur, IInv, TypeOK
  <1>2. sch.state[t] = "ZOMBIE"
    BY <1>1 DEF IInv, TaskInv, DeadInv
  <1>3. sch.state = [sch.state EXCEPT ![t] = "ZOMBIE"]
    BY <1>1, <1>2 DEF SchedState
  <1>4. /\ sch' = schedule(wakeWaiters(sch, t)) /\ reparent(t)
        /\ pc' = [pc EXCEPT ![t] = "dead"] /\ UNCHANGED <<taskList, tid, arg, ptr>>
    BY DEF ThreadExitsCli
  <1> QED
    BY <1>1, <1>2, <1>3, <1>4, ExitKeeps

LEMMA ThreadExitsKeeps ==
    ASSUME IInv, NEW t \in Tasks \ {Idle}, ThreadExits(t) PROVE IInv'
  <1>1. /\ pc \in [Tasks -> Locations] /\ sch \in SchedState /\ SchedInv(sch)
        /\ sch.CurrentTask = t /\ pc[t] = "exit" /\ "ZOMBIE" \in States
    BY DEF IInv, TypeOK, ThreadExits, Cur, States
  <1>2. /\ pc' = [pc EXCEPT ![t] = "exit_cli"]
        /\ sch' = setState(sch, t, "ZOMBIE")
        /\ UNCHANGED <<parent, children, taskList, tid, arg, ptr>>
    BY DEF ThreadExits
  <1>3. /\ SchedInv(sch') /\ sch' \in SchedState
        /\ sch'.CurrentTask = sch.CurrentTask /\ sch'.panic = sch.panic
        /\ sch'.wait_state = sch.wait_state
        /\ sch'.state = [sch.state EXCEPT ![t] = "ZOMBIE"]
    <2>1. SchedInv(setState(sch, t, "ZOMBIE"))
      BY <1>1, SetStateKeeps
    <2> QED
      BY <1>1, <1>2, <2>1, SetStateFields
  <1>4. sch.state \in [Tasks -> States] /\ sch.state[t] = "RUNNABLE"
    BY <1>1 DEF IInv, TaskInv, CurInv, Cur, SchedState
  <1>5. TypeOK'
    <2>1. pc' \in [Tasks -> Locations]
      BY <1>1, <1>2 DEF Locations, InitLocations
    <2> QED
      BY <1>2, <1>3, <2>1 DEF IInv, TypeOK
  <1>6. WaitInv' /\ DeadInv' /\ CurInv'
    BY <1>1, <1>2, <1>3, <1>4 DEF IInv, TaskInv, WaitInv, DeadInv, CurInv, Cur
  <1>7. ParentInv'
    BY <1>1, <1>2, <1>3, <1>4 DEF IInv, TaskInv, ParentInv
  <1>8. PtrInv'
    BY <1>1, <1>2, <1>3, <1>4, InitTaskAssumption DEF IInv, TaskInv, PtrInv
  <1> QED
    BY <1>3, <1>5, <1>6, <1>7, <1>8 DEF IInv, TaskInv

LEMMA user_taskKeeps == ASSUME IInv, NEW t \in Users, user_task(t) PROVE IInv'
  <1>1. /\ pc \in [Tasks -> Locations] /\ t \in Tasks /\ InitTask \in Tasks
        /\ t # InitTask /\ sch.CurrentTask = t /\ pc[t] = "kthread"
    BY InitTaskAssumption DEF IInv, TypeOK, user_task, Cur, Users
  <1>2. PICK loc \in {"user", "exit"} : pc' = [pc EXCEPT ![t] = loc]
    BY DEF user_task
  <1>3. UNCHANGED <<sch, parent, children, taskList, tid, arg, ptr>>
    BY DEF user_task
  <1>4. TypeOK'
    <2>1. pc' \in [Tasks -> Locations]
      BY <1>1, <1>2 DEF Locations, InitLocations
    <2> QED
      BY <1>3, <2>1 DEF IInv, TypeOK
  <1>5. TaskInv'
    BY <1>1, <1>2, <1>3 DEF IInv, TaskInv, WaitInv, DeadInv, CurInv, ParentInv, PtrInv, Cur
  <1> QED
    BY <1>3, <1>4, <1>5 DEF IInv

LEMMA sys_forkKeeps ==
    ASSUME IInv, NEW t \in Users, NEW c \in Users, sys_fork(t, c) PROVE IInv'
  <1>1. /\ pc \in [Tasks -> Locations] /\ InitTask \in Tasks
        /\ t \in Tasks /\ c \in Tasks \ {Idle, InitTask}
        /\ sch \in SchedState /\ SchedInv(sch)
        /\ sch.CurrentTask = t /\ sch.state[c] = "FREE" /\ pc[t] = "user"
        /\ tid \in [Tasks -> Int] /\ taskList \in Seq(Tasks)
    BY InitTaskAssumption DEF IInv, TypeOK, sys_fork, Cur, Users
  <1>2. /\ pc' = [pc EXCEPT ![c] = "user"]
        /\ sch' = wakeupTask(allocTask(sch, c), c)
        /\ tid' = [tid EXCEPT ![c] = Len(taskList)]
        /\ add_task(t, c) /\ UNCHANGED <<arg, ptr>>
    BY DEF sys_fork, get_new_tid, TaskCount
  <1> DEFINE a == allocTask(sch, c)
  <1>3. /\ SchedInv(a) /\ a.CurrentTask = sch.CurrentTask /\ a.panic = sch.panic
        /\ a.state = [sch.state EXCEPT ![c] = "UNINIT"]
        /\ a.wait_state = [sch.wait_state EXCEPT ![c] = "NOTWAIT"]
    BY <1>1, AllocTask
  <1>4. sch.state \in [Tasks -> States] /\ sch.wait_state \in [Tasks -> WaitStates]
    BY <1>1 DEF SchedState
  <1>5. a.state[c] = "UNINIT"
    BY <1>1, <1>3, <1>4
  <1>6. sch' = wakeupTask(a, c)
    BY <1>2
  <1> HIDE DEF a
  <1>7. /\ SchedInv(sch') /\ sch'.CurrentTask = sch.CurrentTask /\ sch'.panic = sch.panic
        /\ sch'.state = [a.state EXCEPT ![c] = "RUNNABLE"]
        /\ sch'.wait_state = [a.wait_state EXCEPT ![c] = "NOTWAIT"]
    BY <1>1, <1>3, <1>5, <1>6, WakeupCorrect
  <1>8. /\ sch' \in SchedState
        /\ sch'.state = [sch.state EXCEPT ![c] = "RUNNABLE"]
        /\ sch'.wait_state = [sch.wait_state EXCEPT ![c] = "NOTWAIT"]
    BY <1>3, <1>4, <1>7 DEF SchedInv
  <1>9. /\ parent' = [parent EXCEPT ![c] = t]
        /\ parent' \in [Tasks -> Tasks \cup {NULL}]
        /\ parent \in [Tasks -> Tasks \cup {NULL}]
        /\ children' \in [Tasks -> Seq(Tasks)]
        /\ taskList' \in Seq(Tasks) /\ ListsOK(parent', children')
    BY <1>1, <1>2, AddTaskKeeps DEF IInv, TypeOK
  <1>10. TypeOK'
    <2>1. pc' \in [Tasks -> Locations]
      BY <1>1, <1>2 DEF Locations, InitLocations
    <2>2. tid' \in [Tasks -> Int]
      BY <1>1, <1>2
    <2> QED
      BY <1>2, <1>8, <1>9, <2>1, <2>2 DEF IInv, TypeOK
  <1>11. WaitInv'
    BY <1>4, <1>8 DEF IInv, TaskInv, WaitInv
  <1>12. DeadInv'
    BY <1>1, <1>2, <1>4, <1>8 DEF IInv, TaskInv, DeadInv
  <1>13. CurInv'
    BY <1>1, <1>4, <1>7, <1>8 DEF IInv, TaskInv, CurInv, Cur
  <1>14. ParentInv'
    <2>1. \A x \in Tasks \ {Idle} : parent'[x] = NULL <=> sch'.state[x] = "FREE"
      BY <1>1, <1>4, <1>8, <1>9, NULLAssumption DEF IInv, TaskInv, ParentInv
    <2> QED
      BY <1>9, <2>1 DEF ParentInv, ListsOK
  <1>15. PtrInv'
    <2>1. pc'[InitTask] = pc[InitTask] /\ ptr' = ptr
      BY <1>1, <1>2
    <2>2. sch'.state[InitTask] = sch.state[InitTask]
          /\ sch'.wait_state[InitTask] = sch.wait_state[InitTask]
      BY <1>1, <1>4, <1>8
    <2>3. ptr \in Tasks /\ sch.state[ptr] # "FREE" => sch'.state[ptr] = sch.state[ptr]
      BY <1>1, <1>4, <1>8
    <2>4. ptr \in Tasks /\ parent[ptr] = InitTask =>
             /\ parent'[ptr] = InitTask
             /\ Contains(children'[InitTask], ptr) => Contains(children[InitTask], ptr)
      <3>1. parent[c] = NULL /\ InitTask # NULL
        BY <1>1, NULLAssumption DEF IInv, TaskInv, ParentInv
      <3>2. t # InitTask
        BY DEF Users
      <3>3. children' = [children EXCEPT ![t] = <<c>> \o @]
        BY <1>2 DEF add_task
      <3>4. children'[InitTask] = children[InitTask]
        BY <1>1, <3>2, <3>3 DEF IInv, TypeOK
      <3> QED
        BY <1>1, <1>9, <3>1, <3>4
    <2> QED
      BY <2>1, <2>2, <2>3, <2>4 DEF IInv, TaskInv, PtrInv
  <1> QED
    BY <1>7, <1>8, <1>10, <1>11, <1>12, <1>13, <1>14, <1>15 DEF IInv, TaskInv

\* Who runs do_wait() of a system call.
Caller(t) ==
    t \in Users /\ sch.CurrentTask = t /\ pc[t] \in {"user", "wait"}

LEMMA CallerRuns ==
    ASSUME IInv, NEW t, Caller(t)
    PROVE  /\ t \in Tasks \ {Idle, InitTask} /\ sch.state[t] = "RUNNABLE"
           /\ InitTask \in Tasks /\ pc \in [Tasks -> Locations] /\ arg \in [Tasks -> Nat]
           /\ sch \in SchedState /\ SchedInv(sch)
           /\ sch.state \in [Tasks -> States] /\ sch.wait_state \in [Tasks -> WaitStates]
  BY InitTaskAssumption DEF Caller, Users, IInv, TypeOK, TaskInv, CurInv, Cur, SchedState

LEMMA WaitFailsKeeps ==
    ASSUME IInv, NEW t, Caller(t), NEW p, WaitFails(t, p) PROVE IInv'
  <1>1. /\ t \in Tasks \ {Idle, InitTask} /\ sch.state[t] = "RUNNABLE"
        /\ InitTask \in Tasks /\ pc \in [Tasks -> Locations] /\ arg \in [Tasks -> Nat]
    BY CallerRuns
  <1>2. /\ pc' = [pc EXCEPT ![t] = "user"] /\ arg' = [arg EXCEPT ![t] = 0]
        /\ UNCHANGED <<sch, parent, children, taskList, tid, ptr>>
    BY DEF WaitFails
  <1>3. TypeOK'
    <2>1. pc' \in [Tasks -> Locations]
      BY <1>1, <1>2 DEF Locations, InitLocations
    <2>2. arg' \in [Tasks -> Nat]
      BY <1>1, <1>2
    <2> QED
      BY <1>2, <2>1, <2>2 DEF IInv, TypeOK
  <1>4. TaskInv'
    BY <1>1, <1>2 DEF IInv, TaskInv, WaitInv, DeadInv, CurInv, ParentInv, PtrInv, Cur,
       Caller
  <1> QED
    BY <1>2, <1>3, <1>4 DEF IInv

LEMMA WaitSleepsKeeps ==
    ASSUME IInv, NEW t, Caller(t), NEW p \in Nat, WaitSleeps(t, p) PROVE IInv'
  <1>1. /\ t \in Tasks \ {Idle, InitTask} /\ sch.state[t] = "RUNNABLE"
        /\ InitTask \in Tasks /\ pc \in [Tasks -> Locations] /\ arg \in [Tasks -> Nat]
        /\ sch \in SchedState /\ SchedInv(sch) /\ sch.CurrentTask = t
        /\ sch.state \in [Tasks -> States] /\ sch.wait_state \in [Tasks -> WaitStates]
        /\ "SLEEPING" \in States /\ "CHILD" \in WaitStates
    BY CallerRuns DEF Caller, States, WaitStates
  <1> DEFINE a == setState(sch, t, "SLEEPING")
             b == setWaitState(a, t, "CHILD")
  <1>2. /\ pc' = [pc EXCEPT ![t] = "wait"] /\ arg' = [arg EXCEPT ![t] = p]
        /\ sch' = schedule(b)
        /\ UNCHANGED <<parent, children, taskList, tid, ptr>>
    BY DEF WaitSleeps
  <1>3. SchedInv(a)
    BY <1>1, SetStateKeeps
  <1>4. /\ a \in SchedState /\ a.CurrentTask = t /\ a.panic = sch.panic
        /\ a.wait_state = sch.wait_state
        /\ a.state = [sch.state EXCEPT ![t] = "SLEEPING"]
    BY <1>1, SetStateFields
  <1> HIDE DEF a
  <1>5. SchedInv(b)
    BY <1>1, <1>3, SetWaitStateKeeps
  <1>6. /\ b.panic = a.panic /\ b.state = a.state
        /\ b.wait_state = [a.wait_state EXCEPT ![t] = "CHILD"]
    BY <1>1, <1>4, SetWaitStateFields
  <1> HIDE DEF b
  <1>7. /\ SchedInv(sch') /\ sch' \in SchedState /\ sch'.panic = sch.panic
        /\ sch'.state = [sch.state EXCEPT ![t] = "SLEEPING"]
        /\ sch'.wait_state = [sch.wait_state EXCEPT ![t] = "CHILD"]
        /\ sch'.state[sch'.CurrentTask] = "RUNNABLE"
    BY <1>2, <1>4, <1>5, <1>6, ScheduleCorrect DEF SchedInv
  <1>8. TypeOK'
    <2>1. pc' \in [Tasks -> Locations]
      BY <1>1, <1>2 DEF Locations, InitLocations
    <2>2. arg' \in [Tasks -> Nat]
      BY <1>1, <1>2
    <2> QED
      BY <1>2, <1>7, <2>1, <2>2 DEF IInv, TypeOK
  <1>9. WaitInv' /\ CurInv'
    BY <1>1, <1>7 DEF IInv, TaskInv, WaitInv, CurInv, Cur
  <1>10. DeadInv'
    BY <1>1, <1>2, <1>7 DEF IInv, TaskInv, DeadInv, Caller
  <1>11. ParentInv'
    <2>1. \A x \in Tasks \ {Idle} : sch'.state[x] = "FREE" <=> sch.state[x] = "FREE"
      BY <1>1, <1>7
    <2> QED
      BY <1>2, <2>1 DEF IInv, TaskInv, ParentInv
  <1>12. PtrInv'
    BY <1>1, <1>2, <1>7 DEF IInv, TaskInv, PtrInv
  <1> QED
    BY <1>7, <1>8, <1>9, <1>10, <1>11, <1>12 DEF IInv, TaskInv

LEMMA WaitReapsKeeps ==
    ASSUME IInv, NEW t, Caller(t), NEW p, WaitReaps(t, p) PROVE IInv'
  <1>1. /\ t \in Tasks \ {Idle, InitTask} /\ sch.state[t] = "RUNNABLE"
        /\ InitTask \in Tasks /\ pc \in [Tasks -> Locations] /\ arg \in [Tasks -> Nat]
        /\ sch.CurrentTask = t
    BY CallerRuns DEF Caller
  <1>2. PICK z \in Tasks :
           /\ found(t, p, z) /\ del_task(z) /\ Released(z)
           /\ sch' = setState(sch, z, "FREE")
           /\ pc' = [pc EXCEPT ![t] = "user", ![z] = "none"]
           /\ arg' = [arg EXCEPT ![t] = 0] /\ ptr' = ptr
    BY DEF WaitReaps
  <1>3. sch.state[z] = "ZOMBIE" /\ parent[z] = t /\ z # t
    <2>1. sch.state[z] = "ZOMBIE" /\ z # t
      BY <1>1, <1>2 DEF found
    <2>2. CASE p # 0
      BY <1>2, <2>1, <2>2 DEF found
    <2>3. CASE p = 0
      BY <1>1, <1>2, <2>1, <2>3 DEF found, IInv, TaskInv, ParentInv
    <2> QED
      BY <2>1, <2>2, <2>3
  <1>4. /\ children' \in [Tasks -> Seq(Tasks)] /\ taskList' \in Seq(Tasks)
        /\ ListsOK(parent, children') /\ Orphan(children', z)
    BY <1>1, <1>2, <1>3, DelTaskKeeps
  <1>5. /\ SchedInv(sch') /\ sch' \in SchedState
        /\ sch'.CurrentTask = sch.CurrentTask /\ sch'.panic = sch.panic
        /\ sch'.wait_state = sch.wait_state
        /\ sch'.state = [sch.state EXCEPT ![z] = "FREE"]
        /\ sch.state \in [Tasks -> States]
        /\ parent' = [parent EXCEPT ![z] = NULL]
        /\ parent' \in [Tasks -> Tasks \cup {NULL}] /\ tid' \in [Tasks -> Int]
        /\ WaitInv' /\ ParentInv'
    BY <1>2, <1>3, <1>4, ReleasedKeeps
  <1>6. pc' = [x \in Tasks |-> IF x = t THEN "user"
                               ELSE IF x = z THEN "none" ELSE pc[x]]
    BY <1>1, <1>2, <1>3
  <1>7. TypeOK'
    <2>1. pc' \in [Tasks -> Locations]
      BY <1>1, <1>6 DEF Locations, InitLocations
    <2>2. arg' \in [Tasks -> Nat]
      BY <1>1, <1>2
    <2> QED
      BY <1>2, <1>4, <1>5, <2>1, <2>2 DEF IInv, TypeOK
  <1>8. DeadInv'
    BY <1>1, <1>3, <1>5, <1>6 DEF IInv, TaskInv, DeadInv, Caller
  <1>9. CurInv'
    BY <1>1, <1>3, <1>5 DEF CurInv, Cur
  <1>10. PtrInv'
    <2>1. (z # InitTask /\ pc'[InitTask] = pc[InitTask]) \/ pc'[InitTask] = "none"
      BY <1>1, <1>6
    <2>2. CASE z # InitTask /\ pc'[InitTask] = pc[InitTask]
      <3>1. /\ sch'.state[InitTask] = sch.state[InitTask]
            /\ ptr \in Tasks /\ (sch.state[ptr] = "UNINIT" \/ parent[ptr] = InitTask)
                  => /\ ptr # z /\ sch'.state[ptr] = sch.state[ptr]
                     /\ parent'[ptr] = parent[ptr]
        BY <1>1, <1>3, <1>5, <2>2 DEF IInv, TypeOK
      <3>2. Contains(children'[InitTask], ptr) => Contains(children[InitTask], ptr)
        <4>1. children'[InitTask] = children[InitTask]
          BY <1>1, <1>2, <1>3 DEF del_task, IInv, TypeOK
        <4> QED
          BY <4>1
      <3> QED
        BY <1>2, <1>5, <2>2, <3>1, <3>2 DEF IInv, TaskInv, PtrInv
    <2>3. CASE pc'[InitTask] = "none"
      BY <2>3 DEF PtrInv
    <2> QED
      BY <2>1, <2>2, <2>3
  <1> QED
    BY <1>5, <1>7, <1>8, <1>9, <1>10 DEF IInv, TaskInv

LEMMA do_waitKeeps ==
    ASSUME IInv, NEW t, Caller(t), NEW p \in Nat, do_wait(t, p) PROVE IInv'
  BY WaitReapsKeeps, WaitSleepsKeeps, WaitFailsKeeps DEF do_wait

----------------------------------------------------------------------------
(* The theorems.                                                           *)

LEMMA NextKeeps == IInv /\ [Next]_vars => IInv'
  <1> SUFFICES ASSUME IInv, [Next]_vars PROVE IInv'
    OBVIOUS
  <1>1. CASE UNCHANGED vars
    BY <1>1 DEF vars, IInv, TypeOK, TaskInv, WaitInv, DeadInv, CurInv, ParentInv, PtrInv, Cur
  <1>2. CASE Tick \/ cpu_idle
    BY <1>2, TickKeeps, cpu_idleKeeps
  <1>3. CASE InitStep
    <2>1. InitTask \in Tasks \ {Idle}
      BY InitTaskAssumption
    <2> QED
      BY <1>3, <2>1, InitCreatesKeeps, InitWakesKeeps, InitRepeatsKeeps, InitScansKeeps,
         InitSetsStateKeeps, InitSetsWaitStateKeeps, InitSchedulesKeeps,
         InitDeletesKeeps, InitFreesKeeps, ThreadExitsKeeps, ThreadExitsCliKeeps
         DEF InitStep
  <1>4. ASSUME NEW t \in Users,
               \/ user_task(t) \/ ThreadExits(t) \/ ThreadExitsCli(t) \/ sys_exit(t)
               \/ \E c \in Users : sys_fork(t, c)
        PROVE  IInv'
    <2>1. t \in Tasks \ {Idle}
      BY DEF Users
    <2> QED
      BY <1>4, <2>1, user_taskKeeps, ThreadExitsKeeps, ThreadExitsCliKeeps,
         sys_exitKeeps, sys_forkKeeps
  <1>5. ASSUME NEW t \in Users, sys_wait(t)
        PROVE  IInv'
    <2>1. Caller(t) /\ \E p \in Nat : do_wait(t, p)
      BY <1>5 DEF sys_wait, Caller, Cur
    <2> QED
      BY <2>1, do_waitKeeps
  <1>6. ASSUME NEW t \in Users, WaitRepeats(t)
        PROVE  IInv'
    <2>1. Caller(t) /\ arg[t] \in Nat /\ do_wait(t, arg[t])
      BY <1>6 DEF WaitRepeats, Caller, Cur, IInv, TypeOK, Users
    <2> QED
      BY <2>1, do_waitKeeps
  <1> QED
    BY <1>1, <1>2, <1>3, <1>4, <1>5, <1>6 DEF Next

LEMMA Inductive == Spec => []IInv
  BY InitHolds, NextKeeps, PTL DEF Spec

\* Every reachable state of fork, exit, wait and the init thread has its type.
THEOREM TypeCorrect == Spec => []TypeOK
  <1>1. IInv => TypeOK
    BY DEF IInv
  <1> QED
    BY <1>1, Inductive, PTL

\* The invariant of the marks, the zombies, the CPU, the family and of what
\* init holds on to inside do_wait() (task.c).
THEOREM TaskInvariant == Spec => []TaskInv
  <1>1. IInv => TaskInv
    BY DEF IInv
  <1> QED
    BY <1>1, Inductive, PTL

\* For any number of tasks the run queue of sched.c holds exactly the runnable
\* tasks that are not on the CPU, each one once, and task_num counts them,
\* though init is preempted between setting its state and calling schedule().
THEOREM RunQueueExactAlways == Spec => []RunQueueOK
  <1>1. IInv => RunQueueOK
    BY DEF IInv, SchedInv, RunQueueOK
  <1> QED
    BY <1>1, Inductive, PTL

\* For any number of tasks neither the panic of wakeupTask() nor the one at
\* the end of do_exit() is reached.
THEOREM NeverPanics == Spec => []NoPanic
  <1>1. IInv => NoPanic
    BY DEF IInv, TypeOK, SchedState, TaskInv, DeadInv, CurInv, Cur, NoPanic
  <1> QED
    BY <1>1, Inductive, PTL

----------------------------------------------------------------------------
(* The family: its inductive invariant, on top of IInv.                    *)

\* a comes before b in q.
Before(q, a, b) ==
    \E i, j \in 1 .. Len(q) : i < j /\ q[i] = a /\ q[j] = b

Distinct(q) == \A i, j \in 1 .. Len(q) : q[i] = q[j] => i = j

Thread(t) == pc[t] \in {"kthread", "exit", "exit_cli"}
Leaving == pc[InitTask] \in {"exit", "exit_cli", "dead"}

\* The only task init may hold that is in no list any more.
Unlisted(c) == pc[InitTask] = "kfree" /\ ptr = c

\* Every parent is alive; idle has init for its only child.
TreeInv ==
    /\ parent[Idle] = NULL
    /\ \A c \in Tasks : parent[c] = Idle <=> c = InitTask
    /\ \A c \in Tasks : parent[c] \in Tasks
                        => sch.state[parent[c]] \notin {"FREE", "ZOMBIE"}

\* A kernel thread of init has no children: its do_exit(), which a tick can
\* cut in two, has nobody to wake but init and nothing to hand over.
ThreadInv ==
    \A t \in Users : Thread(t) => /\ parent[t] = InitTask
                                  /\ \A c \in Tasks : parent[c] # t

\* The task list holds the allocated tasks, each one once, and the lists of
\* children hold the same tasks.
ListInv ==
    /\ Distinct(taskList)
    /\ \A c \in Tasks : Contains(taskList, c) <=> sch.state[c] # "FREE" /\ ~Unlisted(c)
    /\ \A p, c \in Tasks : Contains(children[p], c)
                            <=> parent[c] = p /\ Contains(taskList, c)

\* A parent is older than its children, and init than every process: no
\* process is its own ancestor.
OrderInv ==
    /\ \A u \in Users : Contains(taskList, u) => Before(taskList, u, InitTask)
    /\ \A c \in Tasks \ {Idle} : Contains(taskList, c) => Before(taskList, c, parent[c])

Asleep(t) == pc[t] = "wait" /\ sch.state[t] = "SLEEPING"

\* What keeps a sleeping process asleep.  With pid = 0: no child is a zombie.
\* With a pid: a child k that lives has it, and no newer task with that pid is
\* a child of the process.
NothingToReap(t) ==
    /\ sch.wait_state[t] = "CHILD"
    /\ arg[t] = 0 => \A c \in Tasks : parent[c] = t => sch.state[c] # "ZOMBIE"
    /\ arg[t] # 0 =>
         \E k \in Tasks :
            /\ Contains(taskList, k) /\ tid[k] = arg[t] /\ parent[k] = t
            /\ sch.state[k] # "ZOMBIE"
            /\ \A c \in Tasks : Before(taskList, c, k) /\ tid[c] = arg[t]
                                => parent[c] # t

SleepInv == \A t \in Users : Asleep(t) => NothingToReap(t)

FInv == TreeInv /\ ThreadInv /\ ListInv /\ OrderInv /\ InitLeavesLast /\ SleepInv


----------------------------------------------------------------------------
(* Sequences.                                                              *)

\* A set of numbers that is not empty has a least element.
LEMMA LeastOf ==
    ASSUME NEW T \in SUBSET Nat, T # {}
    PROVE  \E x \in T : \A y \in T : x <= y
  <1> DEFINE R == OpToRel(<, Nat)
  <1>1. IsWellFoundedOn(R, Nat)
    BY NatLessThanWellFounded
  <1>2. \A x, y \in Nat : <<x, y>> \in R <=> x < y
    BY DEF OpToRel
  <1> HIDE DEF R
  <1>3. PICK x \in T : \A y \in T : ~(<<y, x>> \in R)
    BY <1>1, WFMin
  <1>4. \A y \in T : ~(y < x)
    BY <1>2, <1>3
  <1> QED
    BY <1>4

\* What is in a list, and in which order, after an element was put in front.
Longer(S, q, r, c) ==
    /\ Distinct(q) /\ ~Contains(q, c) => Distinct(r)
    /\ \A x \in S : Contains(r, x) <=> Contains(q, x) \/ x = c
    /\ \A a, b \in S : Before(q, a, b) => Before(r, a, b)
    /\ \A b \in S : Contains(q, b) => Before(r, c, b)
    /\ \A a, b \in S : Before(r, a, b) => Before(q, a, b) \/ a = c

LEMMA ConsMembers ==
    ASSUME NEW S, NEW q \in Seq(S), NEW c \in S, NEW r, r = <<c>> \o q
    PROVE  Longer(S, q, r, c)
  <1>1. /\ Len(q) \in Nat /\ Len(r) = Len(q) + 1 /\ r[1] = c
        /\ \A i \in 2 .. Len(q) + 1 : r[i] = q[i - 1]
    BY ConsElements
  <1>2. \A i \in 1 .. Len(q) : i + 1 \in 1 .. Len(r) /\ r[i + 1] = q[i] /\ 1 < i + 1
    BY <1>1
  <1>3. \A i \in 1 .. Len(r) : i # 1 => i - 1 \in 1 .. Len(q) /\ r[i] = q[i - 1]
    BY <1>1
  <1>4. ASSUME Distinct(q), ~Contains(q, c)
        PROVE  Distinct(r)
    <2> SUFFICES ASSUME NEW i \in 1 .. Len(r), NEW j \in 1 .. Len(r), r[i] = r[j]
                 PROVE  i = j
      BY DEF Distinct
    <2>1. CASE i # 1 /\ j # 1
      <3>1. i - 1 = j - 1
        BY <1>3, <1>4, <2>1 DEF Distinct
      <3> QED
        BY <1>1, <3>1
    <2>2. CASE i = 1 \/ j = 1
      BY <1>1, <1>3, <1>4, <2>2 DEF Contains
    <2> QED
      BY <2>1, <2>2
  <1>5. ASSUME NEW x \in S PROVE Contains(r, x) <=> Contains(q, x) \/ x = c
    <2>1. Contains(q, x) \/ x = c => Contains(r, x)
      BY <1>1, <1>2 DEF Contains
    <2>2. Contains(r, x) => Contains(q, x) \/ x = c
      BY <1>1, <1>3 DEF Contains
    <2> QED
      BY <2>1, <2>2
  <1>6. ASSUME NEW a \in S, NEW b \in S, Before(q, a, b)
        PROVE  Before(r, a, b)
    <2>1. PICK i, j \in 1 .. Len(q) : i < j /\ q[i] = a /\ q[j] = b
      BY <1>6 DEF Before
    <2>2. i + 1 < j + 1
      BY <2>1
    <2> QED
      BY <1>2, <2>1, <2>2 DEF Before
  <1>7. ASSUME NEW b \in S, Contains(q, b)
        PROVE  Before(r, c, b)
    <2>1. PICK i \in 1 .. Len(q) : q[i] = b
      BY <1>7 DEF Contains
    <2>2. 1 \in 1 .. Len(r)
      BY <1>1
    <2> QED
      BY <1>1, <1>2, <2>1, <2>2 DEF Before
  <1>8. ASSUME NEW a \in S, NEW b \in S, Before(r, a, b), a # c
        PROVE  Before(q, a, b)
    <2>1. PICK i, j \in 1 .. Len(r) : i < j /\ r[i] = a /\ r[j] = b
      BY <1>8 DEF Before
    <2>2. i # 1 /\ j # 1 /\ i - 1 < j - 1
      BY <1>1, <1>8, <2>1
    <2> QED
      BY <1>3, <2>1, <2>2 DEF Before
  <1> QED
    BY <1>4, <1>5, <1>6, <1>7, <1>8 DEF Longer

\* The same after one element was taken out.
Shorter(S, q, r, z) ==
    /\ Distinct(r)
    /\ \A x \in S : Contains(r, x) <=> Contains(q, x) /\ x # z
    /\ \A a, b \in S : Before(r, a, b) <=> Before(q, a, b) /\ a # z /\ b # z

LEMMA RemoveMembers ==
    ASSUME NEW S, NEW q \in Seq(S), Distinct(q), NEW k \in 1 .. Len(q),
           NEW r, r = RemoveAt(q, k)
    PROVE  Shorter(S, q, r, q[k])
  <1>1. /\ Len(q) \in Nat /\ Len(r) = Len(q) - 1
        /\ \A j \in 1 .. Len(q) - 1 : r[j] = IF j < k THEN q[j] ELSE q[j + 1]
    BY RemoveAtElements
  <1> DEFINE old(j) == IF j < k THEN j ELSE j + 1
             new(j) == IF j < k THEN j ELSE j - 1
  <1>2. \A j \in 1 .. Len(r) : /\ old(j) \in 1 .. Len(q) /\ old(j) # k
                               /\ r[j] = q[old(j)]
    BY <1>1
  <1>3. \A j \in 1 .. Len(q) : j # k => /\ new(j) \in 1 .. Len(r)
                                        /\ r[new(j)] = q[j]
    BY <1>1
  <1>4. /\ \A i, j \in 1 .. Len(r) : i < j => old(i) < old(j)
        /\ \A i, j \in 1 .. Len(r) : old(i) = old(j) => i = j
        /\ \A i, j \in 1 .. Len(q) : i # k /\ j # k /\ i < j => new(i) < new(j)
    BY <1>1
  <1> HIDE DEF old, new
  <1>5. \A j \in 1 .. Len(r) : r[j] # q[k]
    BY <1>2 DEF Distinct
  <1>6. Distinct(r)
    BY <1>2, <1>4 DEF Distinct
  <1>7. ASSUME NEW x \in S PROVE Contains(r, x) <=> Contains(q, x) /\ x # q[k]
    <2>1. Contains(r, x) => Contains(q, x) /\ x # q[k]
      BY <1>2, <1>5 DEF Contains
    <2>2. Contains(q, x) /\ x # q[k] => Contains(r, x)
      BY <1>3 DEF Contains
    <2> QED
      BY <2>1, <2>2
  <1>8. ASSUME NEW a \in S, NEW b \in S, Before(r, a, b)
        PROVE  Before(q, a, b) /\ a # q[k] /\ b # q[k]
    <2>1. PICK i, j \in 1 .. Len(r) : i < j /\ r[i] = a /\ r[j] = b
      BY <1>8 DEF Before
    <2>2. /\ old(i) \in 1 .. Len(q) /\ old(j) \in 1 .. Len(q) /\ old(i) < old(j)
          /\ q[old(i)] = a /\ q[old(j)] = b
      BY <1>2, <1>4, <2>1
    <2> QED
      BY <1>5, <2>1, <2>2 DEF Before
  <1>9. ASSUME NEW a \in S, NEW b \in S, Before(q, a, b), a # q[k], b # q[k]
        PROVE  Before(r, a, b)
    <2>1. PICK i, j \in 1 .. Len(q) : i < j /\ q[i] = a /\ q[j] = b
      BY <1>9 DEF Before
    <2>2. /\ new(i) \in 1 .. Len(r) /\ new(j) \in 1 .. Len(r) /\ new(i) < new(j)
          /\ r[new(i)] = a /\ r[new(j)] = b
      BY <1>3, <1>4, <1>9, <2>1
    <2> QED
      BY <2>2 DEF Before
  <1> QED
    BY <1>6, <1>7, <1>8, <1>9 DEF Shorter

\* Of the elements of U in a list, one comes last.
LEMMA LastMember ==
    ASSUME NEW S, NEW q \in Seq(S), Distinct(q), NEW U \in SUBSET S,
           NEW u \in U, Contains(q, u)
    PROVE  \E a \in U : Contains(q, a) /\ \A b \in U : ~Before(q, a, b)
  <1> DEFINE T == {n \in 0 .. Len(q) - 1 : q[Len(q) - n] \in U}
  <1>1. Len(q) \in Nat /\ T \in SUBSET Nat
    OBVIOUS
  <1>2. PICK i \in 1 .. Len(q) : q[i] = u
    BY DEF Contains
  <1>3. Len(q) - i \in T
    BY <1>1, <1>2
  <1> HIDE DEF T
  <1>4. PICK n \in T : \A m \in T : n <= m
    BY <1>1, <1>3, LeastOf
  <1>5. n \in 0 .. Len(q) - 1 /\ q[Len(q) - n] \in U /\ Len(q) - n \in 1 .. Len(q)
    BY <1>1 DEF T
  <1>6. PICK k \in 1 .. Len(q) : k = Len(q) - n /\ q[k] \in U
    BY <1>5
  <1>7. \A j \in 1 .. Len(q) : q[j] \in U => j <= k
    <2> SUFFICES ASSUME NEW j \in 1 .. Len(q), q[j] \in U PROVE j <= k
      OBVIOUS
    <2>1. Len(q) - j \in T
      BY <1>1 DEF T
    <2>2. n <= Len(q) - j
      BY <1>4, <2>1
    <2> QED
      BY <1>1, <1>5, <1>6, <2>2
  <1>8. \A b \in U : ~Before(q, q[k], b)
    <2> SUFFICES ASSUME NEW b \in U, Before(q, q[k], b) PROVE FALSE
      OBVIOUS
    <2>1. PICK i1, j1 \in 1 .. Len(q) : i1 < j1 /\ q[i1] = q[k] /\ q[j1] = b
      BY DEF Before
    <2>2. i1 = k /\ j1 <= k
      BY <1>7, <2>1 DEF Distinct
    <2> QED
      BY <2>1, <2>2
  <1> QED
    BY <1>6, <1>8 DEF Contains


\* Who is whose child after reparent(t).
Adopted(t) ==
    /\ \A c \in Tasks : parent'[c] = IF Contains(children[t], c) THEN InitTask
                                                                 ELSE parent[c]
    /\ \A c \in Tasks : Contains(children'[InitTask], c)
                        <=> Contains(children[InitTask], c) \/ Contains(children[t], c)
    /\ \A p \in Tasks \ {InitTask} : \A c \in Tasks :
          Contains(children'[p], c) <=> p # t /\ Contains(children[p], c)

LEMMA ReparentMembers ==
    ASSUME children \in [Tasks -> Seq(Tasks)], NEW t \in Tasks, reparent(t)
    PROVE  Adopted(t)
  <1> DEFINE p == children[t]
             q == IF t = InitTask THEN << >> ELSE children[InitTask]
             r == Reverse(p) \o q
             left == [children EXCEPT ![t] = << >>]
  <1>1. /\ p \in Seq(Tasks) /\ q \in Seq(Tasks) /\ Len(p) \in Nat /\ Len(q) \in Nat
        /\ InitTask \in Tasks /\ Len(<< >>) = 0
    BY InitTaskAssumption
  <1>2. ReversedOnto(Tasks, r, p, q)
    BY <1>1, ReverseConcatElements, Zenon
  <1>3. /\ children'[InitTask] = r
        /\ \A x \in Tasks \ {InitTask} : children'[x] = IF x = t THEN << >> ELSE children[x]
    <2>1. children' = [left EXCEPT ![InitTask] = Reverse(p) \o left[InitTask]]
      BY DEF reparent
    <2>2. /\ left = [x \in Tasks |-> left[x]] /\ left[InitTask] = q
          /\ \A x \in Tasks : left[x] = IF x = t THEN << >> ELSE children[x]
      BY <1>1
    <2> HIDE DEF p, q, left
    <2> QED
      BY <1>1, <2>1, <2>2
  <1>4. \A c \in Tasks : parent'[c] = IF Contains(children[t], c) THEN InitTask ELSE parent[c]
    BY DEF reparent
  <1>5. \A c : Contains(q, c) \/ Contains(p, c)
               <=> Contains(children[InitTask], c) \/ Contains(children[t], c)
    BY <1>1 DEF Contains
  <1>6. \A c : ~Contains(<< >>, c)
    BY <1>1 DEF Contains
  <1> HIDE DEF p, q, r, left
  <1>7. ASSUME NEW c PROVE Contains(r, c) <=> Contains(q, c) \/ Contains(p, c)
    <2>1. ASSUME Contains(r, c) PROVE Contains(q, c) \/ Contains(p, c)
      <3>1. PICK i \in 1 .. Len(r) : r[i] = c
        BY <2>1 DEF Contains
      <3>2. CASE i <= Len(p)
        <4>1. i \in 1 .. Len(p) /\ (Len(p) - i) + 1 \in 1 .. Len(p)
          BY <1>1, <1>2, <3>2 DEF ReversedOnto
        <4> QED
          BY <1>2, <3>1, <4>1 DEF ReversedOnto, Contains
      <3>3. CASE ~(i <= Len(p))
        <4>1. i - Len(p) \in 1 .. Len(q) /\ i = Len(p) + (i - Len(p))
          BY <1>1, <1>2, <3>3 DEF ReversedOnto
        <4>2. r[i] = q[i - Len(p)]
          BY <1>2, <4>1 DEF ReversedOnto
        <4> QED
          BY <3>1, <4>1, <4>2 DEF Contains
      <3> QED
        BY <3>2, <3>3
    <2>2. ASSUME Contains(q, c) PROVE Contains(r, c)
      <3>1. PICK i \in 1 .. Len(q) : q[i] = c
        BY <2>2 DEF Contains
      <3>2. Len(p) + i \in 1 .. Len(r)
        BY <1>1, <1>2, <3>1 DEF ReversedOnto
      <3>3. r[Len(p) + i] = c
        BY <1>2, <3>1 DEF ReversedOnto
      <3> QED
        BY <3>2, <3>3 DEF Contains
    <2>3. ASSUME Contains(p, c) PROVE Contains(r, c)
      <3>1. PICK i \in 1 .. Len(p) : p[i] = c
        BY <2>3 DEF Contains
      <3>2. /\ (Len(p) - i) + 1 \in 1 .. Len(p)
            /\ (Len(p) - ((Len(p) - i) + 1)) + 1 = i
        BY <1>1
      <3>3. PICK j \in 1 .. Len(p) : (Len(p) - j) + 1 = i
        BY <3>2
      <3>4. r[j] = p[(Len(p) - j) + 1]
        BY <1>2 DEF ReversedOnto
      <3>5. j \in 1 .. Len(r)
        BY <1>1, <1>2 DEF ReversedOnto
      <3> QED
        BY <3>1, <3>3, <3>4, <3>5 DEF Contains
    <2> QED
      BY <2>1, <2>2, <2>3
  <1>8. \A c \in Tasks : Contains(children'[InitTask], c)
                        <=> Contains(children[InitTask], c) \/ Contains(children[t], c)
    BY <1>3, <1>5, <1>7
  <1>9. \A x \in Tasks \ {InitTask} : \A c \in Tasks :
           Contains(children'[x], c) <=> x # t /\ Contains(children[x], c)
    BY <1>3, <1>6
  <1> QED
    BY <1>4, <1>8, <1>9 DEF Adopted

----------------------------------------------------------------------------
(* The initial states.                                                     *)

LEMMA InitFamily == Init => FInv
  <1> SUFFICES ASSUME Init PROVE FInv
    OBVIOUS
  <1> USE DEF Init
  <1>0. /\ Idle \in Tasks /\ InitTask \in Tasks /\ InitTask # Idle /\ NULL \notin Tasks
    BY IdleAssumption, InitTaskAssumption, NULLAssumption
  <1>1. /\ parent[Idle] = NULL /\ parent[InitTask] = Idle
        /\ \A t \in Users : parent[t] = NULL
        /\ \A t \in Tasks : t \in {Idle, InitTask} \/ t \in Users
        /\ pc[InitTask] = "create" /\ \A t \in Users : t \in Tasks /\ pc[t] = "none"
        /\ \A t \in Tasks : sch.state[t] = IF t \in Users THEN "FREE" ELSE "RUNNABLE"
    BY <1>0 DEF Users
  <1>2. /\ Len(taskList) = 2 /\ taskList[1] = InitTask /\ taskList[2] = Idle
        /\ Len(children[Idle]) = 1 /\ children[Idle][1] = InitTask
        /\ \A p \in Tasks \ {Idle} : Len(children[p]) = 0
    BY <1>0
  <1>3. \A c : Contains(taskList, c) <=> c \in {Idle, InitTask}
    <2>1. 1 \in 1 .. 2 /\ 2 \in 1 .. 2 /\ \A i \in 1 .. 2 : i = 1 \/ i = 2
      OBVIOUS
    <2> QED
      BY <1>2, <2>1 DEF Contains
  <1>4. \A p, c \in Tasks : Contains(children[p], c) <=> p = Idle /\ c = InitTask
    BY <1>2 DEF Contains
  <1>5. TreeInv
    BY <1>0, <1>1 DEF TreeInv, Users
  <1>6. ThreadInv
    BY <1>1 DEF ThreadInv, Thread
  <1>7. ListInv
    <2>1. Distinct(taskList)
      BY <1>0, <1>2 DEF Distinct
    <2>2. \A c \in Tasks : Contains(taskList, c) <=> sch.state[c] # "FREE" /\ ~Unlisted(c)
      BY <1>0, <1>1, <1>3 DEF Unlisted, Users
    <2>3. \A p, c \in Tasks : Contains(children[p], c)
                               <=> parent[c] = p /\ Contains(taskList, c)
      BY <1>0, <1>1, <1>3, <1>4 DEF Users
    <2> QED
      BY <2>1, <2>2, <2>3 DEF ListInv
  <1>8. OrderInv
    <2>1. Before(taskList, InitTask, Idle)
      BY <1>2 DEF Before
    <2> QED
      BY <1>0, <1>1, <1>3, <2>1 DEF OrderInv, Users
  <1>9. InitLeavesLast
    BY <1>1 DEF InitLeavesLast
  <1>10. SleepInv
    BY <1>1 DEF SleepInv, Asleep
  <1> QED
    BY <1>5, <1>6, <1>7, <1>8, <1>9, <1>10 DEF FInv


----------------------------------------------------------------------------
(* Steps that leave the lists alone.                                       *)

\* No task is created, reaped or handed over.  The only new zombie is a
\* thread at the assignment of do_exit(); init begins to leave only when it
\* has no children; and who falls asleep has nothing to reap.
Quiet ==
    /\ UNCHANGED <<parent, children, taskList, tid>>
    /\ \A x \in Tasks : sch'.state[x] = "FREE" <=> sch.state[x] = "FREE"
    /\ \A x \in Tasks : Unlisted(x)' <=> Unlisted(x)
    /\ \A t \in Users : Thread(t)' => Thread(t)
    /\ \A x \in Tasks : sch'.state[x] = "ZOMBIE" =>
          \/ sch.state[x] = "ZOMBIE"
          \/ x \in Users /\ Thread(x)
          \/ x = InitTask /\ Leaving
    /\ Leaving' => Leaving \/ Allocated \subseteq {Idle, InitTask}
    /\ \A t \in Users : Asleep(t)' =>
          \/ NothingToReap(t)'
          \/ Asleep(t) /\ arg'[t] = arg[t] /\ sch'.wait_state[t] = sch.wait_state[t]

LEMMA QuietKeeps == ASSUME IInv, FInv, Quiet PROVE FInv'
  <1>1. UNCHANGED <<parent, children, taskList, tid>>
    BY DEF Quiet
  <1>2. ListInv' /\ OrderInv'
    BY <1>1 DEF Quiet, FInv, ListInv, OrderInv
  <1>3. ThreadInv'
    BY <1>1 DEF Quiet, FInv, ThreadInv
  <1>4. ASSUME Leaving PROVE \A c \in Tasks : parent[c] # InitTask
    <2>1. \A c \in Users : sch.state[c] = "FREE" /\ parent[c] = NULL /\ c \in Tasks
      BY <1>4 DEF FInv, InitLeavesLast, Leaving, Allocated, Users, IInv, TaskInv, ParentInv
    <2> QED
      BY <2>1, IdleAssumption, InitTaskAssumption, NULLAssumption
         DEF FInv, TreeInv, Users
  <1>5. TreeInv'
    <2>1. ASSUME NEW c \in Tasks, parent[c] \in Tasks
          PROVE  sch'.state[parent[c]] \notin {"FREE", "ZOMBIE"}
      <3>1. sch.state[parent[c]] \notin {"FREE", "ZOMBIE"}
        BY <2>1 DEF FInv, TreeInv
      <3>2. sch'.state[parent[c]] # "ZOMBIE"
        BY <1>4, <2>1, <3>1 DEF Quiet, FInv, ThreadInv
      <3> QED
        BY <2>1, <3>1, <3>2 DEF Quiet
    <2> QED
      BY <1>1, <2>1 DEF FInv, TreeInv
  <1>6. InitLeavesLast'
    <2>1. Leaving' => Allocated \subseteq {Idle, InitTask}
      BY DEF Quiet, FInv, InitLeavesLast, Leaving
    <2>2. Allocated' = Allocated
      BY DEF Quiet, Allocated
    <2> QED
      BY <2>1, <2>2 DEF InitLeavesLast, Leaving
  <1>7. SleepInv'
    <2> SUFFICES ASSUME NEW t \in Users, Asleep(t)' PROVE NothingToReap(t)'
      BY DEF SleepInv
    <2>1. CASE Asleep(t) /\ arg'[t] = arg[t] /\ sch'.wait_state[t] = sch.wait_state[t]
      <3>1. NothingToReap(t)
        BY <2>1 DEF FInv, SleepInv
      <3>2. \A c \in Tasks : parent[c] = t => (sch'.state[c] = "ZOMBIE" => sch.state[c] = "ZOMBIE")
        BY InitTaskAssumption DEF Quiet, FInv, ThreadInv, TreeInv, Users
      <3>3. /\ sch'.wait_state[t] = "CHILD"
            /\ arg'[t] = 0 => \A c \in Tasks : parent'[c] = t => sch'.state[c] # "ZOMBIE"
        BY <1>1, <2>1, <3>1, <3>2 DEF NothingToReap
      <3>4. ASSUME arg'[t] # 0
            PROVE  \E k \in Tasks :
                      /\ Contains(taskList, k) /\ tid[k] = arg[t] /\ parent[k] = t
                      /\ sch'.state[k] # "ZOMBIE"
                      /\ \A c \in Tasks : Before(taskList, c, k) /\ tid[c] = arg[t]
                                          => parent[c] # t
        BY <2>1, <3>1, <3>2, <3>4 DEF NothingToReap
      <3> QED
        BY <1>1, <2>1, <3>3, <3>4 DEF NothingToReap
    <2> QED
      BY <2>1 DEF Quiet
  <1> QED
    BY <1>2, <1>3, <1>5, <1>6, <1>7 DEF FInv


LEMMA TickFamily == ASSUME IInv, FInv, Tick \/ cpu_idle PROVE FInv'
  <1>1. /\ sch'.state = sch.state /\ sch'.wait_state = sch.wait_state
        /\ UNCHANGED <<parent, children, taskList, tid, pc, arg, ptr>>
    BY TimerCorrect, ScheduleCorrect DEF Tick, cpu_idle, IInv
  <1>2. Quiet
    BY <1>1 DEF Quiet, Unlisted, Thread, Leaving, Asleep
  <1> QED
    BY <1>2, QuietKeeps

\* A step of init from one point of its loop to another: what it may change.
InitMoves(loc) ==
    /\ pc' = [pc EXCEPT ![InitTask] = loc]
    /\ pc[InitTask] # "kfree" /\ loc \notin {"kfree", "exit_cli", "dead"}
    /\ loc = "exit" => Leaving \/ Allocated \subseteq {Idle, InitTask}
    /\ UNCHANGED <<parent, children, taskList, tid, arg>>
    /\ \A x \in Tasks : \/ sch'.state[x] = sch.state[x]
                        \/ /\ sch.state[x] \notin {"FREE", "ZOMBIE"}
                           /\ sch'.state[x] \in {"RUNNABLE", "SLEEPING"}
                           /\ sch'.state[x] = "SLEEPING" => x = InitTask
    /\ \A t \in Users : sch'.state[t] = "SLEEPING" => sch'.wait_state[t] = sch.wait_state[t]

LEMMA InitMovesKeeps == ASSUME IInv, FInv, NEW loc, InitMoves(loc) PROVE FInv'
  <1>1. /\ pc' = [pc EXCEPT ![InitTask] = loc] /\ pc \in [Tasks -> Locations]
        /\ InitTask \in Tasks /\ InitTask \notin Users /\ Users \subseteq Tasks
        /\ UNCHANGED <<parent, children, taskList, tid, arg>>
    BY InitTaskAssumption DEF InitMoves, IInv, TypeOK, Users
  <1>2. pc'[InitTask] = loc /\ \A t \in Users : pc'[t] = pc[t]
    BY <1>1
  <1>3. \A x \in Tasks : ~Unlisted(x) /\ ~Unlisted(x)'
    BY <1>2 DEF InitMoves, Unlisted
  <1>4. /\ \A x \in Tasks : sch'.state[x] = "FREE" <=> sch.state[x] = "FREE"
        /\ \A x \in Tasks : sch'.state[x] = "ZOMBIE" => sch.state[x] = "ZOMBIE"
    BY DEF InitMoves
  <1>5. \A t \in Users : Thread(t)' <=> Thread(t)
    BY <1>2 DEF Thread
  <1>6. Leaving' => Leaving \/ Allocated \subseteq {Idle, InitTask}
    BY <1>2 DEF InitMoves, Leaving
  <1>7. \A t \in Users : Asleep(t)' =>
           Asleep(t) /\ arg'[t] = arg[t] /\ sch'.wait_state[t] = sch.wait_state[t]
    BY <1>1, <1>2 DEF InitMoves, Asleep
  <1>8. Quiet
    BY <1>1, <1>3, <1>4, <1>5, <1>6, <1>7 DEF Quiet
  <1> QED
    BY <1>8, QuietKeeps

LEMMA InitWakesFamily == ASSUME IInv, FInv, InitWakes PROVE FInv'
  <1>1. /\ ptr \in Tasks /\ sch.state[ptr] = "UNINIT" /\ SchedInv(sch)
        /\ sch.state \in [Tasks -> States] /\ sch.wait_state \in [Tasks -> WaitStates]
    BY DEF IInv, TypeOK, SchedState, TaskInv, PtrInv, InitWakes, AtInit
  <1>2. /\ pc[InitTask] = "wakeup"
        /\ pc' = [pc EXCEPT ![InitTask] = "repeat"] /\ sch' = wakeupTask(sch, ptr)
        /\ UNCHANGED <<parent, children, taskList, tid, arg>>
    BY DEF InitWakes, AtInit, GoTo
  <1>3. /\ sch'.state = [sch.state EXCEPT ![ptr] = "RUNNABLE"]
        /\ sch'.wait_state = [sch.wait_state EXCEPT ![ptr] = "NOTWAIT"]
    BY <1>1, <1>2, WakeupCorrect
  <1>4. InitMoves("repeat")
    BY <1>1, <1>2, <1>3 DEF InitMoves, Users
  <1> QED
    BY <1>4, InitMovesKeeps

LEMMA InitSetsFamily ==
    ASSUME IInv, FInv, InitSetsState \/ InitSetsWaitState PROVE FInv'
  <1>1. /\ InitTask \in Tasks /\ InitTask \notin Users /\ Users \subseteq Tasks
        /\ sch \in SchedState /\ "SLEEPING" \in States /\ "CHILD" \in WaitStates
        /\ sch.state \in [Tasks -> States] /\ sch.wait_state \in [Tasks -> WaitStates]
    BY InitTaskAssumption DEF IInv, TypeOK, SchedState, States, WaitStates, Users
  <1>2. CASE InitSetsState
    <2>1. /\ pc[InitTask] = "set_state" /\ sch.CurrentTask = InitTask
          /\ pc' = [pc EXCEPT ![InitTask] = "set_wait"]
          /\ sch' = setState(sch, InitTask, "SLEEPING")
          /\ UNCHANGED <<parent, children, taskList, tid, arg>>
      BY <1>2 DEF InitSetsState, AtInit, GoTo, Cur
    <2>2. sch'.state = [sch.state EXCEPT ![InitTask] = "SLEEPING"]
          /\ sch'.wait_state = sch.wait_state
      BY <1>1, <2>1, SetStateFields
    <2>3. sch.state[InitTask] = "RUNNABLE"
      BY <2>1 DEF IInv, TaskInv, CurInv, Cur
    <2>4. InitMoves("set_wait")
      BY <1>1, <2>1, <2>2, <2>3 DEF InitMoves
    <2> QED
      BY <2>4, InitMovesKeeps
  <1>3. CASE InitSetsWaitState
    <2>1. /\ pc[InitTask] = "set_wait"
          /\ pc' = [pc EXCEPT ![InitTask] = "schedule"]
          /\ sch' = setWaitState(sch, InitTask, "CHILD")
          /\ UNCHANGED <<parent, children, taskList, tid, arg>>
      BY <1>3 DEF InitSetsWaitState, AtInit, GoTo
    <2>2. sch'.wait_state = [sch.wait_state EXCEPT ![InitTask] = "CHILD"]
          /\ sch'.state = sch.state
      BY <1>1, <2>1, SetWaitStateFields
    <2>3. InitMoves("schedule")
      BY <1>1, <2>1, <2>2 DEF InitMoves
    <2> QED
      BY <2>3, InitMovesKeeps
  <1> QED
    BY <1>2, <1>3

LEMMA InitSchedulesFamily == ASSUME IInv, FInv, InitSchedules PROVE FInv'
  <1>1. /\ sch'.state = sch.state /\ sch'.wait_state = sch.wait_state
    BY ScheduleCorrect DEF InitSchedules, IInv
  <1>2. InitMoves("repeat")
    BY <1>1 DEF InitMoves, InitSchedules, AtInit, GoTo
  <1> QED
    BY <1>2, InitMovesKeeps

\* Without children init is alone: of the processes that are left, the last
\* in the task list would be a child of init.
LEMMA ChildlessAlone ==
    ASSUME IInv, FInv, children[InitTask] = << >>, pc[InitTask] = "repeat"
    PROVE  Allocated \subseteq {Idle, InitTask}
  <1> SUFFICES ASSUME NEW u \in Users, sch.state[u] # "FREE" PROVE FALSE
    BY DEF Allocated, Users
  <1>1. /\ taskList \in Seq(Tasks) /\ Distinct(taskList) /\ Users \in SUBSET Tasks
        /\ InitTask \in Tasks
    BY InitTaskAssumption DEF IInv, TypeOK, FInv, ListInv, Users
  <1>2. Contains(taskList, u)
    BY <1>1 DEF FInv, ListInv, Unlisted
  <1>3. PICK a \in Users : /\ Contains(taskList, a)
                           /\ \A b \in Users : ~Before(taskList, a, b)
    BY <1>1, <1>2, LastMember
  <1>4. Before(taskList, a, parent[a]) /\ parent[a] \notin Users /\ a \in Tasks \ {Idle, InitTask}
    BY <1>3 DEF FInv, OrderInv, Users
  <1>5. parent[a] \in Tasks
    <2>1. PICK j \in 1 .. Len(taskList) : taskList[j] = parent[a]
      BY <1>4 DEF Before
    <2> QED
      BY <1>1, <2>1
  <1>6. parent[a] = InitTask
    BY <1>4, <1>5 DEF FInv, TreeInv, Users
  <1>7. Contains(children[InitTask], a)
    BY <1>1, <1>3, <1>4, <1>6 DEF FInv, ListInv
  <1>8. Len(<< >>) = 0
    OBVIOUS
  <1> QED
    BY <1>7, <1>8 DEF Contains

LEMMA InitRepeatsFamily == ASSUME IInv, FInv, InitRepeats PROVE FInv'
  <1>1. /\ pc[InitTask] = "repeat"
        /\ UNCHANGED <<sch, parent, children, taskList, tid, arg>>
        /\ \/ /\ children[InitTask] = << >>
              /\ pc' = [pc EXCEPT ![InitTask] = "exit"]
           \/ pc' = [pc EXCEPT ![InitTask] = "scan"]
    BY DEF InitRepeats, AtInit, GoTo
  <1>2. InitMoves("exit") \/ InitMoves("scan")
    BY <1>1, ChildlessAlone DEF InitMoves
  <1> QED
    BY <1>2, InitMovesKeeps

LEMMA InitScansFamily == ASSUME IInv, FInv, InitScans PROVE FInv'
  <1>1. /\ pc[InitTask] = "scan"
        /\ UNCHANGED <<sch, parent, children, taskList, tid, arg>>
        /\ \E loc \in {"del_task", "set_state", "scan"} :
              pc' = [pc EXCEPT ![InitTask] = loc]
    BY DEF InitScans, AtInit, GoTo
  <1>2. \E loc : InitMoves(loc)
    BY <1>1 DEF InitMoves
  <1> QED
    BY <1>2, InitMovesKeeps

LEMMA user_taskFamily == ASSUME IInv, FInv, NEW t \in Users, user_task(t) PROVE FInv'
  <1>1. /\ pc \in [Tasks -> Locations] /\ t \in Tasks /\ t # InitTask /\ pc[t] = "kthread"
        /\ InitTask \in Tasks
    BY InitTaskAssumption DEF IInv, TypeOK, user_task, Users
  <1>2. PICK loc \in {"user", "exit"} : pc' = [pc EXCEPT ![t] = loc]
    BY DEF user_task
  <1>3. UNCHANGED <<sch, parent, children, taskList, tid, arg, ptr>>
    BY DEF user_task
  <1>4. pc'[InitTask] = pc[InitTask] /\ \A x \in Tasks \ {t} : pc'[x] = pc[x]
    BY <1>1, <1>2
  <1>5. Quiet
    BY <1>1, <1>2, <1>3, <1>4 DEF Quiet, Unlisted, Thread, Leaving, Asleep, Users
  <1> QED
    BY <1>5, QuietKeeps

LEMMA ThreadExitsFamily ==
    ASSUME IInv, FInv, NEW t \in Tasks \ {Idle}, ThreadExits(t) PROVE FInv'
  <1>1. /\ pc \in [Tasks -> Locations] /\ InitTask \in Tasks /\ sch \in SchedState
        /\ sch.CurrentTask = t /\ pc[t] = "exit" /\ "ZOMBIE" \in States
        /\ sch.state \in [Tasks -> States]
    BY InitTaskAssumption DEF IInv, TypeOK, ThreadExits, Cur, States, SchedState
  <1>2. /\ pc' = [pc EXCEPT ![t] = "exit_cli"] /\ sch' = setState(sch, t, "ZOMBIE")
        /\ UNCHANGED <<parent, children, taskList, tid, arg, ptr>>
    BY DEF ThreadExits
  <1>3. /\ sch'.wait_state = sch.wait_state
        /\ sch'.state = [sch.state EXCEPT ![t] = "ZOMBIE"]
    BY <1>1, <1>2, SetStateFields
  <1>4. sch.state[t] = "RUNNABLE"
    BY <1>1 DEF IInv, TaskInv, CurInv, Cur
  <1>5. pc'[t] = "exit_cli" /\ \A x \in Tasks \ {t} : pc'[x] = pc[x]
    BY <1>1, <1>2
  <1>6. (\A x \in Tasks : Unlisted(x)' <=> Unlisted(x)) /\ (Leaving' => Leaving)
    BY <1>1, <1>2, <1>5 DEF Unlisted, Leaving
  <1>7. /\ \A u \in Users : u \in Tasks /\ (Thread(u)' => Thread(u))
        /\ \A u \in Users : Asleep(u)' => Asleep(u)
    BY <1>1, <1>3, <1>5 DEF Thread, Asleep, Users
  <1>8. /\ \A x \in Tasks : sch'.state[x] = "FREE" <=> sch.state[x] = "FREE"
        /\ \A x \in Tasks : sch'.state[x] = "ZOMBIE" => sch.state[x] = "ZOMBIE" \/ x = t
    BY <1>1, <1>3, <1>4
  <1>9. (t \in Users /\ Thread(t)) \/ (t = InitTask /\ Leaving)
    BY <1>1 DEF Users, Thread, Leaving
  <1>10. Quiet
    BY <1>2, <1>3, <1>6, <1>7, <1>8, <1>9 DEF Quiet
  <1> QED
    BY <1>10, QuietKeeps


LEMMA WaitFailsFamily ==
    ASSUME IInv, FInv, NEW t, Caller(t), NEW p, WaitFails(t, p) PROVE FInv'
  <1>1. /\ t \in Tasks \ {Idle, InitTask} /\ sch.state[t] = "RUNNABLE"
        /\ InitTask \in Tasks /\ pc \in [Tasks -> Locations] /\ arg \in [Tasks -> Nat]
    BY CallerRuns
  <1>2. /\ pc' = [pc EXCEPT ![t] = "user"] /\ arg' = [arg EXCEPT ![t] = 0]
        /\ UNCHANGED <<sch, parent, children, taskList, tid, ptr>>
    BY DEF WaitFails
  <1>3. /\ pc'[t] = "user" /\ pc'[InitTask] = pc[InitTask]
        /\ \A x \in Tasks \ {t} : pc'[x] = pc[x] /\ arg'[x] = arg[x]
    BY <1>1, <1>2
  <1>4. Quiet
    BY <1>1, <1>2, <1>3 DEF Quiet, Unlisted, Thread, Leaving, Asleep, Users
  <1> QED
    BY <1>4, QuietKeeps

\* do_wait() found a child and none to reap: the state in which it sleeps.
LEMMA NoneFound ==
    ASSUME IInv, FInv, NEW t \in Users, NEW p \in Nat,
           haskid(t, p), ~ \E z \in Tasks : found(t, p, z)
    PROVE  /\ p = 0 => \A c \in Tasks : parent[c] = t => sch.state[c] # "ZOMBIE"
           /\ p # 0 => \E k \in Tasks :
                 /\ Contains(taskList, k) /\ tid[k] = p /\ parent[k] = t
                 /\ sch.state[k] # "ZOMBIE"
                 /\ \A c \in Tasks : Before(taskList, c, k) /\ tid[c] = p
                                     => parent[c] # t
  <1>0. /\ t \in Tasks /\ t # InitTask /\ t # NULL
        /\ children[t] \in Seq(Tasks) /\ taskList \in Seq(Tasks)
    BY NULLAssumption DEF Users, IInv, TypeOK
  <1>1. ASSUME p = 0, NEW c \in Tasks, parent[c] = t, sch.state[c] = "ZOMBIE"
        PROVE  FALSE
    <2>1. ~Unlisted(c)
      BY <1>0, <1>1 DEF Unlisted, IInv, TaskInv, PtrInv
    <2>2. Contains(children[t], c)
      BY <1>0, <1>1, <2>1 DEF FInv, ListInv
    <2> DEFINE Z == {i \in 1 .. Len(children[t]) : sch.state[children[t][i]] = "ZOMBIE"}
    <2>3. Z \in SUBSET Nat /\ Z # {}
      BY <1>1, <2>2 DEF Contains
    <2>4. PICK i \in Z : \A j \in Z : i <= j
      <3> HIDE DEF Z
      <3> QED
        BY <2>3, LeastOf
    <2>5. \A j \in 1 .. i - 1 : sch.state[children[t][j]] # "ZOMBIE"
      <3> SUFFICES ASSUME NEW j \in 1 .. i - 1, sch.state[children[t][j]] = "ZOMBIE"
                   PROVE  FALSE
        OBVIOUS
      <3>1. j \in Z
        BY <1>0
      <3> QED
        BY <2>4, <3>1
    <2>6. found(t, p, children[t][i]) /\ children[t][i] \in Tasks
      BY <1>0, <1>1, <2>4, <2>5 DEF found
    <2> QED
      BY <2>6
  <1>2. ASSUME p # 0
        PROVE  \E k \in Tasks :
                 /\ Contains(taskList, k) /\ tid[k] = p /\ parent[k] = t
                 /\ sch.state[k] # "ZOMBIE"
                 /\ \A c \in Tasks : Before(taskList, c, k) /\ tid[c] = p
                                     => parent[c] # t
    <2>1. PICK k \in Tasks : find_task(p, k) /\ parent[k] = t
      BY <1>2 DEF haskid
    <2>2. PICK i \in 1 .. Len(taskList) :
             /\ taskList[i] = k /\ tid[k] = p
             /\ \A j \in 1 .. i - 1 : tid[taskList[j]] # p
      BY <2>1 DEF find_task
    <2>3. Contains(taskList, k)
      BY <2>2 DEF Contains
    <2>4. sch.state[k] # "ZOMBIE"
      BY <1>2, <2>1 DEF found
    <2>5. ASSUME NEW c \in Tasks, Before(taskList, c, k), tid[c] = p
          PROVE  FALSE
      <3>1. PICK a, b \in 1 .. Len(taskList) : a < b /\ taskList[a] = c /\ taskList[b] = k
        BY <2>5 DEF Before
      <3>2. b = i
        BY <2>2, <3>1 DEF FInv, ListInv, Distinct
      <3>3. a \in 1 .. i - 1
        BY <3>1, <3>2
      <3> QED
        BY <2>2, <2>5, <3>1, <3>3
    <2> QED
      BY <2>1, <2>2, <2>3, <2>4, <2>5
  <1> QED
    BY <1>1, <1>2

LEMMA WaitSleepsFamily ==
    ASSUME IInv, FInv, NEW t, Caller(t), NEW p \in Nat, WaitSleeps(t, p) PROVE FInv'
  <1>1. /\ t \in Tasks \ {Idle, InitTask} /\ sch.state[t] = "RUNNABLE" /\ t \in Users
        /\ InitTask \in Tasks /\ pc \in [Tasks -> Locations] /\ arg \in [Tasks -> Nat]
        /\ sch \in SchedState /\ SchedInv(sch) /\ sch.CurrentTask = t
        /\ sch.state \in [Tasks -> States] /\ sch.wait_state \in [Tasks -> WaitStates]
        /\ "SLEEPING" \in States /\ "CHILD" \in WaitStates
    BY CallerRuns DEF Caller, States, WaitStates
  <1> DEFINE a == setState(sch, t, "SLEEPING")
             b == setWaitState(a, t, "CHILD")
  <1>2. /\ pc' = [pc EXCEPT ![t] = "wait"] /\ arg' = [arg EXCEPT ![t] = p]
        /\ sch' = schedule(b) /\ haskid(t, p) /\ ~ \E z \in Tasks : found(t, p, z)
        /\ UNCHANGED <<parent, children, taskList, tid, ptr>>
    BY DEF WaitSleeps
  <1>3. SchedInv(a)
    BY <1>1, SetStateKeeps
  <1>4. /\ a \in SchedState /\ a.wait_state = sch.wait_state
        /\ a.state = [sch.state EXCEPT ![t] = "SLEEPING"]
    BY <1>1, SetStateFields
  <1> HIDE DEF a
  <1>5. SchedInv(b)
    BY <1>1, <1>3, SetWaitStateKeeps
  <1>6. /\ b.state = a.state /\ b.wait_state = [a.wait_state EXCEPT ![t] = "CHILD"]
    BY <1>1, <1>4, SetWaitStateFields
  <1> HIDE DEF b
  <1>7. /\ sch'.state = [sch.state EXCEPT ![t] = "SLEEPING"]
        /\ sch'.wait_state = [sch.wait_state EXCEPT ![t] = "CHILD"]
    BY <1>2, <1>4, <1>5, <1>6, ScheduleCorrect
  <1>8. /\ \A x \in Tasks \ {t} : /\ sch'.state[x] = sch.state[x]
                                  /\ sch'.wait_state[x] = sch.wait_state[x]
                                  /\ pc'[x] = pc[x] /\ arg'[x] = arg[x]
        /\ sch'.state[t] = "SLEEPING" /\ sch'.wait_state[t] = "CHILD"
        /\ pc'[t] = "wait" /\ arg'[t] = p
    BY <1>1, <1>2, <1>7
  <1>9. NothingToReap(t)'
    <2>1. /\ p = 0 => \A c \in Tasks : parent[c] = t => sch.state[c] # "ZOMBIE"
          /\ p # 0 => \E k \in Tasks :
                /\ Contains(taskList, k) /\ tid[k] = p /\ parent[k] = t
                /\ sch.state[k] # "ZOMBIE"
                /\ \A c \in Tasks : Before(taskList, c, k) /\ tid[c] = p
                                    => parent[c] # t
      BY <1>1, <1>2, NoneFound
    <2>2. \A c \in Tasks : sch.state[c] # "ZOMBIE" => sch'.state[c] # "ZOMBIE"
      BY <1>8
    <2>3. UNCHANGED <<parent, taskList, tid>>
      BY <1>2
    <2> QED
      BY <1>8, <2>1, <2>2, <2>3 DEF NothingToReap
  <1>10. \A x \in Tasks : /\ sch'.state[x] = "FREE" <=> sch.state[x] = "FREE"
                          /\ sch'.state[x] = "ZOMBIE" => sch.state[x] = "ZOMBIE"
    BY <1>1, <1>8
  <1>11. (\A x \in Tasks : Unlisted(x)' <=> Unlisted(x)) /\ (Leaving' => Leaving)
    BY <1>1, <1>2, <1>8 DEF Unlisted, Leaving
  <1>12. \A u \in Users : Thread(u)' => Thread(u)
    BY <1>8 DEF Thread, Users
  <1>13. \A u \in Users : Asleep(u)' =>
            \/ NothingToReap(u)'
            \/ Asleep(u) /\ arg'[u] = arg[u] /\ sch'.wait_state[u] = sch.wait_state[u]
    BY <1>8, <1>9 DEF Asleep, Users
  <1>14. Quiet
    BY <1>2, <1>10, <1>11, <1>12, <1>13 DEF Quiet
  <1> QED
    BY <1>14, QuietKeeps


----------------------------------------------------------------------------
(* Steps that create a task.                                               *)

\* The running task p, a process in a system call or init, makes c its child.
Creates(p, c) ==
    /\ p \in Tasks \ {Idle} /\ c \in Users /\ p # c
    /\ sch.state[p] = "RUNNABLE" /\ sch.state[c] = "FREE"
    /\ add_task(p, c)
    /\ \A x \in Tasks \ {c} : tid'[x] = tid[x]
    /\ arg' = arg
    /\ sch'.state[c] \notin {"FREE", "ZOMBIE", "SLEEPING"}
    /\ \A x \in Tasks \ {c} : /\ sch'.state[x] = sch.state[x]
                              /\ sch'.wait_state[x] = sch.wait_state[x]
    /\ \A x \in Users \ {c} : pc'[x] = pc[x]
    /\ \/ /\ p \in Users /\ pc[p] = "user" /\ pc'[c] = "user"
          /\ pc'[InitTask] = pc[InitTask] /\ ptr' = ptr
       \/ /\ p = InitTask /\ pc'[c] = "kthread"
          /\ pc[InitTask] = "create" /\ pc'[InitTask] = "wakeup"

LEMMA CreatesKeeps == ASSUME IInv, FInv, NEW p, NEW c, Creates(p, c) PROVE FInv'
  <1>1. /\ p \in Tasks /\ p # Idle /\ p # c /\ c \in Tasks /\ c \in Users
        /\ c # Idle /\ c # InitTask /\ Idle \in Tasks /\ InitTask \in Tasks
        /\ InitTask # Idle /\ InitTask \notin Users /\ NULL \notin Tasks
        /\ sch.state[p] = "RUNNABLE" /\ sch.state[c] = "FREE"
    BY IdleAssumption, InitTaskAssumption, NULLAssumption DEF Creates, Users
  <1>2. /\ parent \in [Tasks -> Tasks \cup {NULL}] /\ children \in [Tasks -> Seq(Tasks)]
        /\ taskList \in Seq(Tasks)
    BY DEF IInv, TypeOK
  <1>3. /\ parent' = [parent EXCEPT ![c] = p] /\ taskList' = <<c>> \o taskList
        /\ children' = [children EXCEPT ![p] = <<c>> \o @]
    BY DEF Creates, add_task
  <1>4. parent'[c] = p /\ \A x \in Tasks \ {c} : parent'[x] = parent[x]
    BY <1>1, <1>2, <1>3
  <1>5. parent[c] = NULL /\ \A x \in Tasks : parent[x] # c
    BY <1>1 DEF IInv, TaskInv, ParentInv, FInv, TreeInv
  <1>6. Longer(Tasks, taskList, taskList', c)
    BY <1>1, <1>2, <1>3, ConsMembers
  <1>7. \A q, x \in Tasks : Contains(children'[q], x)
                             <=> Contains(children[q], x) \/ (q = p /\ x = c)
    <2>1. children'[p] = <<c>> \o children[p] /\ \A q \in Tasks \ {p} : children'[q] = children[q]
      BY <1>1, <1>2, <1>3
    <2>2. Longer(Tasks, children[p], children'[p], c)
      BY <1>1, <1>2, <2>1, ConsMembers
    <2> QED
      BY <2>1, <2>2 DEF Longer
  <1>8. ~Leaving /\ ~Leaving' /\ \A x \in Tasks : Unlisted(x)' <=> Unlisted(x)
    <2>1. Leaving => p = InitTask
      BY <1>1 DEF FInv, InitLeavesLast, Leaving, Allocated, Users
    <2>2. ~Leaving
      BY <1>1, <2>1 DEF Creates, Leaving
    <2> QED
      BY <2>2 DEF Creates, Leaving, Unlisted
  <1>9. TreeInv'
    <2>1. parent'[Idle] = NULL
      BY <1>1, <1>4 DEF FInv, TreeInv
    <2>2. \A x \in Tasks : parent'[x] = Idle <=> x = InitTask
      BY <1>1, <1>4 DEF FInv, TreeInv
    <2>3. ASSUME NEW x \in Tasks, parent'[x] \in Tasks
          PROVE  sch'.state[parent'[x]] \notin {"FREE", "ZOMBIE"}
      <3>1. parent'[x] # c /\ sch.state[parent'[x]] \notin {"FREE", "ZOMBIE"}
        BY <1>1, <1>4, <1>5, <2>3 DEF FInv, TreeInv
      <3> QED
        BY <2>3, <3>1 DEF Creates
    <2> QED
      BY <2>1, <2>2, <2>3 DEF TreeInv
  <1>10. ThreadInv'
    <2> SUFFICES ASSUME NEW t \in Users, Thread(t)'
                 PROVE  parent'[t] = InitTask /\ \A x \in Tasks : parent'[x] # t
      BY DEF ThreadInv
    <2>1. CASE t = c
      <3>1. p = InitTask
        BY <2>1 DEF Creates, Thread
      <3> QED
        BY <1>1, <1>4, <1>5, <2>1, <3>1
    <2>2. CASE t # c
      <3>1. Thread(t) /\ t \in Tasks
        BY <2>2 DEF Creates, Thread, Users
      <3>2. parent[t] = InitTask /\ \A x \in Tasks : parent[x] # t
        BY <3>1 DEF FInv, ThreadInv
      <3>3. t # p
        BY <1>1, <3>1 DEF Creates, Thread
      <3> QED
        BY <1>4, <2>2, <3>1, <3>2, <3>3
    <2> QED
      BY <2>1, <2>2
  <1>11. /\ ~Unlisted(c)
         /\ \A x \in Tasks : sch'.state[x] # "FREE" <=> sch.state[x] # "FREE" \/ x = c
    BY <1>1 DEF Creates, Unlisted, IInv, TaskInv, PtrInv
  <1>12. ListInv'
    <2>1. Distinct(taskList')
      BY <1>1, <1>6 DEF FInv, ListInv, Longer
    <2>2. \A x \in Tasks : Contains(taskList', x) <=> sch'.state[x] # "FREE" /\ ~Unlisted(x)'
      BY <1>6, <1>8, <1>11 DEF FInv, ListInv, Longer
    <2>3. \A q, x \in Tasks : Contains(children'[q], x)
                                <=> parent'[x] = q /\ Contains(taskList', x)
      <3>1. ~Contains(taskList, c)
        BY <1>1 DEF FInv, ListInv
      <3>2. \A x \in Tasks : Contains(taskList', x) <=> Contains(taskList, x) \/ x = c
        BY <1>6 DEF Longer
      <3> QED
        BY <1>4, <1>7, <3>1, <3>2 DEF FInv, ListInv
    <2> QED
      BY <2>1, <2>2, <2>3 DEF ListInv
  <1>13. OrderInv'
    <2>1. Contains(taskList, InitTask) /\ Contains(taskList, p)
      <3>1. ~Unlisted(InitTask) /\ ~Unlisted(p)
        BY <1>1 DEF Unlisted, IInv, TaskInv, PtrInv, FInv, TreeInv
      <3>2. sch.state[InitTask] # "FREE"
        BY <1>1 DEF FInv, TreeInv, IInv, TaskInv, ParentInv
      <3> QED
        BY <1>1, <3>1, <3>2 DEF FInv, ListInv
    <2>2. /\ \A x \in Tasks : Contains(taskList', x) => Contains(taskList, x) \/ x = c
          /\ \A a, b \in Tasks : Before(taskList, a, b) => Before(taskList', a, b)
          /\ \A b \in Tasks : Contains(taskList, b) => Before(taskList', c, b)
      BY <1>6 DEF Longer
    <2>3. \A u \in Users : Contains(taskList', u) => Before(taskList', u, InitTask)
      BY <1>1, <2>1, <2>2 DEF FInv, OrderInv, Users
    <2>4. ASSUME NEW x \in Tasks \ {Idle}, Contains(taskList', x)
          PROVE  Before(taskList', x, parent'[x])
      <3>1. CASE x = c
        BY <1>1, <1>4, <2>1, <2>2, <3>1
      <3>2. CASE x # c
        <4>1. Contains(taskList, x) /\ parent'[x] = parent[x]
          BY <1>4, <2>2, <2>4, <3>2
        <4>2. Before(taskList, x, parent[x])
          BY <4>1 DEF FInv, OrderInv
        <4>3. parent[x] \in Tasks
          <5>1. sch.state[x] # "FREE"
            BY <4>1 DEF FInv, ListInv
          <5> QED
            BY <1>2, <5>1 DEF IInv, TaskInv, ParentInv
        <4> QED
          BY <2>2, <4>1, <4>2, <4>3
      <3> QED
        BY <3>1, <3>2
    <2> QED
      BY <2>3, <2>4 DEF OrderInv
  <1>14. InitLeavesLast'
    BY <1>8 DEF InitLeavesLast, Leaving
  <1>15. SleepInv'
    <2> SUFFICES ASSUME NEW t \in Users, Asleep(t)' PROVE NothingToReap(t)'
      BY DEF SleepInv
    <2>1. t # c /\ t \in Tasks /\ Asleep(t)
      BY DEF Creates, Asleep, Users
    <2>2. t # p /\ NothingToReap(t) /\ arg' = arg /\ sch'.wait_state[t] = sch.wait_state[t]
      BY <1>1, <2>1 DEF FInv, SleepInv, Asleep, Creates
    <2>3. /\ sch'.wait_state[t] = "CHILD"
          /\ arg[t] = 0 => \A x \in Tasks : parent'[x] = t => sch'.state[x] # "ZOMBIE"
      BY <1>4, <2>2 DEF NothingToReap, Creates
    <2>4. ASSUME arg[t] # 0
          PROVE  \E k \in Tasks :
                    /\ Contains(taskList', k) /\ tid'[k] = arg[t] /\ parent'[k] = t
                    /\ sch'.state[k] # "ZOMBIE"
                    /\ \A x \in Tasks : Before(taskList', x, k) /\ tid'[x] = arg[t]
                                        => parent'[x] # t
      <3>1. PICK k \in Tasks :
               /\ Contains(taskList, k) /\ tid[k] = arg[t] /\ parent[k] = t
               /\ sch.state[k] # "ZOMBIE"
               /\ \A x \in Tasks : Before(taskList, x, k) /\ tid[x] = arg[t]
                                   => parent[x] # t
        BY <2>2, <2>4 DEF NothingToReap
      <3>2. k # c
        BY <1>1, <1>5, <2>1, <3>1
      <3>3. Contains(taskList', k)
        BY <1>6, <3>1 DEF Longer
      <3>4. tid'[k] = arg[t] /\ parent'[k] = t /\ sch'.state[k] # "ZOMBIE"
        BY <1>4, <3>1, <3>2 DEF Creates
      <3>5. ASSUME NEW x \in Tasks, Before(taskList', x, k), tid'[x] = arg[t]
            PROVE  parent'[x] # t
        <4>1. CASE x = c
          BY <1>4, <2>2, <4>1
        <4>2. CASE x # c
          <5>1. Before(taskList, x, k) /\ tid[x] = arg[t]
            BY <1>6, <3>5, <4>2 DEF Longer, Creates
          <5> QED
            BY <1>4, <3>1, <4>2, <5>1
        <4> QED
          BY <4>1, <4>2
      <3> QED
        BY <3>3, <3>4, <3>5
    <2> QED
      BY <2>2, <2>3, <2>4 DEF NothingToReap
  <1> QED
    BY <1>9, <1>10, <1>12, <1>13, <1>14, <1>15 DEF FInv


LEMMA InitCreatesFamily ==
    ASSUME IInv, FInv, NEW c \in Users, InitCreates(c) PROVE FInv'
  <1>1. /\ pc \in [Tasks -> Locations] /\ InitTask \in Tasks \ {Idle}
        /\ c \in Tasks \ {Idle, InitTask} /\ SchedInv(sch)
        /\ sch.CurrentTask = InitTask /\ sch.state[c] = "FREE"
        /\ tid \in [Tasks -> Int] /\ pc[InitTask] = "create"
        /\ sch.state \in [Tasks -> States] /\ sch.wait_state \in [Tasks -> WaitStates]
    BY InitTaskAssumption
       DEF IInv, TypeOK, InitCreates, AtInit, Cur, Users, SchedState
  <1>2. /\ pc' = [pc EXCEPT ![InitTask] = "wakeup", ![c] = "kthread"]
        /\ sch' = allocTask(sch, c)
        /\ tid' = [tid EXCEPT ![c] = Len(taskList)]
        /\ add_task(InitTask, c) /\ arg' = arg
    BY DEF InitCreates, get_new_tid, TaskCount
  <1>3. /\ sch'.state = [sch.state EXCEPT ![c] = "UNINIT"]
        /\ sch'.wait_state = [sch.wait_state EXCEPT ![c] = "NOTWAIT"]
    BY <1>1, <1>2, AllocTask
  <1>4. sch.state[InitTask] = "RUNNABLE"
    BY <1>1 DEF IInv, TaskInv, CurInv, Cur
  <1>5. /\ pc'[InitTask] = "wakeup" /\ pc'[c] = "kthread"
        /\ \A x \in Tasks \ {c, InitTask} : pc'[x] = pc[x]
    BY <1>1, <1>2
  <1>6. Creates(InitTask, c)
    BY <1>1, <1>2, <1>3, <1>4, <1>5 DEF Creates, Users
  <1> QED
    BY <1>6, CreatesKeeps

LEMMA sys_forkFamily ==
    ASSUME IInv, FInv, NEW t \in Users, NEW c \in Users, sys_fork(t, c) PROVE FInv'
  <1>1. /\ pc \in [Tasks -> Locations] /\ InitTask \in Tasks
        /\ t \in Tasks \ {Idle, InitTask} /\ c \in Tasks \ {Idle, InitTask} /\ SchedInv(sch)
        /\ sch.CurrentTask = t /\ sch.state[c] = "FREE" /\ pc[t] = "user"
        /\ tid \in [Tasks -> Int]
        /\ sch.state \in [Tasks -> States] /\ sch.wait_state \in [Tasks -> WaitStates]
    BY InitTaskAssumption DEF IInv, TypeOK, sys_fork, Cur, Users, SchedState
  <1>2. /\ pc' = [pc EXCEPT ![c] = "user"]
        /\ sch' = wakeupTask(allocTask(sch, c), c)
        /\ tid' = [tid EXCEPT ![c] = Len(taskList)]
        /\ add_task(t, c) /\ UNCHANGED <<arg, ptr>>
    BY DEF sys_fork, get_new_tid, TaskCount
  <1> DEFINE a == allocTask(sch, c)
  <1>3. /\ SchedInv(a) /\ a.state = [sch.state EXCEPT ![c] = "UNINIT"]
        /\ a.wait_state = [sch.wait_state EXCEPT ![c] = "NOTWAIT"]
    BY <1>1, AllocTask
  <1>4. a.state[c] = "UNINIT" /\ sch' = wakeupTask(a, c)
    BY <1>1, <1>2, <1>3
  <1> HIDE DEF a
  <1>5. /\ sch'.state = [a.state EXCEPT ![c] = "RUNNABLE"]
        /\ sch'.wait_state = [a.wait_state EXCEPT ![c] = "NOTWAIT"]
    BY <1>1, <1>3, <1>4, WakeupCorrect
  <1>6. /\ sch'.state = [sch.state EXCEPT ![c] = "RUNNABLE"]
        /\ sch'.wait_state = [sch.wait_state EXCEPT ![c] = "NOTWAIT"]
    BY <1>1, <1>3, <1>5
  <1>7. sch.state[t] = "RUNNABLE"
    BY <1>1 DEF IInv, TaskInv, CurInv, Cur
  <1>8. Creates(t, c)
    BY <1>1, <1>2, <1>6, <1>7 DEF Creates
  <1> QED
    BY <1>8, CreatesKeeps

----------------------------------------------------------------------------
(* do_exit().                                                              *)

\* The running task t becomes a zombie; whoever else changes its state was
\* asleep in do_wait(); the parent of t is not asleep any more.
Exits(t) ==
    /\ t \in Tasks \ {Idle} /\ sch.state[t] \in {"RUNNABLE", "ZOMBIE"}
    /\ t = InitTask => Leaving
    /\ pc[t] # "kfree"
    /\ Adopted(t)
    /\ \A x \in Tasks : parent[x] = t => sch.state[x] # "FREE"
    /\ pc' = [pc EXCEPT ![t] = "dead"]
    /\ UNCHANGED <<taskList, tid, arg, ptr>>
    /\ sch'.state[t] = "ZOMBIE"
    /\ \A x \in Tasks \ {t} :
          \/ sch'.state[x] = sch.state[x] /\ sch'.wait_state[x] = sch.wait_state[x]
          \/ sch.state[x] = "SLEEPING" /\ sch'.state[x] = "RUNNABLE"
    /\ sch.wait_state[parent[t]] = "CHILD" => sch'.state[parent[t]] # "SLEEPING"

LEMMA ExitsKeeps == ASSUME IInv, FInv, NEW t, Exits(t) PROVE FInv'
  <1>1. /\ t \in Tasks /\ t # Idle /\ Idle \in Tasks /\ InitTask \in Tasks
        /\ InitTask # Idle /\ InitTask \notin Users /\ NULL \notin Tasks
        /\ sch.state[t] \in {"RUNNABLE", "ZOMBIE"} /\ Users \subseteq Tasks
        /\ parent \in [Tasks -> Tasks \cup {NULL}] /\ pc \in [Tasks -> Locations]
        /\ UNCHANGED <<taskList, tid, arg, ptr>>
    BY IdleAssumption, InitTaskAssumption, NULLAssumption DEF Exits, Users, IInv, TypeOK
  <1>2. pc'[t] = "dead" /\ \A x \in Tasks \ {t} : pc'[x] = pc[x]
    BY <1>1 DEF Exits
  <1>3. \A x \in Tasks : Unlisted(x)' <=> Unlisted(x)
    BY <1>1, <1>2 DEF Unlisted, Exits
  <1>4. Leaving' <=> Leaving
    BY <1>1, <1>2 DEF Leaving, Exits
  <1>5. \A x \in Tasks : /\ sch'.state[x] = "FREE" <=> sch.state[x] = "FREE"
                         /\ sch'.state[x] = "ZOMBIE" => sch.state[x] = "ZOMBIE" \/ x = t
    BY <1>1 DEF Exits
  <1>6. t \in Users \/ (t = InitTask /\ \A x \in Tasks : parent[x] # InitTask)
    <2>1. ASSUME t = InitTask, NEW x \in Tasks, parent[x] = InitTask PROVE FALSE
      <3>1. sch.state[x] # "FREE" /\ Leaving
        BY <2>1 DEF Exits
      <3>2. x = Idle \/ x = InitTask
        BY <3>1 DEF FInv, InitLeavesLast, Leaving, Allocated
      <3> QED
        BY <1>1, <2>1, <3>2 DEF FInv, TreeInv
    <2> QED
      BY <1>1, <2>1 DEF Users
  <1>7. \A x \in Tasks : Contains(children[t], x) <=> parent[x] = t
    <2> SUFFICES ASSUME NEW x \in Tasks, parent[x] = t PROVE Contains(taskList, x)
      BY <1>1 DEF FInv, ListInv
    <2>1. ~Unlisted(x)
      BY <1>1, <1>6 DEF Unlisted, IInv, TaskInv, PtrInv
    <2> QED
      BY <2>1 DEF FInv, ListInv, Exits
  <1>8. \A x \in Tasks : parent'[x] = IF parent[x] = t THEN InitTask ELSE parent[x]
    BY <1>7 DEF Exits, Adopted
  <1>9. t \in Users => sch.state[InitTask] \notin {"FREE", "ZOMBIE"} /\ ~Leaving
    <2> SUFFICES ASSUME t \in Users PROVE sch.state[InitTask] \notin {"FREE", "ZOMBIE"} /\ ~Leaving
      OBVIOUS
    <2>1. ~Leaving
      BY <1>1 DEF FInv, InitLeavesLast, Leaving, Allocated, Users
    <2>2. sch.state[InitTask] # "ZOMBIE"
      BY <1>1, <2>1 DEF Leaving, IInv, TaskInv, DeadInv
    <2>3. sch.state[InitTask] # "FREE"
      BY <1>1 DEF FInv, TreeInv, IInv, TaskInv, ParentInv
    <2> QED
      BY <2>1, <2>2, <2>3
  <1>10. TreeInv'
    <2>1. parent'[Idle] = NULL /\ \A x \in Tasks : parent'[x] = Idle <=> x = InitTask
      BY <1>1, <1>8 DEF FInv, TreeInv
    <2>2. ASSUME NEW x \in Tasks, parent'[x] \in Tasks
          PROVE  sch'.state[parent'[x]] \notin {"FREE", "ZOMBIE"}
      <3>1. CASE parent[x] = t
        <4>1. t \in Users /\ parent'[x] = InitTask /\ InitTask # t
          BY <1>1, <1>6, <1>8, <3>1
        <4> QED
          BY <1>1, <1>5, <1>9, <4>1
      <3>2. CASE parent[x] # t
        <4>1. parent'[x] = parent[x] /\ sch.state[parent[x]] \notin {"FREE", "ZOMBIE"}
          BY <1>8, <2>2, <3>2 DEF FInv, TreeInv
        <4> QED
          BY <1>5, <2>2, <3>2, <4>1
      <3> QED
        BY <3>1, <3>2
    <2> QED
      BY <2>1, <2>2 DEF TreeInv
  <1>11. ThreadInv'
    <2> SUFFICES ASSUME NEW u \in Users, Thread(u)'
                 PROVE  parent'[u] = InitTask /\ \A x \in Tasks : parent'[x] # u
      BY DEF ThreadInv
    <2>1. u # t /\ u \in Tasks
      BY <1>1, <1>2 DEF Thread
    <2>2. Thread(u)
      BY <1>2, <2>1 DEF Thread
    <2>3. parent[u] = InitTask /\ \A x \in Tasks : parent[x] # u
      BY <2>2 DEF FInv, ThreadInv
    <2> QED
      BY <1>1, <1>8, <2>1, <2>3
  <1>12. ListInv'
    <2>1. /\ Distinct(taskList')
          /\ \A x \in Tasks : Contains(taskList', x) <=> sch'.state[x] # "FREE" /\ ~Unlisted(x)'
      BY <1>1, <1>3, <1>5 DEF FInv, ListInv
    <2>2. \A q, x \in Tasks : Contains(children[q], x) <=> parent[x] = q /\ Contains(taskList, x)
      BY DEF FInv, ListInv
    <2>3. \A x \in Tasks : Contains(children'[InitTask], x)
                            <=> parent'[x] = InitTask /\ Contains(taskList, x)
      BY <1>1, <1>7, <1>8, <2>2 DEF Exits, Adopted
    <2>4. \A q \in Tasks \ {InitTask} : \A x \in Tasks :
             Contains(children'[q], x) <=> parent'[x] = q /\ Contains(taskList, x)
      BY <1>1, <1>7, <1>8, <2>2 DEF Exits, Adopted
    <2> QED
      BY <1>1, <2>1, <2>3, <2>4 DEF ListInv
  <1>13. OrderInv'
    <2>1. \A u \in Users : Contains(taskList, u) => Before(taskList, u, InitTask)
      BY DEF FInv, OrderInv
    <2>2. ASSUME NEW x \in Tasks \ {Idle}, Contains(taskList, x)
          PROVE  Before(taskList, x, parent'[x])
      <3>1. CASE parent[x] = t
        <4>1. x \in Users /\ parent'[x] = InitTask
          BY <1>1, <1>8, <3>1 DEF FInv, TreeInv, Users
        <4> QED
          BY <2>1, <2>2, <4>1
      <3>2. CASE parent[x] # t
        BY <1>8, <2>2, <3>2 DEF FInv, OrderInv
      <3> QED
        BY <3>1, <3>2
    <2> QED
      BY <1>1, <2>1, <2>2 DEF OrderInv
  <1>14. InitLeavesLast'
    <2>1. Allocated' = Allocated
      BY <1>5 DEF Allocated
    <2> QED
      BY <1>4, <2>1 DEF FInv, InitLeavesLast, Leaving
  <1>15. SleepInv'
    <2> SUFFICES ASSUME NEW u \in Users, Asleep(u)' PROVE NothingToReap(u)'
      BY DEF SleepInv
    <2>1. u # t /\ u \in Tasks /\ u # InitTask
      BY <1>1, <1>2 DEF Asleep
    <2>2. Asleep(u) /\ sch'.wait_state[u] = sch.wait_state[u]
      BY <1>2, <2>1 DEF Asleep, Exits
    <2>3. NothingToReap(u)
      BY <2>2 DEF FInv, SleepInv
    <2>4. parent[t] # u
      BY <2>3 DEF NothingToReap, Asleep, Exits
    <2>5. \A x \in Tasks : parent'[x] = u <=> parent[x] = u
      BY <1>8, <2>1
    <2>6. \A x \in Tasks : parent[x] = u => (sch'.state[x] = "ZOMBIE" => sch.state[x] = "ZOMBIE")
      BY <1>5, <2>4
    <2>7. /\ sch'.wait_state[u] = "CHILD"
          /\ arg[u] = 0 => \A x \in Tasks : parent'[x] = u => sch'.state[x] # "ZOMBIE"
      BY <2>2, <2>3, <2>5, <2>6 DEF NothingToReap
    <2>8. ASSUME arg[u] # 0
          PROVE  \E k \in Tasks :
                    /\ Contains(taskList, k) /\ tid[k] = arg[u] /\ parent'[k] = u
                    /\ sch'.state[k] # "ZOMBIE"
                    /\ \A x \in Tasks : Before(taskList, x, k) /\ tid[x] = arg[u]
                                        => parent'[x] # u
      BY <2>3, <2>5, <2>6, <2>8 DEF NothingToReap
    <2> QED
      BY <1>1, <2>7, <2>8 DEF NothingToReap
  <1> QED
    BY <1>10, <1>11, <1>12, <1>13, <1>14, <1>15 DEF FInv


\* do_exit() wakes the parent that waits.
LEMMA WakesParent ==
    ASSUME NEW s, SchedInv(s), WaitOf(s), NEW t \in Tasks, parent[t] \in Tasks,
           s.wait_state[parent[t]] = "CHILD"
    PROVE  wakeWaiters(s, t).state[parent[t]] # "SLEEPING"
  <1> DEFINE a == wakeupTask(s, parent[t])
             r == IF /\ \E i \in 1 .. Len(children[t]) : s.state[children[t][i]] = "ZOMBIE"
                     /\ a.wait_state[InitTask] = "CHILD"
                    THEN wakeupTask(a, InitTask) ELSE a
  <1>1. s.state[parent[t]] = "SLEEPING" /\ s.state \in [Tasks -> States]
    BY DEF WaitOf, SchedInv, SchedState
  <1>2. a.state = [s.state EXCEPT ![parent[t]] = "RUNNABLE"]
    BY <1>1, WakeupCorrect
  <1>3. a.state[parent[t]] = "RUNNABLE"
    BY <1>1, <1>2
  <1>4. SchedInv(a) /\ WaitOf(a)
    BY WakeOne
  <1>5. wakeWaiters(s, t) = r
    BY DEF wakeWaiters
  <1> HIDE DEF a
  <1>6. r = a \/ Woken(a, r)
    BY <1>4, WakeOne, InitTaskAssumption
  <1> HIDE DEF r
  <1>7. r.state[parent[t]] = "RUNNABLE"
    BY <1>3, <1>6 DEF Woken
  <1> QED
    BY <1>5, <1>7

\* The part of do_exit() after the assignment of TASK_ZOMBIE, which is s.
LEMMA ExitFamily ==
    ASSUME IInv, FInv, NEW t \in Tasks \ {Idle}, sch.state[t] \in {"RUNNABLE", "ZOMBIE"},
           t = InitTask => Leaving, pc[t] # "kfree",
           NEW s, SchedInv(s),
           s.state = [sch.state EXCEPT ![t] = "ZOMBIE"],
           s.wait_state = sch.wait_state,
           sch' = schedule(wakeWaiters(s, t)), reparent(t),
           pc' = [pc EXCEPT ![t] = "dead"],
           UNCHANGED <<taskList, tid, arg, ptr>>
    PROVE  FInv'
  <1>1. /\ sch.state \in [Tasks -> States] /\ parent[t] \in Tasks
        /\ children \in [Tasks -> Seq(Tasks)]
    BY DEF IInv, TypeOK, SchedState, TaskInv, ParentInv
  <1>2. WaitOf(s)
    BY <1>1 DEF IInv, TaskInv, WaitInv, WaitOf
  <1> DEFINE w == wakeWaiters(s, t)
  <1>3. SchedInv(w) /\ Woken(s, w)
    BY <1>1, <1>2, WakeWaiters
  <1>4. s.wait_state[parent[t]] = "CHILD" => w.state[parent[t]] # "SLEEPING"
    BY <1>1, <1>2, WakesParent
  <1>5. sch'.state = w.state /\ sch'.wait_state = w.wait_state
    BY <1>3, ScheduleCorrect
  <1> HIDE DEF w
  <1>6. \A x \in Tasks : s.state[x] = IF x = t THEN "ZOMBIE" ELSE sch.state[x]
    BY <1>1
  <1>7. \A x \in Tasks \ {t} :
           \/ sch'.state[x] = sch.state[x] /\ sch'.wait_state[x] = sch.wait_state[x]
           \/ sch.state[x] = "SLEEPING" /\ sch'.state[x] = "RUNNABLE"
    BY <1>3, <1>5, <1>6 DEF Woken
  <1>8. sch'.state[t] = "ZOMBIE"
    BY <1>3, <1>5, <1>6 DEF Woken
  <1>9. \A x \in Tasks : parent[x] = t => sch.state[x] # "FREE"
    BY NULLAssumption DEF IInv, TaskInv, ParentInv, FInv, TreeInv
  <1>10. Adopted(t)
    BY <1>1, ReparentMembers
  <1>11. Exits(t)
    BY <1>4, <1>5, <1>7, <1>8, <1>9, <1>10 DEF Exits
  <1> QED
    BY <1>11, ExitsKeeps

LEMMA sys_exitFamily == ASSUME IInv, FInv, NEW t \in Users, sys_exit(t) PROVE FInv'
  <1>1. /\ t \in Tasks \ {Idle} /\ sch.CurrentTask = t /\ pc[t] \in {"user", "kthread"}
        /\ sch \in SchedState /\ SchedInv(sch) /\ "ZOMBIE" \in States /\ t # InitTask
    BY DEF sys_exit, Users, Cur, IInv, TypeOK, States
  <1>2. sch.state[t] = "RUNNABLE"
    BY <1>1 DEF IInv, TaskInv, CurInv, Cur, Users
  <1> DEFINE s == setState(sch, t, "ZOMBIE")
  <1>3. SchedInv(s)
    BY <1>1, SetStateKeeps
  <1>4. s.wait_state = sch.wait_state /\ s.state = [sch.state EXCEPT ![t] = "ZOMBIE"]
    BY <1>1, SetStateFields
  <1>5. /\ sch' = schedule(wakeWaiters(s, t)) /\ reparent(t)
        /\ pc' = [pc EXCEPT ![t] = "dead"] /\ UNCHANGED <<taskList, tid, arg, ptr>>
    BY DEF sys_exit
  <1> HIDE DEF s
  <1> QED
    BY <1>1, <1>2, <1>3, <1>4, <1>5, ExitFamily

LEMMA ThreadExitsCliFamily ==
    ASSUME IInv, FInv, NEW t \in Tasks \ {Idle}, ThreadExitsCli(t) PROVE FInv'
  <1>1. pc[t] = "exit_cli" /\ SchedInv(sch) /\ sch \in SchedState
    BY DEF ThreadExitsCli, IInv, TypeOK
  <1>2. sch.state[t] = "ZOMBIE" /\ (t = InitTask => Leaving)
    BY <1>1 DEF IInv, TaskInv, DeadInv, Leaving
  <1>3. sch.state = [sch.state EXCEPT ![t] = "ZOMBIE"]
    BY <1>1, <1>2 DEF SchedState
  <1>4. /\ sch' = schedule(wakeWaiters(sch, t)) /\ reparent(t)
        /\ pc' = [pc EXCEPT ![t] = "dead"] /\ UNCHANGED <<taskList, tid, arg, ptr>>
    BY DEF ThreadExitsCli
  <1> QED
    BY <1>1, <1>2, <1>3, <1>4, ExitFamily


----------------------------------------------------------------------------
(* Reaping.  Init takes a zombie out of the lists and frees it in two      *)
(* steps, a process in one.                                                *)

\* The zombie z leaves the lists, or its Task_t is given back, or both.
Gone(z) ==
    /\ z \in Tasks /\ z # InitTask /\ sch.state[z] = "ZOMBIE"
    /\ \A x \in Tasks \ {z} : /\ parent'[x] = parent[x] /\ tid'[x] = tid[x]
                              /\ sch'.state[x] = sch.state[x]
                              /\ Unlisted(x)' <=> Unlisted(x)
    /\ \/ sch'.state[z] = "FREE" /\ parent'[z] = NULL
       \/ sch'.state[z] = "ZOMBIE" /\ parent'[z] = parent[z] /\ Unlisted(z)'
    /\ sch'.wait_state = sch.wait_state
    /\ Shorter(Tasks, taskList, taskList', z)
    /\ \A q, x \in Tasks : Contains(children'[q], x) <=> Contains(children[q], x) /\ x # z
    /\ \A t \in Users : Thread(t)' => Thread(t) /\ parent'[t] = parent[t]
    /\ \A t \in Users : Asleep(t)' => Asleep(t) /\ arg'[t] = arg[t]
    /\ Leaving' => Leaving

LEMMA GoneKeeps == ASSUME IInv, FInv, NEW z, Gone(z) PROVE FInv'
  <1>1. /\ z \in Tasks /\ z # Idle /\ z # InitTask /\ sch.state[z] = "ZOMBIE"
        /\ Idle \in Tasks /\ InitTask \in Tasks /\ InitTask # Idle
        /\ InitTask \notin Users /\ NULL \notin Tasks /\ Users \subseteq Tasks
    BY IdleAssumption, InitTaskAssumption, NULLAssumption, IdleAlive DEF Gone, Users
  <1>2. \A x \in Tasks : parent[x] # z
    BY <1>1 DEF FInv, TreeInv
  <1>3. \A x \in Tasks \ {z} : parent'[x] = parent[x] /\ sch'.state[x] = sch.state[x]
    BY DEF Gone
  <1>4. parent'[z] = NULL \/ parent'[z] = parent[z]
    BY DEF Gone
  <1>5. \A x \in Tasks : parent'[x] \in Tasks => parent'[x] = parent[x]
    BY <1>1, <1>3, <1>4
  <1>6. TreeInv'
    <2>1. parent'[Idle] = NULL /\ parent'[InitTask] = Idle
      BY <1>1, <1>3 DEF FInv, TreeInv
    <2>2. ASSUME NEW x \in Tasks, parent'[x] \in Tasks
          PROVE  /\ sch'.state[parent'[x]] \notin {"FREE", "ZOMBIE"}
                 /\ parent'[x] = Idle => x = InitTask
      BY <1>1, <1>2, <1>3, <1>5, <2>2 DEF FInv, TreeInv
    <2> QED
      BY <1>1, <2>1, <2>2 DEF TreeInv
  <1>7. ThreadInv'
    <2> SUFFICES ASSUME NEW u \in Users, Thread(u)'
                 PROVE  parent'[u] = InitTask /\ \A x \in Tasks : parent'[x] # u
      BY DEF ThreadInv
    <2>1. Thread(u) /\ parent'[u] = parent[u] /\ u \in Tasks
      BY <1>1 DEF Gone
    <2> QED
      BY <1>1, <1>5, <2>1 DEF FInv, ThreadInv
  <1>8. /\ Distinct(taskList')
        /\ \A x \in Tasks : Contains(taskList', x) <=> Contains(taskList, x) /\ x # z
        /\ \A a, b \in Tasks : Before(taskList', a, b) <=> Before(taskList, a, b) /\ a # z /\ b # z
    BY DEF Gone, Shorter
  <1>9. ListInv'
    <2>1. \A x \in Tasks : Contains(taskList', x) <=> sch'.state[x] # "FREE" /\ ~Unlisted(x)'
      BY <1>1, <1>8 DEF FInv, ListInv, Gone
    <2>2. \A q, x \in Tasks : Contains(children'[q], x)
                               <=> parent'[x] = q /\ Contains(taskList', x)
      BY <1>3, <1>8 DEF FInv, ListInv, Gone
    <2> QED
      BY <1>8, <2>1, <2>2 DEF ListInv
  <1>10. OrderInv'
    <2>1. \A u \in Users : Contains(taskList', u) => Before(taskList', u, InitTask)
      BY <1>1, <1>8 DEF FInv, OrderInv
    <2>2. ASSUME NEW x \in Tasks \ {Idle}, Contains(taskList', x)
          PROVE  Before(taskList', x, parent'[x])
      <3>1. Contains(taskList, x) /\ x # z /\ parent'[x] = parent[x]
        BY <1>3, <1>8, <2>2
      <3>2. parent[x] \in Tasks
        <4>1. sch.state[x] # "FREE"
          BY <3>1 DEF FInv, ListInv
        <4> QED
          BY <4>1 DEF IInv, TypeOK, TaskInv, ParentInv
      <3>3. Before(taskList, x, parent[x])
        BY <3>1 DEF FInv, OrderInv
      <3> QED
        BY <1>2, <1>8, <3>1, <3>2, <3>3
    <2> QED
      BY <2>1, <2>2 DEF OrderInv
  <1>11. InitLeavesLast'
    <2>1. Allocated' \subseteq Allocated
      BY <1>1, <1>3 DEF Allocated
    <2> QED
      BY <2>1 DEF Gone, FInv, InitLeavesLast, Leaving
  <1>12. SleepInv'
    <2> SUFFICES ASSUME NEW u \in Users, Asleep(u)' PROVE NothingToReap(u)'
      BY DEF SleepInv
    <2>1. /\ u \in Tasks /\ u # NULL /\ arg'[u] = arg[u]
          /\ sch'.wait_state[u] = sch.wait_state[u] /\ NothingToReap(u)
      BY <1>1 DEF Gone, FInv, SleepInv
    <2>2. /\ sch'.wait_state[u] = "CHILD"
          /\ arg[u] = 0 => \A x \in Tasks : parent'[x] = u => sch'.state[x] # "ZOMBIE"
      <3>1. \A x \in Tasks : parent'[x] = u => /\ parent[x] = u
                                               /\ sch'.state[x] = "ZOMBIE" => sch.state[x] = "ZOMBIE"
        BY <1>1, <1>3, <1>5, <2>1
      <3> QED
        BY <2>1, <3>1 DEF NothingToReap
    <2>3. ASSUME arg[u] # 0
          PROVE  \E k \in Tasks :
                    /\ Contains(taskList', k) /\ tid'[k] = arg[u] /\ parent'[k] = u
                    /\ sch'.state[k] # "ZOMBIE"
                    /\ \A x \in Tasks : Before(taskList', x, k) /\ tid'[x] = arg[u]
                                        => parent'[x] # u
      <3>1. PICK k \in Tasks :
               /\ Contains(taskList, k) /\ tid[k] = arg[u] /\ parent[k] = u
               /\ sch.state[k] # "ZOMBIE"
               /\ \A x \in Tasks : Before(taskList, x, k) /\ tid[x] = arg[u]
                                   => parent[x] # u
        BY <2>1, <2>3 DEF NothingToReap
      <3>2. k # z
        BY <1>1, <3>1
      <3>3. /\ Contains(taskList', k) /\ tid'[k] = arg[u] /\ parent'[k] = u
            /\ sch'.state[k] # "ZOMBIE"
        BY <1>3, <1>8, <3>1, <3>2 DEF Gone
      <3>4. \A x \in Tasks : Before(taskList', x, k) /\ tid'[x] = arg[u] => parent'[x] # u
        BY <1>3, <1>8, <3>1 DEF Gone
      <3> QED
        BY <3>3, <3>4
    <2> QED
      BY <2>1, <2>2, <2>3 DEF NothingToReap
  <1> QED
    BY <1>6, <1>7, <1>9, <1>10, <1>11, <1>12 DEF FInv

\* The lists after del_task().
LEMMA DelTaskMembers ==
    ASSUME IInv, FInv, NEW z \in Tasks, parent[z] \in Tasks, del_task(z)
    PROVE  /\ Shorter(Tasks, taskList, taskList', z)
           /\ \A q, x \in Tasks : Contains(children'[q], x)
                                   <=> Contains(children[q], x) /\ x # z
  <1>1. /\ children \in [Tasks -> Seq(Tasks)] /\ taskList \in Seq(Tasks)
        /\ Distinct(taskList) /\ \A p \in Tasks : Distinct(children[p])
    BY DEF IInv, TypeOK, TaskInv, ParentInv, FInv, ListInv, Distinct
  <1>2. PICK k \in 1 .. Len(taskList) : taskList[k] = z /\ taskList' = RemoveAt(taskList, k)
    BY DEF del_task
  <1>3. Shorter(Tasks, taskList, taskList', z)
    BY <1>1, <1>2, RemoveMembers
  <1>4. PICK p \in Tasks : p = parent[z]
    OBVIOUS
  <1>5. PICK i \in 1 .. Len(children[p]) :
           children[p][i] = z /\ children' = [children EXCEPT ![p] = RemoveAt(children[p], i)]
    BY <1>4 DEF del_task
  <1>6. children'[p] = RemoveAt(children[p], i) /\ \A q \in Tasks \ {p} : children'[q] = children[q]
    BY <1>1, <1>5
  <1>7. Shorter(Tasks, children[p], children'[p], z)
    BY <1>1, <1>5, <1>6, RemoveMembers
  <1>8. ASSUME NEW q \in Tasks \ {p}, NEW x \in Tasks, Contains(children[q], x)
        PROVE  x # z
    BY <1>4, <1>8 DEF FInv, ListInv
  <1> QED
    BY <1>3, <1>6, <1>7, <1>8 DEF Shorter

LEMMA InitDeletesFamily == ASSUME IInv, FInv, InitDeletes PROVE FInv'
  <1>1. /\ pc \in [Tasks -> Locations] /\ InitTask \in Tasks /\ InitTask # Idle
        /\ ptr \in Tasks /\ parent[ptr] = InitTask /\ sch.state[ptr] = "ZOMBIE"
        /\ parent[InitTask] = Idle
    BY InitTaskAssumption
       DEF IInv, TypeOK, TaskInv, PtrInv, InitDeletes, AtInit, FInv, TreeInv
  <1>2. /\ pc[InitTask] = "del_task" /\ pc' = [pc EXCEPT ![InitTask] = "kfree"]
        /\ del_task(ptr) /\ UNCHANGED <<sch, parent, tid, arg, ptr>>
    BY DEF InitDeletes, AtInit, GoTo
  <1>3. /\ Shorter(Tasks, taskList, taskList', ptr)
        /\ \A q, x \in Tasks : Contains(children'[q], x)
                                <=> Contains(children[q], x) /\ x # ptr
    BY <1>1, <1>2, DelTaskMembers
  <1>4. pc'[InitTask] = "kfree" /\ \A x \in Tasks \ {InitTask} : pc'[x] = pc[x]
    BY <1>1, <1>2
  <1>5. /\ \A x \in Tasks \ {ptr} : ~Unlisted(x) /\ ~Unlisted(x)'
        /\ Unlisted(ptr)' /\ ~Leaving'
    BY <1>2, <1>4 DEF Unlisted, Leaving
  <1>6. \A t \in Users : (Thread(t)' <=> Thread(t)) /\ (Asleep(t)' <=> Asleep(t))
    BY <1>2, <1>4 DEF Thread, Asleep, Users
  <1>7. Gone(ptr)
    BY <1>1, <1>2, <1>3, <1>5, <1>6 DEF Gone
  <1> QED
    BY <1>7, GoneKeeps

LEMMA InitFreesFamily == ASSUME IInv, FInv, InitFrees PROVE FInv'
  <1>1. /\ pc \in [Tasks -> Locations] /\ InitTask \in Tasks /\ InitTask # Idle
        /\ ptr \in Tasks /\ parent[ptr] = InitTask /\ sch.state[ptr] = "ZOMBIE"
        /\ parent[InitTask] = Idle /\ "FREE" \in States /\ sch \in SchedState
        /\ sch.state \in [Tasks -> States] /\ tid \in [Tasks -> Int]
        /\ parent \in [Tasks -> Tasks \cup {NULL}]
    BY InitTaskAssumption
       DEF IInv, TypeOK, TaskInv, PtrInv, InitFrees, AtInit, FInv, TreeInv, States, SchedState
  <1>2. /\ pc[InitTask] = "kfree"
        /\ pc' = [pc EXCEPT ![InitTask] = "next", ![ptr] = "none"]
        /\ sch' = setState(sch, ptr, "FREE") /\ Released(ptr)
        /\ UNCHANGED <<children, taskList, arg>>
    BY DEF InitFrees, AtInit
  <1>3. /\ sch'.wait_state = sch.wait_state /\ sch'.state[ptr] = "FREE"
        /\ \A x \in Tasks \ {ptr} : sch'.state[x] = sch.state[x]
    <2>1. /\ sch'.wait_state = sch.wait_state
          /\ sch'.state = [sch.state EXCEPT ![ptr] = "FREE"]
      BY <1>1, <1>2, SetStateFields
    <2> QED
      BY <1>1, <2>1
  <1>4. /\ parent'[ptr] = NULL
        /\ \A x \in Tasks \ {ptr} : parent'[x] = parent[x] /\ tid'[x] = tid[x]
    BY <1>1, <1>2 DEF Released
  <1>5. /\ pc'[InitTask] = "next" /\ pc'[ptr] = "none"
        /\ \A x \in Tasks \ {InitTask, ptr} : pc'[x] = pc[x]
    BY <1>1, <1>2
  <1>6. /\ \A x \in Tasks \ {ptr} : ~Unlisted(x) /\ ~Unlisted(x)'
        /\ Unlisted(ptr) /\ ~Leaving'
    BY <1>2, <1>5 DEF Unlisted, Leaving
  <1>7. ~Contains(taskList, ptr)
    BY <1>1, <1>6 DEF FInv, ListInv
  <1>8. Shorter(Tasks, taskList, taskList', ptr)
    <2>1. \A a, b \in Tasks : Before(taskList, a, b) => Contains(taskList, a) /\ Contains(taskList, b)
      BY DEF Before, Contains
    <2> QED
      BY <1>2, <1>7, <2>1 DEF Shorter, FInv, ListInv
  <1>9. \A q, x \in Tasks : Contains(children'[q], x) <=> Contains(children[q], x) /\ x # ptr
    BY <1>2, <1>7 DEF FInv, ListInv
  <1>10. /\ \A t \in Users : Thread(t)' => Thread(t) /\ parent'[t] = parent[t]
         /\ \A t \in Users : Asleep(t)' => Asleep(t) /\ arg'[t] = arg[t]
    BY <1>1, <1>2, <1>3, <1>4, <1>5 DEF Thread, Asleep, Users
  <1>11. Gone(ptr)
    BY <1>1, <1>3, <1>4, <1>6, <1>8, <1>9, <1>10 DEF Gone
  <1> QED
    BY <1>11, GoneKeeps

LEMMA WaitReapsFamily ==
    ASSUME IInv, FInv, NEW t, Caller(t), NEW p, WaitReaps(t, p) PROVE FInv'
  <1>1. /\ t \in Tasks \ {Idle, InitTask} /\ sch.state[t] = "RUNNABLE"
        /\ InitTask \in Tasks /\ pc \in [Tasks -> Locations] /\ arg \in [Tasks -> Nat]
        /\ sch \in SchedState /\ sch.state \in [Tasks -> States] /\ "FREE" \in States
        /\ parent[InitTask] = Idle /\ tid \in [Tasks -> Int]
        /\ parent \in [Tasks -> Tasks \cup {NULL}]
    BY CallerRuns DEF Caller, States, FInv, TreeInv, IInv, TypeOK
  <1>2. PICK z \in Tasks :
           /\ found(t, p, z) /\ del_task(z) /\ Released(z)
           /\ sch' = setState(sch, z, "FREE")
           /\ pc' = [pc EXCEPT ![t] = "user", ![z] = "none"]
           /\ arg' = [arg EXCEPT ![t] = 0] /\ ptr' = ptr
    BY DEF WaitReaps
  <1>3. sch.state[z] = "ZOMBIE" /\ parent[z] = t /\ z # t
    <2>1. sch.state[z] = "ZOMBIE" /\ z # t
      BY <1>1, <1>2 DEF found
    <2>2. CASE p # 0
      BY <1>2, <2>1, <2>2 DEF found
    <2>3. CASE p = 0
      BY <1>1, <1>2, <2>1, <2>3 DEF found, IInv, TaskInv, ParentInv
    <2> QED
      BY <2>1, <2>2, <2>3
  <1>4. /\ Shorter(Tasks, taskList, taskList', z)
        /\ \A q, x \in Tasks : Contains(children'[q], x) <=> Contains(children[q], x) /\ x # z
    BY <1>1, <1>2, <1>3, DelTaskMembers
  <1>5. /\ sch'.wait_state = sch.wait_state /\ sch'.state[z] = "FREE"
        /\ \A x \in Tasks \ {z} : sch'.state[x] = sch.state[x]
    <2>1. /\ sch'.wait_state = sch.wait_state
          /\ sch'.state = [sch.state EXCEPT ![z] = "FREE"]
      BY <1>1, <1>2, SetStateFields
    <2> QED
      BY <1>1, <2>1
  <1>6. /\ parent'[z] = NULL
        /\ \A x \in Tasks \ {z} : parent'[x] = parent[x] /\ tid'[x] = tid[x]
    BY <1>1, <1>2 DEF Released
  <1>7. z # InitTask
    BY <1>1, <1>3
  <1>8. /\ pc'[t] = "user" /\ pc'[z] = "none" /\ pc'[InitTask] = pc[InitTask]
        /\ \A x \in Tasks \ {t, z} : pc'[x] = pc[x] /\ arg'[x] = arg[x]
    BY <1>1, <1>2, <1>3, <1>7
  <1>9. (\A x \in Tasks : Unlisted(x)' <=> Unlisted(x)) /\ (Leaving' => Leaving)
    BY <1>2, <1>8 DEF Unlisted, Leaving
  <1>10. /\ \A u \in Users : Thread(u)' => Thread(u) /\ parent'[u] = parent[u]
         /\ \A u \in Users : Asleep(u)' => Asleep(u) /\ arg'[u] = arg[u]
    BY <1>1, <1>3, <1>5, <1>6, <1>8 DEF Thread, Asleep, Users
  <1>11. Gone(z)
    BY <1>3, <1>4, <1>5, <1>6, <1>7, <1>9, <1>10 DEF Gone
  <1> QED
    BY <1>11, GoneKeeps

LEMMA do_waitFamily ==
    ASSUME IInv, FInv, NEW t, Caller(t), NEW p \in Nat, do_wait(t, p) PROVE FInv'
  BY WaitReapsFamily, WaitSleepsFamily, WaitFailsFamily DEF do_wait

----------------------------------------------------------------------------
(* The theorems.                                                           *)

LEMMA NextFamily == IInv /\ FInv /\ [Next]_vars => FInv'
  <1> SUFFICES ASSUME IInv, FInv, [Next]_vars PROVE FInv'
    OBVIOUS
  <1>1. CASE UNCHANGED vars
    <2>1. Quiet
      BY <1>1 DEF vars, Quiet, Unlisted, Thread, Leaving, Asleep
    <2> QED
      BY <2>1, QuietKeeps
  <1>2. CASE Tick \/ cpu_idle
    BY <1>2, TickFamily
  <1>3. CASE InitStep
    <2>1. InitTask \in Tasks \ {Idle}
      BY InitTaskAssumption
    <2> QED
      BY <1>3, <2>1, InitCreatesFamily, InitWakesFamily, InitRepeatsFamily,
         InitScansFamily, InitSetsFamily, InitSchedulesFamily, InitDeletesFamily,
         InitFreesFamily, ThreadExitsFamily, ThreadExitsCliFamily
         DEF InitStep
  <1>4. ASSUME NEW t \in Users,
               \/ user_task(t) \/ ThreadExits(t) \/ ThreadExitsCli(t) \/ sys_exit(t)
               \/ \E c \in Users : sys_fork(t, c)
        PROVE  FInv'
    <2>1. t \in Tasks \ {Idle}
      BY DEF Users
    <2> QED
      BY <1>4, <2>1, user_taskFamily, ThreadExitsFamily, ThreadExitsCliFamily,
         sys_exitFamily, sys_forkFamily
  <1>5. ASSUME NEW t \in Users, sys_wait(t)
        PROVE  FInv'
    <2>1. Caller(t) /\ \E p \in Nat : do_wait(t, p)
      BY <1>5 DEF sys_wait, Caller, Cur
    <2> QED
      BY <2>1, do_waitFamily
  <1>6. ASSUME NEW t \in Users, WaitRepeats(t)
        PROVE  FInv'
    <2>1. Caller(t) /\ arg[t] \in Nat /\ do_wait(t, arg[t])
      BY <1>6 DEF WaitRepeats, Caller, Cur, IInv, TypeOK, Users
    <2> QED
      BY <2>1, do_waitFamily
  <1> QED
    BY <1>1, <1>2, <1>3, <1>4, <1>5, <1>6 DEF Next

LEMMA FamilyInductive == Spec => [](IInv /\ FInv)
  <1>1. Init => IInv /\ FInv
    BY InitHolds, InitFamily
  <1>2. (IInv /\ FInv) /\ [Next]_vars => (IInv /\ FInv)'
    BY NextKeeps, NextFamily
  <1> QED
    BY <1>1, <1>2, PTL DEF Spec

\* For any number of tasks parent pointers, sibling lists and the task list of
\* task.c agree, and every allocated task but idle has a parent that has not
\* finished do_exit(): no zombie is left that nobody can reap.
THEOREM FamilyCorrect == Spec => []FamilyOK
  <1>1. IInv /\ FInv => FamilyOK
    <2> SUFFICES ASSUME IInv, FInv PROVE FamilyOK
      OBVIOUS
    <2>1. ASSUME NEW c \in Allocated \ {Idle}
          PROVE  parent[c] # NULL /\ pc[parent[c]] # "dead"
      <3>1. c \in Tasks /\ parent[c] \in Tasks
        BY DEF Allocated, IInv, TypeOK, TaskInv, ParentInv
      <3> QED
        BY <3>1, NULLAssumption DEF FInv, TreeInv, IInv, TaskInv, DeadInv
    <2> QED
      BY <2>1 DEF FamilyOK, FInv, ListInv
  <1> QED
    BY <1>1, FamilyInductive, PTL

\* For any number of tasks do_exit() of init finds no child: init leaves only
\* when every process has been reaped.
THEOREM InitLeavesLastAlways == Spec => []InitLeavesLast
  <1>1. IInv /\ FInv => InitLeavesLast
    BY DEF FInv
  <1> QED
    BY <1>1, FamilyInductive, PTL

\* For any number of tasks nothing points to a Task_t that do_wait() has given
\* back to the allocator: no queue, no list, no parent pointer, not the CPU.
THEOREM NothingDangles == Spec => []NoDanglingTask
  <1>1. IInv /\ FInv => NoDanglingTask
    <2> SUFFICES ASSUME IInv, FInv, NEW z \in Tasks, sch.state[z] = "FREE"
                 PROVE  /\ z # Cur /\ ~Queued(sch, z)
                        /\ ~Contains(taskList, z)
                        /\ \A p \in Tasks : parent[p] # z /\ ~Contains(children[p], z)
      BY DEF NoDanglingTask, Allocated
    <2>0. sch.state[InitTask] # "FREE"
      BY IdleAssumption, InitTaskAssumption, NULLAssumption
         DEF IInv, TaskInv, ParentInv, FInv, TreeInv
    <2>1. z # Cur
      BY <2>0 DEF IInv, TaskInv, CurInv, DeadInv, Cur
    <2>2. ~Queued(sch, z)
      BY DEF IInv, SchedInv, RunQueueExact
    <2>3. ~Contains(taskList, z)
      BY DEF FInv, ListInv
    <2>4. \A p \in Tasks : parent[p] # z /\ ~Contains(children[p], z)
      BY <2>3 DEF FInv, ListInv, TreeInv
    <2> QED
      BY <2>1, <2>2, <2>3, <2>4
  <1> QED
    BY <1>1, FamilyInductive, PTL

\* For any number of tasks and any pid a process asleep in the wait system
\* call has no child that do_wait() would reap: no exit is missed.
THEOREM NoChildMissed == Spec => []NoMissedChild
  <1>1. IInv /\ FInv => NoMissedChild
    <2> SUFFICES ASSUME IInv, FInv, NEW t \in Users, Asleep(t),
                        NEW z \in Tasks, found(t, arg[t], z)
                 PROVE  FALSE
      BY DEF NoMissedChild, Asleep
    <2>1. NothingToReap(t) /\ t \in Tasks /\ sch.state[z] = "ZOMBIE"
      BY DEF FInv, SleepInv, found, Users
    <2>2. CASE arg[t] = 0
      <3>1. parent[z] = t
        BY <2>1, <2>2 DEF found, IInv, TaskInv, ParentInv
      <3> QED
        BY <2>1, <2>2, <3>1 DEF NothingToReap
    <2>3. CASE arg[t] # 0
      <3>1. PICK k \in Tasks :
               /\ Contains(taskList, k) /\ tid[k] = arg[t] /\ parent[k] = t
               /\ sch.state[k] # "ZOMBIE"
               /\ \A c \in Tasks : Before(taskList, c, k) /\ tid[c] = arg[t]
                                   => parent[c] # t
        BY <2>1, <2>3 DEF NothingToReap
      <3>2. PICK j \in 1 .. Len(taskList) : taskList[j] = k
        BY <3>1 DEF Contains
      <3>3. parent[z] = t /\ find_task(arg[t], z)
        BY <2>3 DEF found
      <3>4. PICK i \in 1 .. Len(taskList) :
               /\ taskList[i] = z /\ tid[z] = arg[t]
               /\ \A m \in 1 .. i - 1 : tid[taskList[m]] # arg[t]
        BY <3>3 DEF find_task
      <3>5. i < j
        <4>1. i # j
          BY <2>1, <3>1, <3>2, <3>4
        <4>2. j \notin 1 .. i - 1
          BY <3>1, <3>2, <3>4
        <4> QED
          BY <4>1, <4>2
      <3>6. Before(taskList, z, k)
        BY <3>2, <3>4, <3>5 DEF Before
      <3> QED
        BY <3>1, <3>3, <3>4, <3>6
    <2> QED
      BY <2>2, <2>3
  <1> QED
    BY <1>1, FamilyInductive, PTL

=============================================================================
