------------------------------- MODULE Stdin --------------------------------
(***************************************************************************)
(* Keyboard input: the interrupt handler of kern/driver/kbd.c, the stdin   *)
(* device of kern/fs/stdio/stdin_inode.c and the processes that read from  *)
(* it, over the scheduler of module Sched and the wait queues of Wait.     *)
(*                                                                         *)
(* The keyboard is the environment: a key that gives a character sends the *)
(* next number of 1, 2, 3, ..., the bytes that give none (the release of a *)
(* key, a prefix) send 0.  The readers are processes in a system call and  *)
(* run with interrupts masked until they sleep.                            *)
(***************************************************************************)
EXTENDS Wait

CONSTANTS
    BufLen,     \* STDIN_BUF_LEN
    KbdLen,     \* KBD_BUFF_LEN
    MaxHeld,    \* how many bytes the keyboard keeps before it sends no more
    MaxLen,     \* bound: the longest read
    MaxKeys     \* bound: how many characters are typed

ASSUME TasksAssumption == IsFiniteSet(Tasks)
ASSUME BufLenAssumption == BufLen \in Nat \ {0}
ASSUME KbdLenAssumption == KbdLen \in Nat \ {0}
ASSUME BoundsAssumption == MaxHeld \in Nat /\ MaxLen \in Nat \ {0} /\ MaxKeys \in Nat

VARIABLES
    sch,            \* the scheduler state of module Sched
    controller,     \* the bytes the keyboard holds, the oldest first
    irq,            \* IRQ1 is latched in the PIC, which remembers one request
    merged,         \* history: the requests that found it latched, and so gave no
                    \* interrupt of their own, since KBDbuffer was last empty
    typed,          \* how many characters have been typed
    KBDbuffer,      \* KBDbuffer: buffer, rpos, wpos
    stdin_buffer,   \* the ring buffer of the device
    p_rpos, p_wpos, \* its positions, which only grow
    wait_queue,     \* the readers that wait, see module Wait
    pc,             \* "user", or "woken" for a reader in schedule()
    len,            \* how many characters a reader still wants
    delivered,      \* history: the characters readers got, in that order
    overrun         \* history: a character came when a buffer was full

keyboard == <<controller, irq, merged, typed>>
buffers == <<KBDbuffer, stdin_buffer, p_rpos, p_wpos>>
vars == <<sch, keyboard, buffers, wait_queue, pc, len, delivered, overrun>>

Readers == Tasks \ {Idle}
Cur == sch.CurrentTask
Interruptible == Cur = Idle \/ pc[Cur] = "user"

Init ==
    /\ \E q \in SetToSeqs(Readers) :
          sch = [CurrentTask |-> Idle, run_list |-> q, task_num |-> Len(q),
                 state |-> [t \in Tasks |-> "RUNNABLE"],
                 wait_state |-> [t \in Tasks |-> "NOTWAIT"],
                 time_slice |-> [t \in Tasks |-> IF t = Idle THEN 0 ELSE MaxTimeSlices],
                 need_resched |-> [t \in Tasks |-> t = Idle], panic |-> FALSE]
    /\ controller = << >> /\ irq = FALSE /\ merged = 0 /\ typed = 0
    /\ KBDbuffer = [buffer |-> [i \in 0 .. KbdLen - 1 |-> 0], rpos |-> 0, wpos |-> 0]
    /\ stdin_buffer = [i \in 0 .. BufLen - 1 |-> 0]
    /\ p_rpos = 0 /\ p_wpos = 0
    /\ wait_queue = EmptyQueue
    /\ pc = [t \in Tasks |-> "user"]
    /\ len = [t \in Tasks |-> 0]
    /\ delivered = << >> /\ overrun = FALSE

Tick ==
    /\ Interruptible
    /\ sch' = timerCallBack(sch)
    /\ UNCHANGED <<keyboard, buffers, wait_queue, pc, len, delivered, overrun>>

\* The keyboard has a new byte.  The first of the bytes that wait raises IRQ1,
\* the others do when those before them have been read.
Key ==
    /\ Len(controller) < MaxHeld
    /\ \/ typed < MaxKeys /\ typed' = typed + 1 /\ controller' = Append(controller, typed + 1)
       \/ typed' = typed /\ controller' = Append(controller, 0)
    /\ irq' = (irq \/ controller = << >>)
    /\ merged' = IF controller = << >> /\ irq THEN merged + 1 ELSE merged
    /\ UNCHANGED <<sch, buffers, wait_queue, pc, len, delivered, overrun>>

----------------------------------------------------------------------------
(* The interrupt handler.                                                  *)

putChar(b, c) ==
    IF c = 0 THEN b
    ELSE [b EXCEPT !.buffer[b.wpos] = c,
                   !.wpos = IF b.wpos + 1 >= KbdLen THEN 0 ELSE b.wpos + 1]

\* KBDbuffer after the first n bytes of the controller.
putBytes[n \in 0 .. Len(controller)] ==
    IF n = 0 THEN KBDbuffer ELSE putChar(putBytes[n - 1], controller[n])

\* kbdGetChar() gives a character, 0 or, when the controller has no byte left,
\* the -1 that ends the loop.
kbdPutChar2Buffer == putBytes[Len(controller)]

\* A character that makes the write position meet the read position: the ring
\* then counts as empty.
RingOverflows ==
    \E n \in 1 .. Len(controller) : controller[n] # 0 /\ putBytes[n].wpos = KBDbuffer.rpos

Mut_kbdGetCharFromBuffer(b) ==                \* mutant: reads the newest character
    IF b.rpos = b.wpos THEN 0 ELSE b.buffer[(b.wpos + KbdLen - 1) % KbdLen]

kbdGetCharFromBuffer(b) == IF b.rpos = b.wpos THEN 0 ELSE b.buffer[b.rpos]

Mut_kbdAdvance(b) ==                \* mutant: the character stays in the ring
    b

kbdAdvance(b) ==
    IF b.rpos = b.wpos THEN b
    ELSE [b EXCEPT !.rpos = IF b.rpos + 1 >= KbdLen THEN 0 ELSE b.rpos + 1]

\* The scheduler after the first n waiters have been woken.
wakeupFirsts[n \in 0 .. Len(wait_queue.list)] ==
    IF n = 0 THEN sch ELSE wakeupTask(wakeupFirsts[n - 1], wait_queue.list[n])

\* wakeupAll(wait_queue, WT_KBD, 1): each waiter from the first on.
wakeupAll ==
    /\ sch' = wakeupFirsts[Len(wait_queue.list)]
    /\ wait_queue' = [list |-> << >>,
                      flags |-> [t \in Tasks |-> IF waitlistIsInList(wait_queue, t)
                                                   THEN "KBD" ELSE wait_queue.flags[t]]]

Mut_stdin_do_write(c) ==            \* mutant: tells the readers only of the first one
    IF c = 0 THEN UNCHANGED <<sch, stdin_buffer, p_wpos, wait_queue>>
    ELSE /\ stdin_buffer' = [stdin_buffer EXCEPT ![p_wpos % BufLen] = c]
         /\ p_wpos' = IF p_wpos - p_rpos < BufLen THEN p_wpos + 1 ELSE p_wpos
         /\ UNCHANGED <<sch, wait_queue>>

\* A full buffer keeps its positions, but the oldest unread character, whose
\* place it is, has been overwritten.
_stdin_do_write(c) ==
    IF c = 0 THEN UNCHANGED <<sch, stdin_buffer, p_wpos, wait_queue>>
    ELSE /\ stdin_buffer' = [stdin_buffer EXCEPT ![p_wpos % BufLen] = c]
         /\ p_wpos' = IF p_wpos - p_rpos < BufLen THEN p_wpos + 1 ELSE p_wpos
         /\ wakeupAll

\* The requests the handler merges when it reads all the bytes: each byte after
\* the first raises IRQ1 as the one before it is read, and at most one of them
\* stays latched (again).
Merges(again) == IF controller = << >> THEN 0 ELSE Len(controller) - 1 - (IF again THEN 1 ELSE 0)

\* All bytes go to the ring, one character from there to the device.
kbdIntrCallBack ==
    /\ irq /\ Interruptible
    /\ LET b == kbdPutChar2Buffer
           c == kbdGetCharFromBuffer(b)
       IN  /\ KBDbuffer' = kbdAdvance(b)
           /\ _stdin_do_write(c)
           /\ overrun' = (overrun \/ RingOverflows \/ (c # 0 /\ p_wpos - p_rpos >= BufLen))
    /\ \E again \in BOOLEAN :
          /\ again => Len(controller) > 1
          /\ irq' = again
          /\ merged' = IF KBDbuffer'.rpos = KBDbuffer'.wpos THEN 0 ELSE merged + Merges(again)
    /\ controller' = << >>
    /\ UNCHANGED <<typed, p_rpos, pc, len, delivered>>

----------------------------------------------------------------------------
(* _stdin_do_read().                                                       *)

Unread == [i \in 1 .. p_wpos - p_rpos |-> stdin_buffer[(p_rpos + i - 1) % BufLen]]

\* Takes what there is, and sleeps if that is less than n characters.
readLoop(t, n) ==
    LET k == IF n < p_wpos - p_rpos THEN n ELSE p_wpos - p_rpos
    IN  /\ p_rpos' = p_rpos + k
        /\ delivered' = delivered \o SubSeq(Unread, 1, k)
        /\ len' = [len EXCEPT ![t] = n - k]
        /\ IF k = n
             THEN /\ pc' = [pc EXCEPT ![t] = "user"]
                  /\ wait_queue' = waitDelCurrent(wait_queue, t)
                  /\ UNCHANGED sch
             ELSE /\ pc' = [pc EXCEPT ![t] = "woken"]
                  /\ wait_queue' = waitAdd(waitDelCurrent(wait_queue, t), t)
                  /\ sch' = schedule(waitSleep(sch, "KBD"))

ReadStarts(t) ==
    /\ Cur = t /\ pc[t] = "user"
    /\ \E n \in 1 .. MaxLen : readLoop(t, n)
    /\ UNCHANGED <<keyboard, KBDbuffer, stdin_buffer, p_wpos, overrun>>

\* schedule() returned: try again, or give up if it was not the keyboard.
ReadRepeats(t) ==
    /\ Cur = t /\ pc[t] = "woken"
    /\ IF wait_queue.flags[t] = "KBD" THEN readLoop(t, len[t])
       ELSE /\ wait_queue' = waitDelCurrent(wait_queue, t)
            /\ pc' = [pc EXCEPT ![t] = "user"]
            /\ len' = [len EXCEPT ![t] = 0]
            /\ UNCHANGED <<sch, p_rpos, delivered>>
    /\ UNCHANGED <<keyboard, KBDbuffer, stdin_buffer, p_wpos, overrun>>

----------------------------------------------------------------------------

Next ==
    \/ Tick \/ Key \/ kbdIntrCallBack
    \/ \E t \in Readers : ReadStarts(t) \/ ReadRepeats(t)

Spec == Init /\ [][Next]_vars

(* Interrupts that are pending are delivered once they are enabled, and a   *)
(* reader on the CPU goes on.                                               *)
Fairness ==
    /\ WF_vars(Tick)
    /\ SF_vars(kbdIntrCallBack)
    /\ \A t \in Readers : WF_vars(ReadRepeats(t))

FairSpec == Spec /\ Fairness

----------------------------------------------------------------------------
(* Properties.                                                             *)

\* The positions of the ring of kbd.c stay inside it, and the other variables
\* have their types.
TypeOK ==
    /\ sch \in SchedState
    /\ controller \in Seq(0 .. MaxKeys) /\ irq \in BOOLEAN /\ merged \in Nat /\ typed \in 0 .. MaxKeys
    /\ KBDbuffer \in [buffer : [0 .. KbdLen - 1 -> 0 .. MaxKeys],
                      rpos : 0 .. KbdLen - 1, wpos : 0 .. KbdLen - 1]
    /\ stdin_buffer \in [0 .. BufLen - 1 -> 0 .. MaxKeys]
    /\ p_rpos \in Nat /\ p_wpos \in Nat
    /\ wait_queue \in WaitQueue
    /\ pc \in [Tasks -> {"user", "woken"}]
    /\ len \in [Tasks -> 0 .. MaxLen]
    /\ delivered \in Seq(0 .. MaxKeys) /\ overrun \in BOOLEAN

\* The characters in the ring of kbd.c, and those still in the controller.
InRing ==
    [i \in 1 .. (KBDbuffer.wpos + KbdLen - KBDbuffer.rpos) % KbdLen
        |-> KBDbuffer.buffer[(KBDbuffer.rpos + i - 1) % KbdLen]]

\* The characters among the first n bytes.
charsTo[n \in 0 .. Len(controller)] ==
    IF n = 0 THEN << >>
    ELSE IF controller[n] = 0 THEN charsTo[n - 1] ELSE Append(charsTo[n - 1], controller[n])
InController == charsTo[Len(controller)]

\* As long as neither buffer has been full when a character came, every
\* character typed is in exactly one place and in the order of typing: given
\* to a reader, in the device buffer, in the ring of the driver or in the
\* controller.  It holds across the hand-over between the two buffers and
\* between readers that sleep and wake up (kbd.c, stdin_inode.c).
KeysInOrder ==
    ~overrun => delivered \o Unread \o InRing \o InController = [i \in 1 .. typed |-> i]

\* A byte in the controller always has an interrupt to come.  The handler takes
\* one character from the ring for each interrupt, however many bytes it put
\* there (kbd.c), so a character may be left in the ring until a later key; but
\* only one for each request that merged with another since the ring was last
\* empty: without merged requests, none is left behind.
KeysHaveInterrupts ==
    /\ controller # << >> => irq
    /\ Len(InRing) <= merged + (IF irq THEN 1 ELSE 0)

\* A reader sleeps only while there is nothing to read, and it is in the queue
\* that the handler wakes; the unread characters never exceed the buffer.
SleepersStarve ==
    /\ p_rpos <= p_wpos /\ p_wpos - p_rpos <= BufLen
    /\ \A t \in Readers :
          /\ sch.state[t] = "SLEEPING" => p_rpos = p_wpos
          /\ waitlistIsInList(wait_queue, t) <=> sch.state[t] = "SLEEPING"

\* The same, and the run queue stays exact while the handler wakes all readers at
\* once; none of them is a zombie (wakeupAll, wakeupTask).
QueuesOK == TypeOK /\ SleepersStarve /\ RunQueueExact(sch) /\ ~sch.panic


=============================================================================
