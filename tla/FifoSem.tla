------------------------------ MODULE FifoSem -------------------------------
(***************************************************************************)
(* What acquireSem() and releaseSem() of kern/krnl/sync/sem.c promise: a   *)
(* counting semaphore with a first-in first-out queue in which a release   *)
(* passes the unit straight to the task that has waited longest.           *)
(***************************************************************************)
EXTENDS Naturals, Sequences, FiniteSets

CONSTANTS
    Procs,      \* the tasks that use the semaphore
    Units       \* its initial value

VARIABLES
    units,      \* units nobody has
    queue,      \* the tasks that wait, the first to come first
    owners      \* the tasks that have a unit

fvars == <<units, queue, owners>>

FInit == units = Units /\ queue = << >> /\ owners = {}

Waits(t) == \E i \in 1 .. Len(queue) : queue[i] = t

\* No overtaking: a unit is taken at once only when nobody waits for it.
Take(t) ==
    /\ t \notin owners /\ ~Waits(t)
    /\ queue = << >> /\ units > 0
    /\ units' = units - 1
    /\ owners' = owners \cup {t}
    /\ UNCHANGED queue

Enqueue(t) ==
    /\ t \notin owners /\ ~Waits(t)
    /\ units = 0
    /\ queue' = Append(queue, t)
    /\ UNCHANGED <<units, owners>>

Give(t) ==
    /\ t \in owners
    /\ IF queue = << >>
         THEN /\ units' = units + 1
              /\ owners' = owners \ {t}
              /\ UNCHANGED queue
         ELSE /\ queue' = Tail(queue)
              /\ owners' = (owners \ {t}) \cup {Head(queue)}
              /\ UNCHANGED units

FNext == \E t \in Procs : Take(t) \/ Enqueue(t) \/ Give(t)

FSpec == FInit /\ [][FNext]_fvars

=============================================================================
