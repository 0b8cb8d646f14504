# FreakOS in TLA+

FreakOS is a small 32-bit x86 kernel for one CPU: round-robin tasks with
`fork`, `exec`, `exit` and `wait`, semaphores, a first-fit page allocator, a
block cache over an IDE disk, FAT behind a VFS, and a keyboard as `stdin`. This
directory holds TLA+ models of its core, the TLC configurations that check them
on small instances, and theorems checked by TLAPS. `PROJECT.json` is the index:
components, runs, mutants, the map from definitions to source lines, findings,
hazards, theorems.

Run a configuration with `tlc -config X.cfg M`, check proofs with
`tlapm M.tla` for each module M whose name ends in `Proofs`. They take some
minutes each.

## 1. Inventory

| Component (source) | State | Operations | Interacts with |
| --- | --- | --- | --- |
| Scheduler and timer (`task/sched.c`, `driver/timer.c`) | run queue, `CurrentTask`, state, wait state and time slice of each task | `schedule`, `wakeupTask`, `tickTask`, `timerCallBack`, `cpu_idle` | called by everything that sleeps or wakes, and by IRQ0 |
| Tasks (`task/task.c`, `task/init_task.c`) | task list, parent pointers, sibling lists, tids | `do_fork`, `do_exit`, `do_wait`, the init thread | scheduler; memory and files at fork, exec and exit |
| Semaphores, wait queues (`sync/sem.c`, `sync/wait.c`) | value, queue of `Wait_t` | `acquireSem`, `releaseSem`, `wakeupAll` | scheduler; locks of memory maps, files, cache, IDE, FAT |
| Keyboard and stdin (`driver/kbd.c`, `fs/stdio/stdin_inode.c`) | ring of the driver, buffer of the device, queue of readers | interrupt handler, blocking read | IRQ1, wait queues, VFS |
| Pages and kmalloc (`mm/pmm.c`, `mm/ff_mmanager.c`, `mm/kmalloc.c`) | free list, block sizes and flags of pages, counter | allocate, free with merging, `kmalloc`, `kfree` | all allocations of the kernel |
| Block cache (`driver/bcache.c`) | buffers with sector, age, occupied and modified marks | `bcache_rw`, `diskIO_BCache`, `sync_all_bcache` | FAT above, IDE below, a semaphore around |
| Virtual memory (`mm/vmm.c`, `mm/page.c`, `mm/page_fault.c`) | list of areas, page tables, page references | map, copy at fork, free at exit, page fault | pages, tasks |
| exec (`task/task.c`, ELF) | the address space being built | `do_execve`, loading of ELF segments | memory, files, tasks |
| Open files, VFS, FAT inodes (`fs/file.c`, `fs/sysfile.c`, `fs/vfs`, `fs/fat/fat_inode.c`) | descriptors of each process, inodes with open count, position and size, directory entries | open, create, close, read, write, seek, sync; fork, exec and exit of their owners | FAT volume, stdin, stdout, tasks |
| FatFs core (`fs/fat/fat_base.c`) | allocation table, directory, file objects with a sector buffer | read, write, seek, truncate, sync, create | block cache below, FAT inodes above |
| IDE, partitions (`driver/ide.c`, ...) | device table | sector transfer | block cache |
| Interrupt dispatch, boot, console, user library | frames, descriptor tables | entry and exit of interrupts, output | all |

### What is hard here

* **Interrupt masking is the only mutual exclusion.** Gates clear IF, so a
  system call of a process is one uninterrupted piece of code up to the
  `schedule()` that puts it to sleep. A *kernel thread* (init, and the thread
  that becomes the first process) runs with IF set, and `timerCallBack()` itself
  calls `schedule()`, so it can lose the CPU between any two instructions that
  are not inside `intr_save`/`intr_restore`. Every unprotected shared access of
  such a thread is an atomicity question.
* **Sleeping in two or three steps**: state, wait reason, `schedule()`. An event
  can fall in between.
* **Hand-over**: `up()` gives its unit to a waiter that may not have left
  `down()`, may not even have called `schedule()`.
* **Reuse**: task structures and tids are reused after a reap.
* **Merging in one pass** over a free list in no order.
* **Partial failure**: a disk operation that fails in the middle of a
  replacement, of the extension of a file or of the removal of a chain; memory
  that runs out in the middle of a fork, an exec or a page fault; an exec that
  fails when the old address space is gone.
* **Sharing**: all descriptors of a file in all processes use one inode, with
  one position; its size is in the inode and, older, in the directory entry.
* **Boundaries**: segments of a program that start and end inside pages, areas
  that share a page table, writes that end on a sector or cluster boundary.
* **Progress**: every runnable task runs, a waiter gets the semaphore, a parent
  learns of its dead child, a key reaches its reader.

What makes each part correct: the run queue holds exactly the runnable tasks
that are not on the CPU; every task but idle has a live parent, and nothing
refers to a freed task; units of a semaphore are conserved and given in order of
arrival; characters are delivered once and in order; the blocks of the allocator
partition memory and are merged maximally; the cache behaves as a disk; every
page frame has one use, programs are loaded and address spaces copied exactly;
an inode is not released while a descriptor refers to it; the chains of files
do not meet and a file holds what was written to it. The hazards with their
source lines and the properties aimed at them are in `PROJECT.json`.

## 2. Modules

| Module | Models | Remarks |
| --- | --- | --- |
| `Sched` | scheduler, timer | pure functions on a record that is the scheduler state |
| `SchedProofs` | | lemmas and theorems about these functions |
| `Task` | fork, exit, wait, init thread | one variable `sch` holds a state of `Sched` |
| `TaskProofs` | | the scheduling invariant of `Task`, and on top of it its family tree |
| `Wait` | wait queues | functions on a queue record |
| `Sem` | a semaphore and its users | composes `Sched` and `Wait` |
| `FifoSem` | abstract: FIFO semaphore with hand-over | implemented by `Sem` |
| `SemProofs` | | invariant of `Sem`, and that it implements `FifoSem` |
| `Stdin` | keyboard interrupt, buffers, readers | composes `Sched` and `Wait` |
| `StdinProofs` | | invariant of `Stdin` |
| `PMM` | page allocator, `kmalloc`, `kfree` | one step per visited free block |
| `PageAlloc` | abstract: a set of free pages | implemented by `PMM` |
| `PMMProofs` | | invariant of `PMM`, and that it implements `PageAlloc` |
| `BCache` | block cache, disk that fails | atomic under its semaphore, see `Sem` |
| `BlockStore` | abstract: a disk | implemented by `BCache` |
| `BCacheProofs` | | invariant of `BCache`, and that it implements `BlockStore` |
| `VMM` | address spaces: fork, exec, exit, page faults | one step per page copied, loaded or cleared |
| `VMMProofs` | | invariant of `VMM` |
| `Files` | descriptors, system calls on files, VFS, inodes | FAT files by size and position; `Fat` has what is below |
| `FilesProofs` | | invariant of `Files` |
| `Fat` | FAT volume and file objects | one step per sector or cluster of a call |
| `MCTask`, `MCSem`, `MCStdin`, `MCPMM`, `MCBCache`, `MCVMM`, `MCFiles`, `MCFat` | | model values, programs, flags and symmetry for TLC |

Definitions named `Mut_...` are mistakes of the kind a change to the code could
make. They are not used by any specification; each one put in place of the
definition after it makes TLC report the property that `PROJECT.json` names.

### Scheduler and tasks

`sch.run_list` is `RunQueue.run_list`, `sch.state`, `wait_state`, `time_slice`
and `need_resched` are the fields of `Task_t`; a task of state `FREE` is a
`Task_t` that is not allocated. `schedule(s)` requeues the current task if it is
runnable and dispatches the head; the context switch is the change of
`CurrentTask`, as each action is guarded by the task being current. `panic`
records a reached `panic()`.

`children[p]` is the list `cptr`, `optr`, `yptr`, from the youngest child on.
`pc` says where each task stands. A process is in user mode (`user`) or asleep
in `do_wait` (`wait`); `sys_fork`, `sys_exit`, `sys_wait` and `WaitRepeats` (the
`goto repeat` after `schedule()`) are whole system calls with all they call: the
wake-ups, the re-parenting, the removal from the lists, `kfree` of the `Task_t`.
The init thread has a location for every statement of `do_wait` that touches
shared data (`repeat`, `scan`, `set_state`, `set_wait`, `schedule`, `del_task`,
`kfree`), and `Tick` may come at each of them. The first process starts as a
kernel thread (`kthread`): its exec succeeds, or it exits by a system call, or it
returns and exits as a thread (`exit`, `exit_cli`), where a tick between the
assignment of `ZOMBIE` and `intr_save()` ends it half-way. A failed fork undoes
its allocations and leaves this state alone; files and address space are not in
it. `ptr` is the local pointer that init keeps across preemptions.

### Semaphores

`value` and `wait_queue` are the fields of `Semaphore_t`. `DownTakes` and
`DownWaits` are the two ways through the masked part of `down()`; `schedule` is
the gap between `intr_restore()` and `schedule()`, which only threads have;
`DownReturns` is the rest with the test of the wake-up flag in `acquireSem()`.
`up()` hands its unit to the first waiter without passing through `value`.

### Keyboard

`Key` is the keyboard (bytes that stand for a character, and bytes that do not),
which holds up to `MaxHeld` of them. It raises IRQ1 for its first byte, and for
each further one when the byte before has been read. The interrupt controller
remembers one request (`irq`); requests that find it set are merged, and the
history variable `merged` counts them since the driver's ring was last empty.
`kbdIntrCallBack` moves all bytes of the keyboard to the ring and one character
from there to the device, as the code does. So three bytes that meet one
interrupt leave a character in the ring, which comes out with a later key; and
the ring, which has no test for it, can overflow (`RingOverflows`). `readLoop` is
`_stdin_do_read` up to its end or its sleep. `p_rpos` and `p_wpos` only grow, as
in the code; their wrap-around after 2^32 characters is out of range. `delivered`
and `overrun` are history variables too. Scan codes are abstracted to "a character or
none".

### Page allocator

A page is its number. `free_list`, `property`, the flag set `PGP_property` and
`free_page_count` are those of the code. `FreeBegins`, `FreeVisits` and
`FreeEnds` are the parts of `ff_free_pages` before, in and after its loop; an
element that was merged and taken out leaves the position where it was.
Allocations are held in `live` by callers that free what they got, with the size
they got it with. `asked` is a history variable, the size of the last request:
with it `PageAlloc` can say which requests may be refused. `kmalloc` without
memory computes an address from a null
pointer: `Garbage` or by accident `NULL`.

### Block cache

`rwHit`, `rwFill`, `rwEvict` are the three parts of `bcache_rw`: found, free
buffer, replaced buffer. `Failures` says which disk operations may fail. An
access ages all buffers in use (`Aged`) and the oldest one is replaced.
`bcache_rw` and `sync_all_bcache` hold the cache's semaphore from end to end and
are atomic; a request of two sectors is two calls of `bcache_rw`. `recent` and
`spoiled` are history variables: the pairs of sectors of which the first has been
used and the second has not been since, and the sectors whose read has failed and
that have not been written since. A failed read leaves
its buffer marked as if the sector had been loaded (`bcache.c:101`), so that
later reads of that sector deliver what happened to be in the buffer. The
properties are stated so that this is the only harm: `BlockStore` has an
`Unknown` content for such a sector.

### Address spaces

`vm` is physical memory (free frames, `page_ref`, contents) with the `MemMap_t`
structures: reference count, page directory, areas, and for each page table the
frame it is in and its entries. `owner[t]` is the `mm` of a task. A system call
is not interrupted, so at most one is in progress; `call` holds its local
variables, and each turn of its loops is a step, since memory may run out in any
of them:

* fork: `copy_mm`, then `dup_mm` for each area and `copy_range` for each page,
  then `ForkEnds`; after a failure the pages, tables and areas copied so far
  and the page directory are given back. A kernel thread has no `mm` and shares none.
* exec: `do_execve` gives up the old space and sets up a new one; `load_segment`
  (`mm_map`), `load_page` (file part), `clear_tail` and `clear_page` (the rest up
  to `memsz`) and `next_segment`; `map_stack`, `stack_page`, `ExecEnds`. A read
  that fails, a bad segment or want of memory leads through `bad_cleanup_mmap`
  and the labels after it into `do_exit()`. Not every failed read is noticed:
  `file_read()` leaves the count alone, so that `sysfile_read()` returns the full
  length (`sysfile.c:75`) and `load_icode_read()` takes a buffer of anything for
  data; only the next seek fails. `ReadFails` is a failure that is noticed.
  `JunkHeader` and the second outcome of `load_page` are a last read that is not:
  the exec then succeeds without its last segment or a page of it, or without any
  segment if the read was that of the ELF header; or a junk program header reaches
  the panic of `insert_vma()`. `call.err` records it.
* `do_exit`, `Store` (a write of the program to a page it may write to), and
  `do_pgfault` from user and from kernel mode. The kernel's accesses are those
  of `copyFromUser` and `copyToUser`, behind `checkUserMem()`, whose loop over
  the areas is hardly ever entered; so it can touch a page without an area or
  without the right to it.

`halted` records why the system stopped in a `panic()` or `assert()`: no memory
for a page in `copy_range`, `insert_vma()` on areas that overlap, a fault of the
kernel that cannot be served, a write to a present page that is not writable.

### Open files

`files[p]` is the `FileStruct_t` of a process: the list of descriptors with
inode, rights and position, and the next number. `inode[i]` has the open count
and, for FAT files, position, size and the flags `FA__WRITTEN` and `FA__ERROR` of
the file object; `size[f]` is the size in the directory entry. `full` says
that a write on a full disk has left the counter of sectors at 0, after which the
next write may go on (see `Fat_full` below), up to `MaxSize`. `FileCall` has
one action per system call (`file_open` with look-up, creation and all its
error paths, `file_close`, `file_seek`, `file_sync`, and the start of a read or
write), `TaskCall` what fork, a failed fork, exec and exit do with the files.
Reads and writes move in pieces of `IOBUF_SIZE`, one `RwStep` each; `CopyFails`
is a piece whose user buffer cannot be reached, which the loops do not count
down. Only a read of stdin gives the CPU away in the middle (`StdinRead`). An
operation of the FAT volume is abstracted to the set of its outcomes: success, a
disk that is full at `Capacity`, a failed access that sets `FA__ERROR`.

### FAT volume

`fat`, `info`, `dir`, `data` are the table, the allocation hints of the
superblock, the directory entries and the sectors; `fp[f]` is the
`FATBase_FILE` of a file, with current cluster, current sector, the 8-bit
counter of sectors left in the cluster, and the sector buffer with its dirty
mark. `todo` is the rest of the call in progress: `fat_truncate` is a seek, a
cut, and a seek back, re-creation is the removal of a chain before the entry is
written, and `Step` does the next sector of a read or write, the next cluster of
a seek or of a removal. Each access to the disk may fail (`Works`, `Fails`);
`faults` has the number of failures, whether one of them left clusters that no
chain reaches (`lost`), and the files whose removal stopped half-way (`half`):
`remove_chain()` failing keeps `org_clust` on a cluster that is free again
(`fat_base.c:1678`), and another file may take it. `past` is history: the bytes
written to each file and still in it, and whether the sector counter has been
counted down from 0 (`wrapped`), after which a write can hit any sector.
Bytes are labelled with the file and offset they were written for, so
`ContentKept` notices a byte that is lost or in the wrong place.

## 3. Runs

| Run | Distinct states | Shows |
| --- | --- | --- |
| `Task_safety` | 27 855 | types, the inductive invariant, exact run queue, no panic, consistent family, init leaves last, no dangling `Task_t`, no process asleep beside a child it could reap |
| `Task_live` | 694 | every runnable task runs; a parent waiting beside a zombie returns |
| `Sem_users` | 4 176 | units conserved, sleepers queued, exact run queue, no panic, implements `FifoSem`; who calls `acquireSem` gets the semaphore |
| `Stdin_readers` | 32 884 | characters once and in order, none left in the ring but for merged interrupts, no reader asleep beside a character; what is typed while a reader waits is consumed |
| `PMM_safety` | 298 346 | memory partitioned, flags and counts exact in the middle of a free too, maximal merging, implements `PageAlloc` |
| `BCache_safety` | 1 335 616 | with reads and writes that fail: one buffer for a sector, which holds its data; implements `BlockStore`, LRU, durable sync |
| `VMM_safety` | 431 874 | every frame has one use, in the middle of forks and execs and after their failures too; areas do not overlap, each mapped page is in one; programs are loaded and address spaces copied byte by byte; the system stops for named reasons only, by an access of the kernel only where no area allows it or memory is used up |
| `Files_safety` | 824 902 | descriptor numbers are unique, the open count covers the descriptors, the directory entry follows the inode, counts returned are exact, the loops of read and write end |
| `Fat_safety` | 4 039 859 | with up to two accesses to the disk that fail, anywhere: chains end and do not meet, but for a file whose removal stopped half-way; no cluster lost but by a failure that must lose it; the free count exact up to one for each failure; position and contents exact; every call ends |

The invariants `QueuesOK`, `BooksExact`, `BuffersOK`, `SpacesOK`, `TablesOK` and
`VolumeOK` are conjunctions of the type invariant of their module with named
parts, each of which says in a comment what it is about.

Three runs end in a violation, each of a sentence in a comment of the code:

* `Task_initreap`: init is preempted after it has found no zombie and before it
  has set its wait state. The child that exits then finds `wait_state` without
  `WT_CHILD` and wakes nobody; init sleeps on a zombie (`task.c:793`). The
  comment in `init_task.c` says that init clears up all children.
* `Task_waitpid`: `get_new_tid()` returns the number of tasks, so a tid in use
  can be given again; `waitpid` of the older task's parent then fails
  (`task.c:179`).
* `Fat_full`: a write that finds the disk full leaves the counter of sectors in
  the cluster at 0 and the file position on a sector boundary; the next write
  counts down to 255 in an 8-bit field and takes the following sectors, which
  belong to other files (`fat_base.c:1339`). The properties of `Fat_safety` say
  what holds until the counter is counted down from 0: `~past.wrapped` is their precondition. As
  `wrapped` is never reset, the states behind satisfy all of them, and
  `CONSTRAINT Followed` spares TLC the visit.

Three more places where the code and a comment disagree are in the models as the
code has them, and no property is stated that they would violate:

* `file.h:27` calls `LSEEK_END` a seek relative to the end of the file; the code
  takes the size in the directory entry (`file.c:250`), which is the old one until
  the inode is synced.
* `vmm.c:46-52` says that `checkUserMem()` tests the areas of the process; it
  tests the user range only (`vmm.c:61`). `KernelFaultsRefused` says what is
  left: the kernel dies of no address that the announced test would let through,
  memory permitting.
* `sysfile.c:51` says that a read returns the bytes read; after a failed piece it
  returns as if the piece had been read, and an exec takes that for success.

Other behaviour to know of: the timer takes the CPU from kernel threads too
(`timer.c:21`), against the comment at `idt.c:215` that kernel processes cannot
be preempted, which is why their steps are interleaved; `kmalloc` without memory
returns an address computed from a null
pointer and not `NULL` (`kmalloc.c:48`); `fat_create` reports success for a
creation that failed; a descriptor's position and the one of its inode drift
apart (`file.c:120`), and `OPEN_MASK` makes a file opened with `OPEN_CREATE`
unreadable (`file.h:17`): `Files` models both as they are.

### Bounds

* Task: idle, init and four processes (two for liveness), `MaxTasks` 5. With
  four processes there are grandchildren, orphans that are zombies when their
  parent exits, a full task table, reuse of a `Task_t` and reuse of tids.
  `Task_waitpid` has `MaxTasks` 6, since its history needs a fourth process. The
  time slice is 1, the value of the code.
* Sem: two threads and two system calls, value 1: a thread
  in the gap, one inside, and others queued. Locks of the kernel start at 1.
* Stdin: two readers, a buffer of 2, a ring of 3, four characters: the buffer gets
  full, both rings wrap, a reader takes what another was woken for. The keyboard
  holds three bytes (`MaxHeld`; real ones hold some sixteen): with three, requests
  merge, a character is left in the ring without an interrupt, and the ring
  overflows; `NoKeyStuck` is proved for any `MaxHeld`.
* PMM: five usable pages of 2 bytes, requests of up to 11 bytes (one to six
  pages, one more than there are): a freed block between two free ones, on one
  side of one, at both ends of memory, and fragmentation that makes a request fail with enough pages free.
* BCache: one client, two buffers, three sectors, ages up to `MaxTime` 3:
  replacement, with and without write-back, and every operation that can fail.
  `MaxTime` cuts longer idle times of a buffer off; only the order of ages
  matters, and with two buffers three is one more than needed for any order. The
  lock is held for each sector, so the single-sector requests of one client make
  every transition of the cache that several clients make.
* VMM: init and two processes, four `MemMap_t` (one more than tasks, for the one
  being built), ten frames, five pages of two bytes, two pages per table, a
  stack of two pages of which one is there from the start. Two copies of the
  largest program do not fit, so memory runs out in every loop; the
  stack shares a page table with data. The eight programs of `MCVMM` cover a
  segment that starts inside a page, a cleared part with pages of its own, an
  empty file part, two segments in one page, one beyond user memory, one where
  the stack goes, one inside the stack behind its first page, one with more in the
  file than in memory, and two out of order that overlap.
* Files: two processes, one file that exists or not, three descriptors in all
  (`MaxOpen`), two numbers per process (`MaxFds`), transfers of 2 bytes in pieces
  of 1, a disk full after 1 byte, on which a write can go on by one piece
  (`MaxSize` 2). `MaxOpen`, `MaxFds`, `MaxPos` and `MaxSize` are guards. A file is open
  in both processes, opened twice in one, and inherited; a transfer ends in the
  middle, at the end of the file and on the full disk.
* Fat: two files and the root directory in four clusters of two sectors of two
  bytes, one directory entry per cluster so that the directory grows; writes and
  reads of 9 bytes (whole sectors past the buffer, a part of a sector, more than
  two clusters), seeks to the start, to the end and to 13, which is more than the
  disk has room for, so that the seek stops at the end of the last cluster;
  truncation to 0 and to a cluster boundary; two failing accesses, so that a
  removal can stop half-way and its clusters be taken by the other file, and one
  more access fail after that. Writes end at `MaxSize` 21, which is beyond the disk.

Symmetry is used for the user tasks (`Task_safety`, `VMM_safety`), the processes
(`Files_safety`, where only `Init` tells them apart) and the sector values, in
runs without liveness properties only.

Deadlock is checked in all runs but `Files_safety`: there `MaxFds` and `MaxOpen`
can be used up by processes that have exited or wait for a key. In the
others the timer, a request, or the standstill after a panic (`Stopped`) is
always possible.

### Fairness

`Tick` is weakly fair: the PIT is periodic. A system call on the CPU is not
interrupted, so its continuation is weakly fair. A kernel thread can be
preempted at every step, but a time slice is far longer than a step, so that a
thread which gets the CPU again and again makes progress: strong fairness of its
steps. Pending keyboard interrupts are delivered when interrupts are enabled
again and again: strong fairness. What processes do in user mode (fork, exit,
wait, read, acquire) is never assumed to happen, except `releaseSem`: code inside
a critical section of the kernel ends. In `Files` a call that has begun goes on,
as interrupts are masked; a read of stdin does so only when a key comes. With
`CallsAdvance` this gives the end of every read and write.

## 4. Proofs

The theorems hold for every value of the constants that meets the assumptions of
the modules. TLC evaluates these in each run. They say no more than the code
gives: idle is a task and init another one (`IdleAssumption`,
`InitTaskAssumption`), a null pointer is none of the things it could be confused
with (`NULLAssumption`, `AddressAssumption`, `FreesAssumption`,
`NoneAssumption`), sizes, lengths and bounds are numbers, and positive where the
code divides by them or counts down from them; tasks, processes and files are
finite in number where they are counted, and `VMM` has more names for a
`MemMap_t` than tasks, as `kmalloc()` never runs out of them.
The bounds that keep a run finite (`MaxTime`, `MaxFds`,
`MaxKeys`, ...) are constants like the others, so they bound nothing in a theorem.

| Module | Theorems |
| --- | --- |
| `SchedProofs` | `ScheduleCorrect`, `WakeupCorrect`, `TimerCorrect` |
| `TaskProofs` | `TypeCorrect`, `TaskInvariant`, `RunQueueExactAlways`, `NeverPanics`, `FamilyCorrect`, `InitLeavesLastAlways`, `NothingDangles`, `NoChildMissed` |
| `SemProofs` | `SemQueuesCorrect`, `UnitsCorrect`, refinement `SemIsFifo` |
| `StdinProofs` | `ReadersCorrect`, `NoKeyStuck`, `KeysDeliveredInOrder` |
| `PMMProofs` | `BooksCorrect`, `MergingComplete`, refinement `AllocatorIsPageAlloc` |
| `BCacheProofs` | `BuffersCorrect`, action properties `EvictionCorrect`, `SyncCorrect`, refinement `CacheIsStore` |
| `FilesProofs` | `TablesCorrect`, `OpenCountsCover`, `CountsCorrect`, action property `CallsCorrect` |
| `VMMProofs` | `SpacesCorrect`, `FramesCorrect`, `LoadingCorrect`, `CopyCorrect`, `PanicsCorrect`, action property `KernelFaultsCorrect`, all from `VMMInvariant` |

Each inductive invariant was checked with TLC on the instance of the run before
it was proved. All proofs have the same shape: what the operators of the model do
to sequences, sets and numbers; one lemma per action; the step; the theorems.

**Scheduler.** For any state `s` with `SchedInv(s)` (type, exact run queue, idle
runnable), `schedule(s)` keeps it, changes no state of a task and dispatches a
runnable one; `wakeupTask` of any task but a zombie keeps it, with a sleeper
queued once and the current task and idle never; so does the timer. The proof for
`schedule` goes through the moment between requeueing and dispatching, at which
the queue holds *all* runnable tasks but idle (`AllQueued`).

**Tasks.** `IInv == TypeOK /\ SchedInv(sch) /\ TaskInv /\ ~sch.panic`.
`RunQueueOK` is not inductive alone. `wakeupTask` of a zombie would panic, so
`WT_CHILD` has to mean asleep (`WaitInv`). A thread can be on the CPU in a state
other than runnable, but only at named places (`CurInv`); with `DeadInv` it
follows that no dead task comes back from its last `schedule()`. `do_exit` wakes
`parent[t]`, so a parent has to exist (`ParentInv`), also after re-parenting and
after a reap, for which sibling lists must hold each child once. Init holds a
pointer over preemptions: that what it points to is still its child, still a
zombie, still not woken, is `PtrInv`.

**The family.** `FInv`, on top of `IInv`. `TreeInv` says that parents live and
`ListInv` which tasks are in which list, with one exception: the task that init
has taken out of the lists and not yet given back. `OrderInv` is what shows that
init leaves last: a parent stands behind its children in the task list, in which
`do_fork` puts new tasks in front; so a process that is left has an ancestor
whose parent is init, and init cannot get `-E_CHILD`. `ThreadInv` covers the exit
that a tick can cut in two. For `NoMissedChild`, `SleepInv` gives the reason why
a sleeper sleeps: with pid 0 no child is a zombie; with a pid some child that
lives has it, and no newer task with this tid, which can be given twice, is a
child of the sleeper.

**Semaphores.** `SemInv == TypeOK /\ SchedInv(sch) /\ ~sch.panic /\ WaitInv /\
StateInv`. `WaitInv` says that the queue holds each task in `down()` that no
`up()` has woken, once, and no other; `StateInv` that just these are asleep, and
that a task which has called `schedule()` in `down()` runs again only when it is
woken. Both are needed at the gap between `intr_restore()` and `schedule()`: an
`up()` in it makes the task runnable that is on the CPU. `UnitsConserved` counts
holders, so the set of tasks is finite.

**Keyboard.** `StdinInv` is types and scheduler with `ReadersInv` (who sleeps is
in the queue, and only beside an empty buffer), `RingInv` (bytes in the
keyboard have an interrupt to come, and the ring holds at most one character for
each merged request, and one more only while an interrupt is to come) and, until
the first overrun, `PlacesInv`:
the number of each character follows from the place it is in. `KeysInOrder`
concatenates these places. `wakeupAll` wakes a list of any length; what it leaves
is proved for the set of its first n elements, by n.

**Pages.** `PMMInv == TypeOK /\ FlagsExact /\ ListOK /\ Merged /\ Counted /\
Partition(...)`. In the middle of a free, `Merged` says that the blocks already
visited do not touch the one being freed, and that no two blocks of the list
touch each other. A merge makes the block larger, and a block visited earlier
could then touch it; that none does is this invariant, for two blocks of the list
would have touched before. That is why one pass is enough in a list without order.
The sum that `getFreeMem()` forms is compared with the free pages by the place
reached in the list. An attempt to prove the refinement showed that `PageAlloc` used
to allow a refusal for a size nobody had asked for; it now has `asked`.

**Block cache.** `BInv == BuffersOK /\ ModifiedHoldsData /\ TimeOrder`. The code
knows ages and the property speaks of the order of use: `TimeOrder` connects the
two, and says that a used buffer has an age of at least 1, so that the search for
the oldest finds it. A buffer of a sector whose read failed is exempt, as its age
was not reset. `ModifiedHoldsData` keeps what `kmalloc()` left in a buffer from
reaching the disk.

**Files.** `FilesInv == InodesInv /\ ListsInv /\ OpenCovers /\ CallsInv`. A close
takes 1 off an open count, which is positive because the count covers the
descriptors. That fork adds at most 1 to an inode is a fact about lists: the same
inode is not twice in one. `CallsInv` is what a call relies on from step to step:
its descriptor is still there, what it has counted is how far the position has
moved, an exec that has closed everything finds room for its program, whose
descriptor is then the first of the list. It survives the steps of other
processes because these are between two steps of a call only if that call reads
stdin. `CallsCorrect` and fairness give the end of every read and write; the
theorem has the part without fairness.

**Address spaces.** `VInv` is `StateInv(vm, owner, call)` and `PanicsExplained`.
`StateInv` has three parts, and is stated for any state of memory, so that
what `get_pte`, `page_insert`, `exit_mmap` and the others do to it can be proved
before the actions that use them.

* `MemInv`: `Exact` says of every place that can refer to a frame (a directory,
  an entry of it, an entry of a page table) that no other place refers to the
  same one, and that the free frames are those no place refers to. `FramesExact`
  counts; it follows because a one-to-one map keeps cardinalities. `RefsOK` has
  the counts of the pages, without which `pte_remove_page` would not know when to
  free. Areas do not overlap, and pages lie in areas whose rights they have.
* `OwnerInv`: a `MemMap_t` has one task and count 1, or it has none, count 0, and
  is the one in the making.
* `CallInv`: what a loop has done so far. For a fork: the child has the areas
  that are not left to copy, and of the area being copied the pages that are not
  left. For an exec: the segments before are in memory, the present one is up to
  the place reached, and its area has no pages behind it, so that nothing is
  loaded over (`ReadInv`, `LoadInv`, `StackInv`); how that place lies to the page
  borders is `PlaceInv`. Loading a segment leaves earlier ones as they are because
  areas are separate, which is part of the same induction. After a read that
  failed unnoticed nothing more is read, so that only the last segment can be
  incomplete.

`KernelFaultsCorrect` needs the areas, which do not overlap, so that the one that
`find_vma()` returns is the one that allows the access, and that a page is
brought in with one frame for it and one for its table.

That exit frees everything needs the areas: `exit_mmap` looks at the range of
each area, and a page table outside of all of them would be lost (`TablesOK`).
The attempt to prove `PanicsExplained` showed that it used to be false. A program
whose only segment starts inside the stack, behind its first page, passes
`mm_map()`, which looks at the first page only, and reaches the panic of
`insert_vma()`. `Tangled` now has that case and `MCVMM` a program for it.

Only model-checked:

* all liveness (in `Task_live`, `Sem_users`, `Stdin_readers`): fairness and
  `ENABLED` are beyond the prover's backends;
* `Fat`: `VolumeOK`, `NoneLost`, `PositionExact`, `ContentKept`, `CallsAdvance`.
  They are about the chain of a file, which is the path a recursive function
  follows through the table; what it gives for a table of any size is a fact
  about data.

Where a fact needs induction over data (a list of any length, a chain of
parents), the library's theorems with an operator parameter cannot be used. It is
then stated for a set of numbers, and proved by the least number outside of the
set (`NatSet`, `LeastOf`). No module here declares a `RECURSIVE` operator; they
use quantifiers, folds and recursive functions.

## 5. Not modelled

* Tasks: names, contexts and kernel stacks; the initialisation in
  `init_task_func`, during which the keyboard is already live.
* Memory: callers of the page allocator are serialised, though the init thread
  can be preempted inside a `kfree`. `kmalloc` is taken never to fail in `VMM`
  and `Files`, as its callers cannot tell. `CLONE_FILES` is given by nobody and
  `CLONE_VM` only by init, which has no address space to share.
* Files: `fstat`, which changes nothing; `vfs_pwd`, as nothing changes it; the
  registration of devices at boot; block device inodes, which no descriptor can
  read or write; the counts `ref` and `open_count`, which nothing reads; two
  spellings of one path, which give two inodes for one file
  (`fat_inode.c:158`).
* FatFs: directories below the root, the formats of boot sector and table
  entries, and the functions nothing calls (unlink, rename, mkdir, chmod, utime,
  mkfs). The window of `move_window()` is seen through.
* Port I/O of the IDE driver and the partition table, of which only success or
  failure of a sector matters above; console, serial line and formatting, which
  are output; boot and descriptor tables, which run once before the scheduler;
  user programs, which are the environment that makes any call at any time. The
  bucket allocator in `kmalloc.c` and `wakeupFirst` have no callers.

A semaphore user calls `acquireSem` and `releaseSem` in pairs.

## 6. Plan

1. Proofs about `Fat`: `ChainsSeparate` and `NoneLost` do not need the length of
   a chain, if chains are stated by the predecessors in the table.
2. The page allocator called by a thread that is preempted inside a free: a
   second flow of control in `PMM`.
3. `Files` composed with `Task` for fork and exit.
