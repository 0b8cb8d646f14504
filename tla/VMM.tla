-------------------------------- MODULE VMM ---------------------------------
(***************************************************************************)
(* Address spaces: the MemMap_t of kern/mm/vmm.c with its areas, the page  *)
(* tables of page.c, the page faults of page_fault.c, and what do_fork(),  *)
(* do_execve() and do_exit() of task.c do with them.                       *)
(*                                                                         *)
(* A system call is not interrupted: call is the one in progress, and its  *)
(* loops are steps of their own, because memory can run out in any of them *)
(* and the file can fail to be read.  Memory for MemMap_t and              *)
(* VirtMemArea_t comes from kmalloc(), which never says that there is none.*)
(*                                                                         *)
(* A page has PG bytes.  A byte is Junk, Zero, Stored, or <<va, k>>: byte  *)
(* k in the file of the segment for address va.                            *)
(***************************************************************************)
EXTENDS Integers, Sequences, FiniteSets, FiniteSetsExt

CONSTANTS
    Tasks,      \* the tasks
    init_task,  \* the init thread, which never has an address space
    MMs,        \* MemMap_t structures: numbers
    Programs,   \* ELF files: sequences of segments [va, filesz, memsz, flags]
    NFrames,    \* page frames for user memory
    PG,         \* bytes in a page
    PT,         \* pages that one page table maps
    NPages,     \* pages below USER_TOP
    StackPages, \* pages of the stack area
    Preloaded,  \* pages of the stack that exist from the start
    None,       \* a null pointer
    Dead        \* a task that does not exist

ASSUME PagesAssumption ==
    /\ NFrames \in Nat /\ PG \in Nat \ {0} /\ PT \in Nat \ {0}
    /\ NPages \in Nat /\ StackPages \in 1 .. NPages /\ Preloaded \in 0 .. StackPages
ASSUME NamesAssumption ==
    /\ init_task \in Tasks /\ IsFiniteSet(Tasks)
    /\ MMs \subseteq Nat \ {0} /\ IsFiniteSet(MMs) /\ Cardinality(MMs) > Cardinality(Tasks)
    /\ None # Dead /\ {None, Dead} \cap MMs = {}

VARIABLES
    vm,         \* physical memory and the MemMap_t structures
    owner,      \* the mm of each task, None without one, Dead
    call,       \* the system call in progress, or None
    halted      \* why the system has stopped, or "no"

vars == <<vm, owner, call, halted>>

Frames == 1 .. NFrames
Pages == 0 .. NPages - 1
Tables == 0 .. (NPages - 1) \div PT
Junk == << >>
Zero == <<0>>
Stored == <<1>>
Byte == {Junk, Zero, Stored} \cup Nat \X Nat
Empty == [i \in 0 .. PG - 1 |-> Junk]

VirtMemArea_t == [start : Pages, end : 1 .. NPages, flags : SUBSET {"R", "W"}]
PTE_t == [page : Frames, w : BOOLEAN]

MemMap_t ==
    [ref : Nat, pgdir : Frames, areas : SUBSET VirtMemArea_t,
     table : [Tables -> Frames \cup {None}], pte : [Pages -> PTE_t \cup {None}]]

Memory ==
    [free : SUBSET Frames, ref : [Frames -> Nat], data : [Frames -> [0 .. PG - 1 -> Byte]],
     mm : [MMs -> MemMap_t \cup {None}]]

Segment == [va : Nat, filesz : Nat, memsz : Nat, flags : SUBSET {"R", "W"}]

\* The local variables of copy_mm(), and of load_icode(): between two segments, in
\* the file part and the cleared part of one, and at the stack.  err is history:
\* whether a read of the ELF header, or another one, failed unnoticed.
Errors == {"no", "elf", "read"}
Fork == [op : {"dup"}, t : Tasks, c : Tasks, m : MMs, left : SUBSET VirtMemArea_t,
         pages : SUBSET Pages]
Reading == [op : {"segment"}, t : Tasks, m : MMs, left : Seq(Segment), prog : Programs,
            err : Errors]
Loading == [op : {"file", "zero"}, t : Tasks, m : MMs, left : Seq(Segment), prog : Programs,
            err : Errors, seg : Segment, start : Nat, la : Nat, offset : Nat]
Stacking == [op : {"stack"}, t : Tasks, m : MMs, k : Nat, prog : Programs, err : Errors]

ASSUME ProgramsAssumption == Programs \subseteq Seq(Segment)
ASSUME NoneAssumption ==
    None \notin Frames \cup PTE_t \cup MemMap_t \cup Fork \cup Reading \cup Loading \cup Stacking

Init ==
    /\ vm = [free |-> Frames, ref |-> [f \in Frames |-> 0],
             data |-> [f \in Frames |-> Empty], mm |-> [m \in MMs |-> None]]
    /\ owner = [t \in Tasks |-> IF t = init_task THEN None ELSE Dead]
    /\ call = None
    /\ halted = "no"

----------------------------------------------------------------------------
(* Page frames.  Which free frame is taken does not matter here; what is   *)
(* in a free one is not followed.                                          *)

first(s) == Min(s.free)

allocPhyPages(s) == [s EXCEPT !.free = @ \ {first(s)}]

freePhyPages(s, fs) ==
    [s EXCEPT !.free = @ \cup fs,
              !.ref = [f \in Frames |-> IF f \in fs THEN 0 ELSE s.ref[f]],
              !.data = [f \in Frames |-> IF f \in fs THEN Empty ELSE s.data[f]]]

----------------------------------------------------------------------------
(* Page tables.                                                            *)

hasTable(s, m, v) == s.mm[m].table[v \div PT] # None

\* get_pte() without create: the entry for page v, None without a page.
pte(s, m, v) == IF hasTable(s, m, v) THEN s.mm[m].pte[v] ELSE None

\* A new page table, for the entries in place i of the directory.
withTable(x, i, f) ==
    [x EXCEPT !.table[i] = f, !.pte = [u \in Pages |-> IF u \div PT = i THEN None ELSE x.pte[u]]]

\* get_pte() with create, while there is memory.
get_pte(s, m, v) ==
    IF hasTable(s, m, v) THEN s
    ELSE [allocPhyPages(s) EXCEPT
            !.ref[first(s)] = 1, !.mm[m] = withTable(@, v \div PT, first(s))]

canGet(s, m, v) == hasTable(s, m, v) \/ s.free # {}

pte_remove_page(s, m, v) ==
    LET f == pte(s, m, v).page
        d == [s EXCEPT !.ref[f] = @ - 1, !.mm[m].pte[v] = None]
    IN  IF d.ref[f] <= 0 THEN freePhyPages(d, {f}) ELSE d

page_insert(s, m, v, f, w) ==
    LET g == [get_pte(s, m, v) EXCEPT !.ref[f] = @ + 1]
        old == pte(g, m, v)
        c == IF old = None THEN g
             ELSE IF old.page = f THEN [g EXCEPT !.ref[f] = @ - 1]
             ELSE pte_remove_page(g, m, v)
    IN  [c EXCEPT !.mm[m].pte[v] = [page |-> f, w |-> w]]

canAlloc(s, m, v) == s.free # {} /\ canGet(allocPhyPages(s), m, v)

pgdir_alloc_page(s, m, v, w) == page_insert(allocPhyPages(s), m, v, first(s), w)

----------------------------------------------------------------------------
(* Areas: pages start .. end - 1.  As they do not overlap, the last one    *)
(* found, vma_cache, only saves the search.                                *)

Area(va, len, flags) ==
    [start |-> va \div PG, end |-> (va + len + PG - 1) \div PG, flags |-> flags]

find_vma(s, m, v) == {a \in s.mm[m].areas : v \in a.start .. a.end - 1}

isUserCanAccess(a) == a.start < a.end /\ a.end <= NPages

\* check_vma_overlap() for the areas before and behind a.
insertable(s, m, a) ==
    /\ find_vma(s, m, a.start) = {}
    /\ \A b \in s.mm[m].areas : b.start > a.start => a.end <= b.start

insert_vma(s, m, a) == [s EXCEPT !.mm[m].areas = @ \cup {a}]

\* The error return of mm_map().
unmappable(s, m, a) == ~isUserCanAccess(a) \/ find_vma(s, m, a.start) # {}

covered(s, m) == UNION {a.start .. a.end - 1 : a \in s.mm[m].areas}

\* unmap_range() for every area.
unmapped(s, m) ==
    LET vs == {v \in covered(s, m) : pte(s, m, v) # None}
        uses(f) == Cardinality({v \in vs : pte(s, m, v).page = f})
        fs == {pte(s, m, v).page : v \in vs}
        d == [s EXCEPT !.ref = [f \in Frames |-> s.ref[f] - uses(f)],
                       !.mm[m].pte = [v \in Pages |-> IF v \in vs THEN None ELSE s.mm[m].pte[v]]]
    IN  freePhyPages(d, {f \in fs : d.ref[f] <= 0})

Mut_exitRange(s, m) ==              \* mutant: only the table of each area's first page
    LET ts == {i \in Tables : s.mm[m].table[i] # None
                                /\ i \in {a.start \div PT : a \in s.mm[m].areas}}
    IN  freePhyPages([s EXCEPT !.mm[m].table =
                         [i \in Tables |-> IF i \in ts THEN None ELSE s.mm[m].table[i]]],
                     {s.mm[m].table[i] : i \in ts})

\* exit_range() for every area.
exitRange(s, m) ==
    LET ts == {i \in Tables : s.mm[m].table[i] # None
                                /\ i \in {v \div PT : v \in covered(s, m)}}
    IN  freePhyPages([s EXCEPT !.mm[m].table =
                         [i \in Tables |-> IF i \in ts THEN None ELSE s.mm[m].table[i]]],
                     {s.mm[m].table[i] : i \in ts})

exit_mmap(s, m) == exitRange(unmapped(s, m), m)

\* exit_mmap(), put_pgdir(), mm_destroy()
destroyed(s, m) ==
    LET e == exit_mmap(s, m)
    IN  [freePhyPages(e, {e.mm[m].pgdir}) EXCEPT !.mm[m] = None]

\* A task gives its mm up, in do_exit() and do_execve().
released(s, m) ==
    LET d == [s EXCEPT !.mm[m].ref = @ - 1]
    IN  IF m = None THEN s ELSE IF d.mm[m].ref = 0 THEN destroyed(d, m) ELSE d

\* mm_create() and setup_pgdir().
newMM(s) == Min({m \in MMs : s.mm[m] = None})

created(s) ==
    [allocPhyPages(s) EXCEPT !.mm[newMM(s)] =
        [ref |-> 0, pgdir |-> first(s), areas |-> {},
         table |-> [i \in Tables |-> None], pte |-> [v \in Pages |-> None]]]

----------------------------------------------------------------------------
(* do_fork(): copy_mm(), dup_mm(), copy_range().                           *)

At(op) == call # None /\ call.op = op /\ halted = "no"

Idle == call = None /\ halted = "no"

Halt(why) == halted' = why /\ UNCHANGED <<vm, owner, call>>

\* The init thread, without an mm, makes one kernel thread: user_task.
ForkThread(c) ==
    /\ Idle /\ \A t \in Tasks : owner[t] = IF t = init_task THEN None ELSE Dead
    /\ c # init_task
    /\ owner' = [owner EXCEPT ![c] = None]
    /\ UNCHANGED <<vm, call, halted>>

copy_mm(t, c) ==
    /\ Idle /\ owner[t] \in MMs /\ owner[c] = Dead
    /\ vm.free # {}
    /\ vm' = created(vm)
    /\ call' = [op |-> "dup", t |-> t, c |-> c, m |-> newMM(vm),
                left |-> vm.mm[owner[t]].areas, pages |-> {}]
    /\ UNCHANGED <<owner, halted>>

\* dup_mm() goes through the areas from the last to the first.
dup_mm ==
    /\ At("dup") /\ call.pages = {} /\ call.left # {}
    /\ LET a == CHOOSE x \in call.left : \A y \in call.left : y.start <= x.start
       IN  IF insertable(vm, call.m, a)
           THEN /\ vm' = insert_vma(vm, call.m, a)
                /\ call' = [call EXCEPT !.left = @ \ {a}, !.pages = a.start .. a.end - 1]
                /\ UNCHANGED <<owner, halted>>
           ELSE Halt("overlap")

Fork_fails == vm' = destroyed(vm, call.m) /\ call' = None /\ UNCHANGED <<owner, halted>>

Mut_copyPage(g, v, e) ==            \* mutant: memcpy() is left out
    page_insert(allocPhyPages(g), call.m, v, first(g), e.w)

copyPage(g, v, e) ==
    [page_insert(allocPhyPages(g), call.m, v, first(g), e.w)
        EXCEPT !.data[first(g)] = vm.data[e.page]]

\* One page; a page table that the parent does not have is skipped as a whole.
copy_range ==
    LET v == Min(call.pages)
        e == pte(vm, owner[call.t], v)
        g == get_pte(vm, call.m, v)
        done == [call EXCEPT !.pages = @ \ {v}]
    IN  /\ At("dup") /\ call.pages # {}
        /\ \/ /\ ~hasTable(vm, owner[call.t], v)
              /\ call' = [call EXCEPT !.pages = {u \in @ : u \div PT # v \div PT}]
              /\ UNCHANGED <<vm, owner, halted>>
           \/ /\ hasTable(vm, owner[call.t], v) /\ e = None
              /\ call' = done /\ UNCHANGED <<vm, owner, halted>>
           \/ e # None /\ ~canGet(vm, call.m, v) /\ Fork_fails
           \/ e # None /\ canGet(vm, call.m, v) /\ g.free = {} /\ Halt("no_memory")
           \/ /\ e # None /\ canGet(vm, call.m, v) /\ g.free # {}
              /\ vm' = copyPage(g, v, e)
              /\ call' = done /\ UNCHANGED <<owner, halted>>

ForkEnds ==
    /\ At("dup") /\ call.pages = {} /\ call.left = {}
    /\ vm' = [vm EXCEPT !.mm[call.m].ref = @ + 1]
    /\ owner' = [owner EXCEPT ![call.c] = call.m]
    /\ call' = None /\ UNCHANGED halted

----------------------------------------------------------------------------
(* do_exit()                                                               *)

do_exit(t) ==
    /\ Idle /\ owner[t] \in MMs
    /\ vm' = released(vm, owner[t])
    /\ owner' = [owner EXCEPT ![t] = Dead]
    /\ UNCHANGED <<call, halted>>

----------------------------------------------------------------------------
(* do_execve() and load_icode()                                            *)

Mut_do_execve(t, p) ==              \* mutant: the old address space is forgotten
    /\ Idle /\ owner[t] # Dead /\ t # init_task /\ vm.free # {}
    /\ vm' = created(vm) /\ owner' = [owner EXCEPT ![t] = None]
    /\ call' = [op |-> "segment", t |-> t, m |-> newMM(vm), left |-> p, prog |-> p,
                err |-> "no"]
    /\ UNCHANGED halted

\* Once the file is open the old mm is given up, and there is no way back.
do_execve(t, p) ==
    LET s == released(vm, owner[t])
    IN  /\ Idle /\ owner[t] # Dead /\ t # init_task
        /\ \/ /\ s.free # {}
              /\ vm' = created(s) /\ owner' = [owner EXCEPT ![t] = None]
              /\ call' = [op |-> "segment", t |-> t, m |-> newMM(s), left |-> p, prog |-> p,
                          err |-> "no"]
           \/ /\ s.free = {}
              /\ vm' = s /\ owner' = [owner EXCEPT ![t] = Dead] /\ UNCHANGED call
        /\ UNCHANGED halted

\* bad_cleanup_mmap, and do_exit()
Exec_fails ==
    /\ vm' = destroyed(vm, call.m)
    /\ owner' = [owner EXCEPT ![call.t] = Dead]
    /\ call' = None /\ UNCHANGED halted

seg == call.seg

\* load_icode_read() says that it failed, for one of the headers or in load_page:
\* the file is too short, or sysfile_seek() fails, as it does after every failed
\* read.
ReadFails ==
    /\ \/ /\ At("segment") /\ call.err # "elf"
          /\ call.left # << >> \/ call.left = call.prog
       \/ At("file") /\ call.start < seg.va + seg.filesz
    /\ Exec_fails

\* A failed read as such goes unnoticed: file_read() leaves the length as it was,
\* and sysfile_read() copies a buffer that holds anything.  Taken for the ELF
\* header it may have no program header; taken for a program header it may say
\* that there is nothing to load, or give an area that insert_vma() does not
\* take.  What else it may say needs another read, which fails.
JunkHeader ==
    /\ At("segment") /\ call.err = "no"
    /\ \/ /\ call.left = call.prog
          /\ call' = [call EXCEPT !.left = << >>, !.err = "elf"]
          /\ UNCHANGED <<vm, owner, halted>>
       \/ /\ call.left # << >>
          /\ call' = [call EXCEPT !.left = Tail(@), !.err = "read"]
          /\ UNCHANGED <<vm, owner, halted>>
       \/ /\ call.left # << >>
          /\ \E a \in VirtMemArea_t : ~unmappable(vm, call.m, a) /\ ~insertable(vm, call.m, a)
          /\ call' = [call EXCEPT !.err = "read"]
          /\ halted' = "overlap" /\ UNCHANGED <<vm, owner>>

load_segment ==
    LET h == Head(call.left)
        a == Area(h.va, h.memsz, h.flags)
        rest == [call EXCEPT !.left = Tail(@)]
    IN  /\ At("segment") /\ call.left # << >> /\ call.err = "no"
        /\ \/ h.filesz > h.memsz /\ Exec_fails
           \/ h.filesz = 0 /\ call' = rest /\ UNCHANGED <<vm, owner, halted>>
           \/ h.filesz \in 1 .. h.memsz /\ unmappable(vm, call.m, a) /\ Exec_fails
           \/ /\ h.filesz \in 1 .. h.memsz /\ ~unmappable(vm, call.m, a)
              /\ ~insertable(vm, call.m, a) /\ Halt("overlap")
           \/ /\ h.filesz \in 1 .. h.memsz /\ ~unmappable(vm, call.m, a)
              /\ insertable(vm, call.m, a)
              /\ vm' = insert_vma(vm, call.m, a)
              /\ call' = [op |-> "file", t |-> call.t, m |-> call.m, left |-> rest.left,
                          prog |-> call.prog, err |-> "no", seg |-> h,
                          start |-> h.va, la |-> (h.va \div PG) * PG, offset |-> 0]
              /\ UNCHANGED <<owner, halted>>

Mut_Part(start, end, la) ==         \* mutant: the rest of the last page is not left out
    [off |-> start - la, size |-> PG - (start - la)]

\* The part of the page at la that lies in start .. end - 1.
Part(start, end, la) ==
    LET size == PG - (start - la)
    IN  [off |-> start - la, size |-> IF end < la + PG THEN size - (la + PG - end) ELSE size]

\* The page table entry and the contents of a new page of the segment.
newPage(bytes) ==
    LET v == call.la \div PG
        s == pgdir_alloc_page(vm, call.m, v, "W" \in seg.flags)
    IN  [s EXCEPT !.data[pte(s, call.m, v).page] = bytes]

\* With a read that fails unnoticed, the page keeps what was in the buffer.
load_page ==
    LET end == seg.va + seg.filesz
        part == Part(call.start, end, call.la)
    IN  /\ At("file") /\ call.start < end /\ call.err = "no"
        /\ \/ ~canAlloc(vm, call.m, call.la \div PG) /\ Exec_fails
           \/ /\ canAlloc(vm, call.m, call.la \div PG)
              /\ \E err \in {"no", "read"} :
                    /\ vm' = newPage([i \in 0 .. PG - 1 |->
                               IF err = "no" /\ i \in part.off .. part.off + part.size - 1
                                 THEN <<seg.va, call.offset + i - part.off>> ELSE Junk])
                    /\ call' = [call EXCEPT !.start = @ + part.size, !.offset = @ + part.size,
                                            !.la = @ + PG, !.err = err]
              /\ UNCHANGED <<owner, halted>>

\* The rest of the last page with file contents is cleared.
clear_tail ==
    LET end == seg.va + seg.memsz
        part == Part(call.start, end, call.la - PG)
        f == pte(vm, call.m, (call.la - PG) \div PG).page
    IN  /\ At("file") /\ call.start >= seg.va + seg.filesz
        /\ IF call.start < call.la /\ call.start # end
           THEN /\ vm' = [vm EXCEPT !.data[f] = [i \in 0 .. PG - 1 |->
                            IF i \in part.off .. part.off + part.size - 1 THEN Zero ELSE @[i]]]
                /\ call' = [call EXCEPT !.op = "zero", !.start = @ + part.size]
           ELSE call' = [call EXCEPT !.op = "zero"] /\ UNCHANGED vm
        /\ UNCHANGED <<owner, halted>>

clear_page ==
    LET end == seg.va + seg.memsz
        part == Part(call.start, end, call.la)
    IN  /\ At("zero") /\ call.start < end
        /\ \/ ~canAlloc(vm, call.m, call.la \div PG) /\ Exec_fails
           \/ /\ canAlloc(vm, call.m, call.la \div PG)
              /\ vm' = newPage([i \in 0 .. PG - 1 |->
                         IF i \in part.off .. part.off + part.size - 1 THEN Zero ELSE Junk])
              /\ call' = [call EXCEPT !.start = @ + part.size, !.la = @ + PG]
              /\ UNCHANGED <<owner, halted>>

next_segment ==
    /\ At("zero") /\ call.start >= seg.va + seg.memsz
    /\ call' = [op |-> "segment", t |-> call.t, m |-> call.m, left |-> call.left,
                prog |-> call.prog, err |-> call.err]
    /\ UNCHANGED <<vm, owner, halted>>

StackArea == [start |-> NPages - StackPages, end |-> NPages, flags |-> {"R", "W"}]

map_stack ==
    /\ At("segment") /\ call.left = << >>
    /\ \/ unmappable(vm, call.m, StackArea) /\ Exec_fails
       \/ ~unmappable(vm, call.m, StackArea) /\ ~insertable(vm, call.m, StackArea) /\ Halt("overlap")
       \/ /\ ~unmappable(vm, call.m, StackArea) /\ insertable(vm, call.m, StackArea)
          /\ vm' = insert_vma(vm, call.m, StackArea)
          /\ call' = [op |-> "stack", t |-> call.t, m |-> call.m, k |-> 1, prog |-> call.prog,
                      err |-> call.err]
          /\ UNCHANGED <<owner, halted>>

stack_page ==
    /\ At("stack") /\ call.k <= Preloaded
    /\ \/ ~canAlloc(vm, call.m, NPages - call.k) /\ Halt("no_memory")
       \/ /\ canAlloc(vm, call.m, NPages - call.k)
          /\ vm' = pgdir_alloc_page(vm, call.m, NPages - call.k, TRUE)
          /\ call' = [call EXCEPT !.k = @ + 1]
          /\ UNCHANGED <<owner, halted>>

ExecEnds ==
    /\ At("stack") /\ call.k > Preloaded
    /\ vm' = [vm EXCEPT !.mm[call.m].ref = @ + 1]
    /\ owner' = [owner EXCEPT ![call.t] = call.m]
    /\ call' = None /\ UNCHANGED halted

----------------------------------------------------------------------------
(* Page faults.                                                            *)

Mut_allowed(a, e, write) ==         \* mutant: the rights of the area are not looked at
    TRUE

Mut_allowed_read(a, e, write) ==    \* mutant: a page is not brought in for a load
    write /\ "W" \in a.flags

\* The tests of do_pgfault() for a fault in area a on entry e.
allowed(a, e, write) == IF write THEN "W" \in a.flags ELSE e = None /\ "R" \in a.flags

\* A user process makes an access that the page tables do not allow.
Faults(t, v, write) ==
    /\ Idle /\ owner[t] \in MMs
    /\ LET e == pte(vm, owner[t], v) IN IF e = None THEN TRUE ELSE write /\ ~e.w

Killed(t, s) ==
    /\ vm' = released(s, owner[t])
    /\ owner' = [owner EXCEPT ![t] = Dead]
    /\ UNCHANGED <<call, halted>>

\* What cannot be handled ends the process, or the system if the kernel made
\* the access for it: checkUserMem() only tests that it is below USER_TOP.
Unhandled(t, s, kernel) == IF kernel THEN Halt("kernel_fault") ELSE Killed(t, s)

do_pgfault(t, v, write, kernel) ==
    LET m == owner[t]
        as == find_vma(vm, m, v)
        e == pte(vm, m, v)
        ok == as # {} /\ \A a \in as : allowed(a, e, write)
        w == \E a \in as : "W" \in a.flags
        g == get_pte(vm, m, v)
    IN  /\ Faults(t, v, write) /\ (kernel => e = None)
        /\ \/ ~ok /\ Unhandled(t, vm, kernel)
           \/ ok /\ ~canGet(vm, m, v) /\ Unhandled(t, vm, kernel)
           \/ ok /\ canGet(vm, m, v) /\ e # None /\ Halt("non_writable_pte")
           \/ ok /\ canGet(vm, m, v) /\ e = None /\ ~canAlloc(g, m, v) /\ Unhandled(t, g, kernel)
           \/ /\ ok /\ canGet(vm, m, v) /\ e = None /\ canAlloc(g, m, v)
              /\ vm' = pgdir_alloc_page(g, m, v, w)
              /\ UNCHANGED <<owner, call, halted>>

\* A store that the page tables allow.
Store(t, v) ==
    LET e == pte(vm, owner[t], v)
    IN  /\ Idle /\ owner[t] \in MMs
        /\ e # None /\ e.w
        /\ vm' = [vm EXCEPT !.data[e.page][0] = Stored]
        /\ UNCHANGED <<owner, call, halted>>

Stopped == halted # "no" /\ UNCHANGED vars

----------------------------------------------------------------------------

Next ==
    \/ dup_mm \/ copy_range \/ ForkEnds
    \/ ReadFails \/ JunkHeader \/ load_segment \/ load_page \/ clear_tail \/ clear_page
    \/ next_segment \/ map_stack \/ stack_page \/ ExecEnds \/ Stopped
    \/ \E t \in Tasks :
          \/ do_exit(t)
          \/ ForkThread(t)
          \/ \E c \in Tasks : copy_mm(t, c)
          \/ \E p \in Programs : do_execve(t, p)
          \/ \E v \in Pages : Store(t, v)
          \/ \E v \in Pages, write, kernel \in BOOLEAN : do_pgfault(t, v, write, kernel)

Spec == Init /\ [][Next]_vars

----------------------------------------------------------------------------
(* Properties.                                                             *)

Mapped(m) == {v \in Pages : pte(vm, m, v) # None}
Existing == {m \in MMs : vm.mm[m] # None}

\* The variables have their types.
TypeOK ==
    /\ vm \in Memory
    /\ call \in Fork \cup Reading \cup Loading \cup Stacking \cup {None}
    /\ owner \in [Tasks -> MMs \cup {None, Dead}]
    /\ halted \in {"no", "no_memory", "overlap", "kernel_fault", "non_writable_pte"}

\* Every frame is free or has one use, as the page directory, a page table or
\* a page of one address space, also in the middle of a fork or an exec and
\* after each of their failures: nothing is lost, shared or freed too early.
FramesExact ==
    LET tables == {u \in Existing \X Tables : vm.mm[u[1]].table[u[2]] # None}
        pages == {u \in Existing \X Pages : pte(vm, u[1], u[2]) # None}
        inUse == {vm.mm[m].pgdir : m \in Existing}
                 \cup {vm.mm[u[1]].table[u[2]] : u \in tables}
                 \cup {pte(vm, u[1], u[2]).page : u \in pages}
    IN  /\ inUse = Frames \ vm.free
        /\ Cardinality(inUse) =
              Cardinality(Existing) + Cardinality(tables) + Cardinality(pages)

\* ref counts the tasks of an address space, and one that no task has is being
\* built; page_ref is 1 for every page in use.
SharesCounted ==
    /\ \A m \in Existing :
          /\ vm.mm[m].ref = Cardinality({t \in Tasks : owner[t] = m})
          /\ vm.mm[m].ref = 0 => call # None /\ call.m = m
          /\ \A v \in Mapped(m) : vm.ref[pte(vm, m, v).page] = 1
    /\ \A t \in Tasks : owner[t] \in MMs => owner[t] \in Existing

\* Areas never overlap, and every page that is mapped lies in one and has its
\* rights: exit_mmap() reaches all of it, and a write to a page that is there
\* is an error of the program.
PagesInAreas ==
    \A m \in Existing :
        /\ \A a, b \in vm.mm[m].areas : a # b => a.end <= b.start \/ b.end <= a.start
        /\ \A v \in Mapped(m) : \E a \in vm.mm[m].areas :
              v \in a.start .. a.end - 1 /\ (pte(vm, m, v).w <=> "W" \in a.flags)

\* The address spaces are in order at every step of forks, execs, exits and page
\* faults, failed ones included.
SpacesOK == TypeOK /\ SharesCounted /\ PagesInAreas

\* The byte at address x.
ByteAt(m, x) == vm.data[pte(vm, m, x \div PG).page][x % PG]

\* When load_icode() comes to the stack, each segment is in memory: the bytes
\* from the file, and zeros up to memsz, whatever its alignment.  A read that
\* failed unnoticed can only have been the last one: it costs the last segment,
\* or, when it was that of the ELF header, all of them.
LoadedExactly ==
    call # None /\ call.op = "stack" /\ call.err # "elf" =>
        \A i \in DOMAIN call.prog :
            LET h == call.prog[i]
            IN  h.filesz > 0 /\ (call.err = "read" => i < Len(call.prog)) => \A k \in 0 .. h.memsz - 1 :
                   /\ pte(vm, call.m, (h.va + k) \div PG) # None
                   /\ ByteAt(call.m, h.va + k) = IF k < h.filesz THEN <<h.va, k>> ELSE Zero

\* When the copy for a fork is complete, the child has the areas and the pages
\* of its parent, with the same contents.
CopyExact ==
    call # None /\ call.op = "dup" /\ call.left = {} /\ call.pages = {} =>
        LET p == owner[call.t]
        IN  /\ vm.mm[call.m].areas = vm.mm[p].areas
            /\ Mapped(call.m) = Mapped(p)
            /\ \A v \in Mapped(p) :
                  /\ vm.data[pte(vm, call.m, v).page] = vm.data[pte(vm, p, v).page]
                  /\ pte(vm, call.m, v).w = pte(vm, p, v).w

\* Areas that mm_map() takes for free and insert_vma() does not: a segment that
\* runs into an earlier one behind it, or one that starts inside the stack.
Tangled(p) ==
    \/ \E i, j \in DOMAIN p : i < j /\ p[j].va \div PG < p[i].va \div PG
                              /\ Area(p[j].va, p[j].memsz, {}).end > p[i].va \div PG
    \/ \E i \in DOMAIN p : p[i].va \div PG > StackArea.start

\* The panic for want of memory comes only when at most one page is left, and
\* that of insert_vma() only in an exec, for segments that overlap in these two
\* ways or a program header whose read failed unnoticed; the one of do_pgfault()
\* for a page that is there never comes.  This holds for every order of forks,
\* execs, exits and faults.
PanicsExplained ==
    /\ halted = "no_memory" => Cardinality(vm.free) <= 1
    /\ halted = "overlap" => call.op = "segment" /\ (Tangled(call.prog) \/ call.err = "read")
    /\ halted # "non_writable_pte"

\* What the comment on checkUserMem() says it tests: the page lies in an area
\* with the right to be read, or written.
Accessible(m, v, write) ==
    \E a \in vm.mm[m].areas :
        v \in a.start .. a.end - 1 /\ (IF write THEN "W" ELSE "R") \in a.flags

\* The kernel dies of an address that a process gave it only where the test that
\* checkUserMem() announces would have refused the address, or for want of
\* memory: do_pgfault() brings in every page that passes that test, also a page
\* the process has not touched before.
KernelFaultsRefused ==
    [][\A t \in Tasks, v \in Pages, write \in BOOLEAN :
          do_pgfault(t, v, write, TRUE) /\ halted' = "kernel_fault" =>
              ~Accessible(owner[t], v, write) \/ Cardinality(vm.free) <= 1]_vars

=============================================================================
