-------------------------------- MODULE PMM ---------------------------------
(***************************************************************************)
(* The physical page allocator: first fit with coalescing                  *)
(* (kern/mm/ff_mmanager.c behind kern/mm/pmm.c) and the byte interface of  *)
(* the kernel on top of it (kmalloc and kfree of kern/mm/kmalloc.c).       *)
(*                                                                         *)
(* A page is its number page2pagen(), a block its first page.  Freeing     *)
(* walks over the whole free list, one step of the model for each element. *)
(* The callers are serialised here: system calls run with interrupts       *)
(* masked.  The init thread, which frees the tasks it reaps with IF set,   *)
(* can be preempted inside a free; such a mix of two calls is left out.    *)
(***************************************************************************)
EXTENDS Integers, Sequences, FiniteSets, SequencesExt

CONSTANTS
    PageCount,  \* PageCount, the number of page frames
    FirstFree,  \* pa2page(FreeMemStart): the frames below it are reserved
    PgSize,     \* PGSIZE
    MaxBytes,   \* bound: the largest request
    NULL,       \* the null pointer
    Garbage     \* an address that is not NULL and of no page

ASSUME PageAssumption ==
    PageCount \in Nat /\ FirstFree \in Nat /\ FirstFree < PageCount
ASSUME SizeAssumption == PgSize \in Nat \ {0} /\ MaxBytes \in Nat \ {0}
ASSUME AddressAssumption == NULL \notin Int /\ Garbage \notin Int /\ NULL # Garbage

VARIABLES
    free_list,          \* FreeArea.ptr: the first pages of the free blocks
    free_page_count,    \* FreeArea.free_page_count
    property,           \* PhyPageBlock_t.property of each page
    PGP_property,       \* the pages whose flag PGP_property is set
    freeing,            \* the free in progress: base, n and the place of lp
    panic,              \* a panic() has been reached
    live,               \* the allocations that callers hold: base and bytes
    asked,              \* how many pages the last request was for, at first 0
    page,               \* what ff_alloc_pages() returned for it
    vaddr               \* the page whose address the last kmalloc() returned

area == <<free_list, free_page_count, property, PGP_property>>
vars == <<area, freeing, panic, live, asked, page, vaddr>>

AllPages == 0 .. PageCount - 1
UsablePages == FirstFree .. PageCount - 1

\* What freeing is when no free is in progress cannot be confused with a free.
Frees == [base : UsablePages, n : Nat, lp : Nat]
ASSUME FreesAssumption == NULL \notin Frees

\* ROUNDUP(bytes, 4096) / PGSIZE
pagen(bytes) == (bytes + PgSize - 1) \div PgSize

Block(b, n) == b .. b + n - 1

\* ff_free_area_init(), pagesInit() and ff_memmap_init() of all the memory
\* behind the Pages array.
initPMM ==
    /\ free_list = <<FirstFree>>
    /\ free_page_count = PageCount - FirstFree
    /\ property = [p \in AllPages |-> IF p = FirstFree THEN PageCount - FirstFree ELSE 0]
    /\ PGP_property = {FirstFree}

Init ==
    /\ initPMM
    /\ freeing = NULL /\ panic = FALSE
    /\ live = {} /\ asked = 0 /\ page = NULL /\ vaddr = NULL

----------------------------------------------------------------------------
(* Allocation.                                                             *)

\* The first block of the list with at least n pages is the i-th.
firstFit(i, n) ==
    /\ property[free_list[i]] >= n
    /\ \A j \in 1 .. i - 1 : property[free_list[j]] < n

\* The pages behind the first n of the i-th block take its place in the list.
splitBlock(i, n) ==
    LET p == free_list[i]
        larger == property[p] > n
    IN  /\ free_list' = IF larger THEN [free_list EXCEPT ![i] = p + n]
                                  ELSE RemoveAt(free_list, i)
        /\ property' = [q \in AllPages |-> IF q = p THEN n
                                           ELSE IF larger /\ q = p + n THEN property[p] - n
                                           ELSE property[q]]
        /\ PGP_property' = (PGP_property \ {p}) \cup (IF larger THEN {p + n} ELSE {})

ff_alloc_pages(n) ==
    /\ asked' = n
    /\ IF n <= free_page_count /\ \E i \in 1 .. Len(free_list) : firstFit(i, n)
         THEN \E i \in 1 .. Len(free_list) :
                /\ firstFit(i, n)
                /\ splitBlock(i, n)
                /\ free_page_count' = free_page_count - n
                /\ page' = free_list[i]
         ELSE page' = NULL /\ UNCHANGED area

\* No free is in progress.
Ready == freeing = NULL /\ ~panic

Gets(bytes) ==
    live' = IF page' = NULL THEN live ELSE live \cup {[base |-> page', bytes |-> bytes]}

\* The callers in page.c and task.c, which take one page at a time.
allocPhyPages ==
    /\ Ready
    /\ ff_alloc_pages(1)
    /\ Gets(PgSize)
    /\ UNCHANGED <<freeing, panic, vaddr>>

\* dokmalloc2() turns the answer into an address without looking at it: the
\* distance from Pages to a null pointer is no multiple of a PhyPageBlock_t,
\* and the quotient the compiler makes of it can be any number.
kmalloc(bytes) ==
    /\ Ready
    /\ ff_alloc_pages(pagen(bytes))
    /\ Gets(bytes)
    /\ vaddr' \in IF page' = NULL THEN {NULL, Garbage} ELSE {page'}
    /\ UNCHANGED <<freeing, panic>>

----------------------------------------------------------------------------
(* Freeing.                                                                *)

\* kfree(), or freePhyPages() of one page: the flags of all the pages are
\* tested and cleared, and base becomes the head of a block outside the list.
FreeBegins(a) ==
    /\ Ready
    /\ live' = live \ {a}
    /\ LET n == pagen(a.bytes)
       IN  IF \E p \in Block(a.base, n) : p < FirstFree \/ p \in PGP_property
             THEN panic' = TRUE /\ UNCHANGED <<area, freeing>>
             ELSE /\ property' = [property EXCEPT ![a.base] = n]
                  /\ PGP_property' = PGP_property \cup {a.base}
                  /\ freeing' = [base |-> a.base, n |-> n, lp |-> 1]
                  /\ UNCHANGED <<free_list, free_page_count, panic>>
    /\ UNCHANGED <<asked, page, vaddr>>

isBehind(p) == freeing.base + property[freeing.base] = p

Mut_isBefore(p) ==              \* mutant: off by one
    p + property[p] - 1 = freeing.base

isBefore(p) == p + property[p] = freeing.base

mergeBehind(p) ==
    /\ property' = [property EXCEPT ![freeing.base] = @ + property[p]]
    /\ PGP_property' = PGP_property \ {p}
    /\ UNCHANGED freeing

Mut_mergeBefore(p) ==           \* mutant: the size stays as it was
    /\ PGP_property' = PGP_property \ {freeing.base}
    /\ freeing' = [freeing EXCEPT !.base = p]
    /\ UNCHANGED property

mergeBefore(p) ==
    /\ property' = [property EXCEPT ![p] = @ + property[freeing.base]]
    /\ PGP_property' = PGP_property \ {freeing.base}
    /\ freeing' = [freeing EXCEPT !.base = p]

\* One turn of the loop.  An element that is taken out of the list still
\* leads to the next one.
FreeVisits ==
    /\ freeing # NULL /\ freeing.lp <= Len(free_list)
    /\ LET p == free_list[freeing.lp]
           listDel == free_list' = RemoveAt(free_list, freeing.lp)
       IN  \/ isBehind(p) /\ mergeBehind(p) /\ listDel
           \/ ~isBehind(p) /\ isBefore(p) /\ mergeBefore(p) /\ listDel
           \/ /\ ~isBehind(p) /\ ~isBefore(p)
              /\ freeing' = [freeing EXCEPT !.lp = @ + 1]
              /\ UNCHANGED <<property, PGP_property, free_list>>
    /\ UNCHANGED <<free_page_count, panic, live, asked, page, vaddr>>

FreeEnds ==
    /\ freeing # NULL /\ freeing.lp > Len(free_list)
    /\ free_page_count' = free_page_count + freeing.n
    /\ free_list' = <<freeing.base>> \o free_list
    /\ freeing' = NULL
    /\ UNCHANGED <<property, PGP_property, panic, live, asked, page, vaddr>>

----------------------------------------------------------------------------

Next ==
    \/ allocPhyPages
    \/ \E bytes \in 1 .. MaxBytes : kmalloc(bytes)
    \/ \E a \in live : FreeBegins(a)
    \/ FreeVisits \/ FreeEnds

Spec == Init /\ [][Next]_vars

\* getFreeMem() adds up the sizes along the list; after i blocks it has sumTo[i].
sumTo[i \in 0 .. Len(free_list)] ==
    IF i = 0 THEN 0 ELSE sumTo[i - 1] + property[free_list[i]]

getFreeMem == sumTo[Len(free_list)] * PgSize

----------------------------------------------------------------------------
(* Properties.                                                             *)

\* The blocks of the list lie in the managed memory (ff_mmanager.c) and the
\* other variables have their types.
TypeOK ==
    /\ free_list \in Seq(UsablePages)
    /\ free_page_count \in Nat
    /\ property \in [AllPages -> Nat]
    /\ PGP_property \subseteq UsablePages
    /\ freeing = NULL \/ freeing \in Frees
    /\ panic \in BOOLEAN
    /\ live \subseteq [base : UsablePages, bytes : 1 .. MaxBytes \cup {PgSize}]
    /\ asked \in Nat /\ page \in UsablePages \cup {NULL}
    /\ vaddr \in UsablePages \cup {NULL, Garbage}

\* The first pages of all free blocks, the one outside the list included.
FreeHeads == {free_list[i] : i \in 1 .. Len(free_list)}
                \cup (IF freeing = NULL THEN {} ELSE {freeing.base})
FreeBlock(b) == Block(b, property[b])
LiveBlock(a) == Block(a.base, pagen(a.bytes))
FreePages == UNION {FreeBlock(b) : b \in FreeHeads}

\* Every page belongs to exactly one block, a free one or one that a caller
\* holds, whatever was split and merged before; the list has no block twice.
MemoryPartitioned ==
    /\ \A b, c \in FreeHeads : b # c => FreeBlock(b) \cap FreeBlock(c) = {}
    /\ \A a, d \in live : a # d => LiveBlock(a) \cap LiveBlock(d) = {}
    /\ FreePages \cap UNION {LiveBlock(a) : a \in live} = {}
    /\ FreePages \cup UNION {LiveBlock(a) : a \in live} = UsablePages
    /\ IsInjective(free_list)

\* The flag marks exactly the first pages of free blocks, so that the test of
\* ff_free_pages() finds every page that is free, and frees of what was
\* allocated never panic.
FlagsExact == PGP_property = FreeHeads /\ ~panic

\* free_page_count is the number of free pages, and getFreeMem() agrees.
CountExact ==
    /\ freeing = NULL => /\ free_page_count = Cardinality(FreePages)
                         /\ getFreeMem = free_page_count * PgSize
    /\ freeing # NULL => free_page_count + freeing.n = Cardinality(FreePages)

\* The books of the allocator agree with each other and with what its callers
\* hold, also in the middle of a free: list, sizes, flags and count.
BooksExact == TypeOK /\ MemoryPartitioned /\ FlagsExact /\ CountExact

\* Two free blocks are never neighbours once a free has ended, so that a long
\* run of free pages is always one block: one pass over a list in any order
\* is enough to merge.
Coalesced ==
    freeing = NULL => \A b, c \in FreeHeads : b + property[b] # c

\* The allocator is the one of PageAlloc: what it hands out is free, and it
\* refuses only when there is no run of free pages of that length.  A free
\* takes effect when it begins.
Abs == INSTANCE PageAlloc WITH
          Frames <- UsablePages, Sizes <- {pagen(b) : b \in 1 .. MaxBytes} \cup {1},
          None <- NULL, free <- FreePages,
          blocks <- {[base |-> a.base, n |-> pagen(a.bytes)] : a \in live},
          asked <- asked, answer <- page

ImplementsPageAlloc == Abs!ASpec

=============================================================================
