----------------------------- MODULE VMMProofs ------------------------------
(***************************************************************************)
(* For every number of tasks, frames and pages and every set of programs:  *)
(* every page frame has one use in the middle of forks and execs too,      *)
(* areas and page tables fit each other, programs are loaded and address   *)
(* spaces copied exactly, and the system stops for named reasons only      *)
(* (vmm.c, page.c, page_fault.c, task.c).                                  *)
(***************************************************************************)
EXTENDS VMM, FiniteSetTheorems, SequenceTheorems, WellFoundedInduction, TLAPS

----------------------------------------------------------------------------
(* The inductive invariant.                                                *)

\* The places that can refer to a frame.
Dir(m) == <<m, "dir", 0>>
TableOf(m, i) == <<m, "table", i>>
PageOf(m, v) == <<m, "page", v>>

Places == {Dir(m) : m \in MMs} \cup {TableOf(m, i) : m \in MMs, i \in Tables}
          \cup {PageOf(m, v) : m \in MMs, v \in Pages}

\* What each of them refers to.
Used(s) ==
    [x \in Places |->
        IF s.mm[x[1]] = None THEN None
        ELSE IF x[2] = "dir" THEN s.mm[x[1]].pgdir
        ELSE IF x[2] = "table" THEN s.mm[x[1]].table[x[3]]
        ELSE IF pte(s, x[1], x[3]) = None THEN None ELSE pte(s, x[1], x[3]).page]

\* No frame is referred to twice, and the ones in rest are those nobody refers to.
Exact(u, rest) ==
    /\ \A x, y \in Places : u[x] # None /\ u[x] = u[y] => x = y
    /\ \A f \in Frames : f \in rest <=> \A x \in Places : u[x] # f

RefsOK(s) ==
    /\ \A f \in s.free : s.ref[f] = 0
    /\ \A m \in MMs, v \in Pages : s.mm[m] # None /\ pte(s, m, v) # None
                                   => s.ref[pte(s, m, v).page] = 1

\* Areas are not empty and do not overlap.
AreasOK(as) ==
    /\ \A a \in as : a.start < a.end
    /\ \A a, b \in as : a # b => a.end <= b.start \/ b.end <= a.start

In(a, v) == a.start <= v /\ v < a.end

\* Pages lie in areas and have their rights; page tables serve an area.
TablesOK(x) ==
    /\ \A v \in Pages : x.table[v \div PT] # None /\ x.pte[v] # None =>
          \E a \in x.areas : In(a, v) /\ (x.pte[v].w <=> "W" \in a.flags)
    /\ \A i \in Tables : x.table[i] # None =>
          \E a \in x.areas : \E v \in Pages : In(a, v) /\ v \div PT = i

MMInv(x) == AreasOK(x.areas) /\ TablesOK(x)

\* Physical memory and the address spaces in it.
MemInv(s) ==
    /\ s \in Memory
    /\ Exact(Used(s), s.free)
    /\ RefsOK(s)
    /\ \A m \in MMs : s.mm[m] # None => MMInv(s.mm[m])

\* An address space has one task, or is the one in the making.
OwnerInv(s, o, c) ==
    /\ o \in [Tasks -> MMs \cup {None, Dead}]
    /\ \A t, u \in Tasks : o[t] \in MMs /\ o[t] = o[u] => t = u
    /\ \A t \in Tasks : o[t] \in MMs => s.mm[o[t]] # None /\ s.mm[o[t]].ref = 1
    /\ \A m \in MMs : s.mm[m] # None => (\E t \in Tasks : o[t] = m) \/ (c # None /\ c.m = m)
    /\ c # None => s.mm[c.m] # None /\ s.mm[c.m].ref = 0 /\ \A t \in Tasks : o[t] # c.m

\* Page v is in both address spaces or in neither, with equal rights and contents.
SamePage(s, m, p, v) ==
    /\ pte(s, m, v) = None <=> pte(s, p, v) = None
    /\ pte(s, m, v) # None =>
          /\ pte(s, m, v).w = pte(s, p, v).w
          /\ s.data[pte(s, m, v).page] = s.data[pte(s, p, v).page]

\* A fork has copied the areas that are not left, and in the last one the pages
\* that are not left.
ForkInv(s, o, c) ==
    LET p == o[c.t]
        new == s.mm[c.m].areas
    IN  /\ p \in MMs /\ o[c.c] = Dead
        /\ c.left \subseteq s.mm[p].areas
        /\ new = s.mm[p].areas \ c.left
        /\ \A v \in c.pages : (\E a \in new : In(a, v)) /\ pte(s, c.m, v) = None
        /\ \A v \in Pages \ c.pages : (\E a \in new : In(a, v)) => SamePage(s, c.m, p, v)

AreaOf(h) == Area(h.va, h.memsz, h.flags)

\* Byte k of segment h is in memory, as it should be unless a read failed.
ByteOK(s, m, h, k, err) ==
    /\ pte(s, m, (h.va + k) \div PG) # None
    /\ err = "no" =>
          s.data[pte(s, m, (h.va + k) \div PG).page][(h.va + k) % PG]
             = IF k < h.filesz THEN <<h.va, k>> ELSE Zero

InFile(p) == {i \in 1 .. Len(p) : p[i].filesz > 0}

\* The segments up to the n-th are in memory, each in its area.
LoadedTo(s, m, p, n) ==
    \A i \in InFile(p) : i <= n =>
        /\ AreaOf(p[i]) \in s.mm[m].areas
        /\ \A k \in 0 .. p[i].memsz - 1 : ByteOK(s, m, p[i], k, "no")

\* The areas are those of the first n segments.
AreasFrom(s, m, p, n) ==
    \A a \in s.mm[m].areas : \E i \in InFile(p) : i <= n /\ a = AreaOf(p[i])

\* left is the rest of program p.
Rest(p, left) ==
    /\ Len(left) <= Len(p)
    /\ \A j \in 1 .. Len(left) : left[j] = p[Len(p) - Len(left) + j]

Passed(c) == Len(c.prog) - Len(c.left)

\* How many of n segments are there for sure: a read that failed unnoticed was
\* that of the last one, or that of the ELF header.
Sure(n, err) == IF err = "no" THEN n ELSE IF err = "read" THEN n - 1 ELSE 0

ReadInv(s, c) ==
    /\ Rest(c.prog, c.left)
    /\ LoadedTo(s, c.m, c.prog, Sure(Passed(c), c.err))
    /\ AreasFrom(s, c.m, c.prog, Passed(c))

\* Where the part of the segment that is being loaded ends.
EndOf(c) == IF c.op = "file" THEN c.seg.va + c.seg.filesz ELSE c.seg.va + c.seg.memsz

\* The position in the segment.
PlaceInv(c) ==
    LET h == c.seg
    IN  /\ h.filesz \in 1 .. h.memsz
        /\ c.la = (c.la \div PG) * PG /\ AreaOf(h).start <= c.la \div PG
        /\ c.start \in h.va .. EndOf(c)
        /\ c.start < EndOf(c) => c.la <= c.start /\ c.start < c.la + PG
        /\ c.start >= EndOf(c) => c.start <= c.la /\ c.la < c.start + PG
        /\ c.op = "file" => c.offset = c.start - h.va
        /\ c.op = "zero" => c.start >= h.va + h.filesz /\ (c.start < EndOf(c) => c.start = c.la)

\* The segment passed last is being loaded: it is there up to start, and its area
\* has no pages from la on.
LoadInv(s, c) ==
    /\ Rest(c.prog, c.left)
    /\ Passed(c) >= 1 /\ c.seg = c.prog[Passed(c)]
    /\ LoadedTo(s, c.m, c.prog, Passed(c) - 1)
    /\ AreasFrom(s, c.m, c.prog, Passed(c))
    /\ AreaOf(c.seg) \in s.mm[c.m].areas
    /\ \A i \in InFile(c.prog) : i < Passed(c) => AreaOf(c.prog[i]) # AreaOf(c.seg)
    /\ PlaceInv(c) /\ c.err # "elf"
    /\ \A k \in 0 .. c.start - c.seg.va - 1 : ByteOK(s, c.m, c.seg, k, c.err)
    /\ \A v \in Pages : v >= c.la \div PG /\ In(AreaOf(c.seg), v) => pte(s, c.m, v) = None

StackInv(s, c) ==
    /\ StackArea \in s.mm[c.m].areas
    /\ LoadedTo(s, c.m, c.prog, Sure(Len(c.prog), c.err))
    /\ c.k \in 1 .. Preloaded + 1
    /\ \A j \in c.k .. StackPages : pte(s, c.m, NPages - j) = None

CallInv(s, o, c) ==
    c # None => /\ c.op = "dup" => ForkInv(s, o, c)
                /\ c.op # "dup" => o[c.t] = None
                /\ c.op = "segment" => ReadInv(s, c)
                /\ c.op \in {"file", "zero"} => LoadInv(s, c)
                /\ c.op = "stack" => StackInv(s, c)

Calls == Fork \cup Reading \cup Loading \cup Stacking \cup {None}

StateInv(s, o, c) == MemInv(s) /\ OwnerInv(s, o, c) /\ c \in Calls /\ CallInv(s, o, c)

VInv ==
    /\ StateInv(vm, owner, call)
    /\ halted \in {"no", "no_memory", "overlap", "kernel_fault", "non_writable_pte"}
    /\ PanicsExplained

----------------------------------------------------------------------------
(* Numbers and finite sets.                                                *)

LEMMA DivMod ==
    ASSUME NEW v \in Nat, NEW d \in Nat \ {0}
    PROVE  v \div d \in Nat /\ v % d \in 0 .. d - 1 /\ v = d * (v \div d) + (v % d)
  OBVIOUS

LEMMA DivMonotone ==
    ASSUME NEW v \in Nat, NEW w \in Nat, v <= w, NEW d \in Nat \ {0}
    PROVE  v \div d <= w \div d
  OBVIOUS

LEMMA DivOf ==
    ASSUME NEW q \in Nat, NEW d \in Nat \ {0}, NEW r \in 0 .. d - 1
    PROVE  (q * d + r) \div d = q /\ (q * d + r) % d = r
  OBVIOUS

LEMMA DivNext ==
    ASSUME NEW v \in Nat, NEW d \in Nat \ {0}
    PROVE  (v + d) \div d = (v \div d) + 1
  <1>1. v \div d \in Nat /\ v % d \in 0 .. d - 1 /\ v = d * (v \div d) + (v % d)
    BY DivMod
  <1> DEFINE q == v \div d
             r == v % d
  <1>2. v + d = (q + 1) * d + r /\ q + 1 \in Nat
    BY <1>1
  <1> HIDE DEF q, r
  <1>3. ((q + 1) * d + r) \div d = q + 1
    BY <1>1, <1>2, DivOf DEF q, r
  <1> QED
    BY <1>2, <1>3 DEF q

\* Every page has its place in a table.
LEMMA TableOfPage == \A v \in Pages : v \in Nat /\ v \div PT \in Tables
  <1> SUFFICES ASSUME NEW v \in Pages PROVE v \in Nat /\ v \div PT \in Tables
    OBVIOUS
  <1>1. v \in Nat /\ NPages - 1 \in Nat /\ v <= NPages - 1 /\ PT \in Nat \ {0}
    BY PagesAssumption DEF Pages
  <1>2. v \div PT \in Nat /\ (NPages - 1) \div PT \in Nat
    BY <1>1, DivMod
  <1>3. v \div PT <= (NPages - 1) \div PT
    BY <1>1, DivMonotone
  <1> QED
    BY <1>1, <1>2, <1>3 DEF Tables

LEMMA LeastOf ==
    ASSUME NEW T \in SUBSET Nat, T # {}
    PROVE  \E x \in T : \A y \in T : x <= y
  <1> DEFINE R == OpToRel(<, Nat)
  <1>1. IsWellFoundedOn(R, Nat)
    BY NatLessThanWellFounded
  <1>2. \A x, y \in Nat : <<x, y>> \in R <=> x < y
    BY DEF OpToRel
  <1> HIDE DEF R
  <1>3. PICK x \in T : \A y \in T : ~(<<y, x>> \in R)
    BY <1>1, WFMin
  <1>4. ASSUME NEW y \in T PROVE x <= y
    <2>1. x \in Nat /\ y \in Nat /\ ~(y < x)
      BY <1>2, <1>3
    <2> QED
      BY <2>1
  <1> QED
    BY <1>4

LEMMA MinOf ==
    ASSUME NEW T \in SUBSET Nat, T # {}
    PROVE  Min(T) \in T /\ \A y \in T : Min(T) <= y
  BY LeastOf DEF Min

LEMMA First ==
    ASSUME NEW s \in Memory, s.free # {}
    PROVE  first(s) \in s.free /\ first(s) \in Frames
  <1>1. s.free \in SUBSET Nat /\ s.free \subseteq Frames
    BY PagesAssumption DEF Memory, Frames
  <1> QED
    BY <1>1, MinOf DEF first

----------------------------------------------------------------------------
(* The uses of frames.                                                     *)

LEMMA NoneIs ==
    /\ None \notin Frames /\ None \notin PTE_t /\ None \notin MemMap_t
    /\ None \notin Fork /\ None \notin Reading /\ None \notin Loading /\ None \notin Stacking
  BY NoneAssumption

LEMMA PteType ==
    ASSUME NEW s \in Memory, NEW m \in MMs, s.mm[m] # None, NEW v \in Pages
    PROVE  /\ s.mm[m] \in MemMap_t
           /\ pte(s, m, v) \in PTE_t \cup {None}
           /\ pte(s, m, v) # None => s.mm[m].table[v \div PT] # None /\ pte(s, m, v) = s.mm[m].pte[v]
  <1>1. s.mm[m] \in MemMap_t
    BY DEF Memory
  <1> QED
    BY <1>1, TableOfPage DEF MemMap_t, pte, hasTable

LEMMA UsedDir ==
    ASSUME NEW s \in Memory, NEW m \in MMs
    PROVE  Dir(m) \in Places
           /\ Used(s)[Dir(m)] = IF s.mm[m] = None THEN None ELSE s.mm[m].pgdir
  BY DEF Places, Used, Dir

LEMMA UsedTable ==
    ASSUME NEW s \in Memory, NEW m \in MMs, NEW i \in Tables
    PROVE  TableOf(m, i) \in Places
           /\ Used(s)[TableOf(m, i)] = IF s.mm[m] = None THEN None ELSE s.mm[m].table[i]
  BY DEF Places, Used, TableOf

LEMMA UsedPage ==
    ASSUME NEW s \in Memory, NEW m \in MMs, NEW v \in Pages
    PROVE  PageOf(m, v) \in Places
           /\ Used(s)[PageOf(m, v)] = IF s.mm[m] = None THEN None
                                     ELSE IF pte(s, m, v) = None THEN None ELSE pte(s, m, v).page
  BY DEF Places, Used, PageOf

LEMMA PlacesAre ==
    ASSUME NEW x \in Places
    PROVE  \/ \E m \in MMs : x = Dir(m)
           \/ \E m \in MMs, i \in Tables : x = TableOf(m, i)
           \/ \E m \in MMs, v \in Pages : x = PageOf(m, v)
  BY DEF Places

LEMMA PlacesDiffer ==
    ASSUME NEW m, NEW n, NEW i, NEW j
    PROVE  /\ Dir(m) # TableOf(n, i) /\ Dir(m) # PageOf(n, i) /\ TableOf(m, i) # PageOf(n, j)
           /\ Dir(m) = Dir(n) => m = n
           /\ TableOf(m, i) = TableOf(n, j) => m = n /\ i = j
           /\ PageOf(m, i) = PageOf(n, j) => m = n /\ i = j
  BY DEF Dir, TableOf, PageOf

LEMMA UsedType ==
    ASSUME NEW s \in Memory
    PROVE  Used(s) \in [Places -> Frames \cup {None}]
  <1>1. ASSUME NEW x \in Places PROVE Used(s)[x] \in Frames \cup {None}
    <2>1. CASE \E m \in MMs : x = Dir(m)
      <3>1. PICK m \in MMs : x = Dir(m)
        BY <2>1
      <3>2. s.mm[m] # None => s.mm[m].pgdir \in Frames
        BY DEF Memory, MemMap_t
      <3> QED
        BY <3>1, <3>2, UsedDir
    <2>2. CASE \E m \in MMs, i \in Tables : x = TableOf(m, i)
      <3>1. PICK m \in MMs, i \in Tables : x = TableOf(m, i)
        BY <2>2
      <3>2. s.mm[m] # None => s.mm[m].table[i] \in Frames \cup {None}
        BY DEF Memory, MemMap_t
      <3> QED
        BY <3>1, <3>2, UsedTable
    <2>3. CASE \E m \in MMs, v \in Pages : x = PageOf(m, v)
      <3>1. PICK m \in MMs, v \in Pages : x = PageOf(m, v)
        BY <2>3
      <3>2. s.mm[m] # None /\ pte(s, m, v) # None => pte(s, m, v).page \in Frames
        BY PteType DEF PTE_t
      <3> QED
        BY <3>1, <3>2, UsedPage
    <2> QED
      BY <2>1, <2>2, <2>3, PlacesAre
  <1> QED
    BY <1>1 DEF Used

LEMMA UsedSame ==
    ASSUME NEW s, NEW r, r.mm = s.mm
    PROVE  Used(r) = Used(s)
  BY DEF Used, pte, hasTable

\* A place that had no frame gets one that nobody has.
LEMMA ExactTake ==
    ASSUME NEW u \in [Places -> Frames \cup {None}], NEW w \in [Places -> Frames \cup {None}],
           NEW rest \in SUBSET Frames, Exact(u, rest),
           NEW x \in Places, u[x] = None, NEW f \in rest, w[x] = f,
           \A y \in Places : y # x => w[y] = u[y]
    PROVE  Exact(w, rest \ {f})
  <1>1. \A y \in Places : u[y] # f
    BY DEF Exact
  <1>2. ASSUME NEW y \in Places, NEW z \in Places, w[y] # None, w[y] = w[z] PROVE y = z
    BY <1>1, <1>2 DEF Exact
  <1>3. ASSUME NEW e \in Frames PROVE e \in rest \ {f} <=> \A y \in Places : w[y] # e
    <2>1. CASE e = f
      BY <2>1
    <2>2. CASE e # f
      <3>1. u[x] # e
        BY NoneIs
      <3>2. (\A y \in Places : w[y] # e) <=> (\A y \in Places : u[y] # e)
        BY <2>2, <3>1
      <3> QED
        BY <2>2, <3>2 DEF Exact
    <2> QED
      BY <2>1, <2>2
  <1> QED
    BY <1>2, <1>3 DEF Exact

\* The places in X give up what they have.
LEMMA ExactGive ==
    ASSUME NEW u \in [Places -> Frames \cup {None}], NEW w \in [Places -> Frames \cup {None}],
           NEW rest \in SUBSET Frames, Exact(u, rest),
           NEW X \in SUBSET Places,
           \A y \in X : w[y] = None,
           \A y \in Places : y \notin X => w[y] = u[y],
           NEW given \in SUBSET Frames,
           \A e \in Frames : e \in given <=> \E y \in X : u[y] = e
    PROVE  Exact(w, rest \cup given)
  <1>2. ASSUME NEW y \in Places, NEW z \in Places, w[y] # None, w[y] = w[z] PROVE y = z
    <2>1. y \notin X /\ z \notin X
      BY <1>2
    <2> QED
      BY <1>2, <2>1 DEF Exact
  <1>3. ASSUME NEW e \in Frames PROVE e \in rest \cup given <=> \A y \in Places : w[y] # e
    <2>1. e # None
      BY NoneIs
    <2>2. ASSUME e \in rest, NEW y \in Places PROVE w[y] # e
      BY <2>1, <2>2 DEF Exact
    <2>3. ASSUME e \in given, NEW y \in Places PROVE w[y] # e
      <3>1. PICK z \in X : u[z] = e
        BY <2>3
      <3>2. y = z \/ u[y] # e
        BY <2>1, <3>1 DEF Exact
      <3> QED
        BY <2>1, <3>1, <3>2
    <2>4. ASSUME \A y \in Places : w[y] # e, e \notin given PROVE e \in rest
      <3>1. \A y \in Places : u[y] # e
        BY <2>4
      <3> QED
        BY <3>1 DEF Exact
    <2> QED
      BY <2>2, <2>3, <2>4
  <1> QED
    BY <1>2, <1>3 DEF Exact

----------------------------------------------------------------------------
(* Page tables and pages.                                                  *)

\* What get_pte() with create leaves as it was, and what it adds.
Gets(s, g, m, v) ==
    /\ g \in Memory /\ g.mm[m] # None
    /\ \A n \in MMs : n # m => g.mm[n] = s.mm[n]
    /\ g.mm[m].areas = s.mm[m].areas /\ g.mm[m].ref = s.mm[m].ref
    /\ g.data = s.data
    /\ \A u \in Pages : pte(g, m, u) = pte(s, m, u)
    /\ hasTable(g, m, v)
    /\ \A i \in Tables : i # v \div PT => g.mm[m].table[i] = s.mm[m].table[i]
    /\ g.free = IF hasTable(s, m, v) THEN s.free ELSE s.free \ {first(s)}
    /\ \A f \in Frames : f \notin s.free => g.ref[f] = s.ref[f]
    /\ RefsOK(g)

LEMMA GetPte ==
    ASSUME NEW s \in Memory, NEW m \in MMs, s.mm[m] # None, NEW v \in Pages,
           canGet(s, m, v), RefsOK(s),
           NEW rest \in SUBSET Frames, s.free \subseteq rest, Exact(Used(s), rest),
           NEW g, g = get_pte(s, m, v)
    PROVE  /\ Gets(s, g, m, v)
           /\ Exact(Used(g), rest \ (s.free \ g.free))
  <1>1. CASE hasTable(s, m, v)
    <2>1. g = s
      BY <1>1 DEF get_pte
    <2>2. rest \ (s.free \ g.free) = rest
      BY <2>1
    <2> QED
      BY <1>1, <2>1, <2>2 DEF Gets
  <1>2. CASE ~hasTable(s, m, v)
    <2> DEFINE f == first(s)
               i == v \div PT
               x == s.mm[m]
               y == withTable(x, i, f)
    <2>1. f \in s.free /\ f \in Frames
      BY <1>2, First DEF canGet
    <2>2. x \in MemMap_t /\ i \in Tables /\ x.table[i] = None
      BY <1>2, PteType, TableOfPage DEF hasTable
    <2> HIDE DEF f, i, x
    <2>3. /\ y \in MemMap_t
          /\ y.table = [x.table EXCEPT ![i] = f]
          /\ y.pte = [u \in Pages |-> IF u \div PT = i THEN None ELSE x.pte[u]]
          /\ y.areas = x.areas /\ y.ref = x.ref /\ y.pgdir = x.pgdir
      BY <2>1, <2>2 DEF MemMap_t, withTable
    <2>4. /\ g.free = s.free \ {f} /\ g.ref = [s.ref EXCEPT ![f] = 1] /\ g.data = s.data
          /\ g = [free |-> g.free, ref |-> g.ref, data |-> g.data, mm |-> g.mm]
      BY <1>2, <2>2 DEF get_pte, allocPhyPages, Memory, f, i, x
    <2>5. g.mm = [s.mm EXCEPT ![m] = y]
      BY <1>2 DEF get_pte, allocPhyPages, Memory, f, i, x
    <2> HIDE DEF y
    <2>6. /\ g.mm[m] = y /\ \A n \in MMs : n # m => g.mm[n] = s.mm[n]
          /\ y # None
      BY <2>3, <2>5, NoneIs DEF Memory
    <2>20. g \in Memory
      <3>1. g.free \in SUBSET Frames /\ g.ref \in [Frames -> Nat]
            /\ g.data \in [Frames -> [0 .. PG - 1 -> Byte]]
        BY <2>1, <2>4 DEF Memory
      <3>2. g.mm \in [MMs -> MemMap_t \cup {None}]
        BY <2>3, <2>5 DEF Memory
      <3> QED
        BY <2>4, <3>1, <3>2 DEF Memory
    <2>21. s.mm[m] = x /\ x # None
      BY DEF x
    <2>7. ASSUME NEW u \in Pages PROVE pte(g, m, u) = pte(s, m, u)
      <3>1. CASE u \div PT = i
        <4>1. pte(s, m, u) = None
          BY <2>2, <3>1 DEF pte, hasTable, x
        <4>2. y.table[i] = f /\ y.pte[u] = None
          BY <2>2, <2>3, <3>1 DEF MemMap_t
        <4> QED
          BY <2>6, <3>1, <4>1, <4>2 DEF pte, hasTable
      <3>2. CASE u \div PT # i
        <4>1. y.table[u \div PT] = x.table[u \div PT] /\ y.pte[u] = x.pte[u]
          BY <2>2, <2>3, <3>2, TableOfPage DEF MemMap_t
        <4> QED
          BY <2>6, <4>1 DEF pte, hasTable, x
      <3> QED
        BY <3>1, <3>2
    <2>8. ASSUME NEW n \in MMs, n # m, NEW u \in Pages PROVE pte(g, n, u) = pte(s, n, u)
      BY <2>6, <2>8 DEF pte, hasTable
    <2>9. \A j \in Tables : g.mm[m].table[j] = IF j = i THEN f ELSE x.table[j]
      BY <2>2, <2>3, <2>6 DEF MemMap_t
    <2>10. /\ Used(g)[TableOf(m, i)] = f /\ Used(s)[TableOf(m, i)] = None
           /\ \A z \in Places : z # TableOf(m, i) => Used(g)[z] = Used(s)[z]
      <3>1. Used(g)[TableOf(m, i)] = f /\ Used(s)[TableOf(m, i)] = None
        BY <2>2, <2>20, <2>6, <2>9, <2>21, UsedTable
      <3>2. ASSUME NEW n \in MMs PROVE Used(g)[Dir(n)] = Used(s)[Dir(n)]
        BY <2>3, <2>20, <2>6, <2>21, UsedDir
      <3>3. ASSUME NEW n \in MMs, NEW j \in Tables, TableOf(n, j) # TableOf(m, i)
            PROVE  Used(g)[TableOf(n, j)] = Used(s)[TableOf(n, j)]
        <4>1. n # m \/ j # i
          BY <3>3
        <4> QED
          BY <2>20, <2>6, <2>9, <2>21, <4>1, UsedTable
      <3>4. ASSUME NEW n \in MMs, NEW u \in Pages
            PROVE  Used(g)[PageOf(n, u)] = Used(s)[PageOf(n, u)]
        BY <2>20, <2>6, <2>7, <2>8, UsedPage
      <3> QED
        BY <3>1, <3>2, <3>3, <3>4, PlacesAre
    <2>11. Exact(Used(g), rest \ {f})
      <3>1. TableOf(m, i) \in Places
        BY <2>2, UsedTable
      <3> QED
        BY <2>1, <2>20, <2>10, <3>1, ExactTake, UsedType
    <2>12. s.free \ g.free = {f}
      BY <2>1, <2>4
    <2>13. RefsOK(g)
      <3>1. ASSUME NEW e \in g.free PROVE g.ref[e] = 0
        <4>1. e \in s.free /\ e # f /\ e \in Frames
          BY <2>4 DEF Memory
        <4> QED
          BY <2>4, <4>1 DEF RefsOK, Memory
      <3>2. ASSUME NEW n \in MMs, NEW u \in Pages, g.mm[n] # None, pte(g, n, u) # None
            PROVE  g.ref[pte(g, n, u).page] = 1
        <4>1. pte(g, n, u) = pte(s, n, u) /\ s.mm[n] # None
          BY <2>6, <2>7, <2>8, <3>2
        <4>2. s.ref[pte(s, n, u).page] = 1 /\ pte(s, n, u).page \in Frames
          BY <3>2, <4>1, PteType DEF RefsOK, PTE_t
        <4> QED
          BY <2>1, <2>4, <4>1, <4>2 DEF Memory
      <3> QED
        BY <3>1, <3>2 DEF RefsOK
    <2>14. \A e \in Frames : e \notin s.free => g.ref[e] = s.ref[e]
      BY <2>1, <2>4 DEF Memory
    <2>15. hasTable(g, m, v)
      BY <2>1, <2>2, <2>9, NoneIs DEF hasTable, i
    <2>16. \A j \in Tables : j # v \div PT => g.mm[m].table[j] = s.mm[m].table[j]
      BY <2>9 DEF i, x
    <2>17. g.free = IF hasTable(s, m, v) THEN s.free ELSE s.free \ {first(s)}
      BY <1>2, <2>4 DEF f
    <2>18. g.mm[m].areas = s.mm[m].areas /\ g.mm[m].ref = s.mm[m].ref
      BY <2>3, <2>6 DEF x
    <2>19. Gets(s, g, m, v)
      BY <2>4, <2>20, <2>6, <2>7, <2>13, <2>14, <2>15, <2>16, <2>17, <2>18 DEF Gets
    <2> QED
      BY <2>11, <2>12, <2>19
  <1> QED
    BY <1>1, <1>2

\* What pgdir_alloc_page() leaves as it was, and what it adds.
PageAdded(s, r, m, v, w, f) ==
    /\ r \in Memory /\ r.mm[m] # None
    /\ \A n \in MMs : n # m => r.mm[n] = s.mm[n]
    /\ r.mm[m].areas = s.mm[m].areas /\ r.mm[m].ref = s.mm[m].ref
    /\ r.data = s.data
    /\ pte(r, m, v) = [page |-> f, w |-> w]
    /\ \A u \in Pages : u # v => pte(r, m, u) = pte(s, m, u)
    /\ \A i \in Tables : i # v \div PT => r.mm[m].table[i] = s.mm[m].table[i]
    /\ f \in s.free /\ f \in Frames /\ f \notin r.free /\ r.free \subseteq s.free
    /\ Exact(Used(r), r.free)
    /\ RefsOK(r)

LEMMA AllocPage ==
    ASSUME NEW s \in Memory, NEW m \in MMs, s.mm[m] # None, NEW v \in Pages,
           pte(s, m, v) = None, canAlloc(s, m, v), RefsOK(s), Exact(Used(s), s.free),
           NEW w \in BOOLEAN,
           NEW r, r = pgdir_alloc_page(s, m, v, w)
    PROVE  PageAdded(s, r, m, v, w, first(s))
  <1> DEFINE f == first(s)
             b == allocPhyPages(s)
             g == get_pte(b, m, v)
  <1>1. f \in s.free /\ f \in Frames
    BY First DEF canAlloc
  <1>2. /\ b \in Memory /\ b.free = s.free \ {f} /\ b.ref = s.ref /\ b.mm = s.mm
        /\ b.data = s.data
    BY DEF allocPhyPages, Memory
  <1>3. \A n \in MMs, u \in Pages : pte(b, n, u) = pte(s, n, u)
    BY <1>2 DEF pte, hasTable
  <1>4. Used(b) = Used(s)
    BY <1>2 DEF Used, pte, hasTable
  <1>5. RefsOK(b)
    BY <1>2, <1>3 DEF RefsOK
  <1>6. canGet(b, m, v)
    BY DEF canAlloc
  <1>7. b.free \subseteq s.free /\ s.free \in SUBSET Frames
    BY <1>2 DEF Memory
  <1> HIDE DEF b, f
  <1>8. Gets(b, g, m, v) /\ Exact(Used(g), s.free \ (b.free \ g.free))
    BY <1>2, <1>4, <1>5, <1>6, <1>7, GetPte
  <1> HIDE DEF g
  <1>9. s.free \ (b.free \ g.free) = g.free \cup {f} /\ f \notin g.free /\ g.free \subseteq s.free
    BY <1>1, <1>2, <1>8 DEF Gets
  <1>10. g \in Memory /\ g.mm[m] # None /\ g.mm[m] \in MemMap_t /\ pte(g, m, v) = None
    BY <1>3, <1>8, PteType DEF Gets
  <1>11. g.ref[f] = 0
    BY <1>1, <1>2, <1>8 DEF Gets, RefsOK
  <1> DEFINE h == [g EXCEPT !.ref[f] = @ + 1]
  <1>12. h.mm = g.mm /\ pte(h, m, v) = None
    <2>1. h.mm = g.mm
      BY <1>10 DEF Memory
    <2> QED
      BY <1>10, <2>1 DEF pte, hasTable
  <1>13. r = [h EXCEPT !.mm[m].pte[v] = [page |-> f, w |-> w]]
    <2>1. r = page_insert(b, m, v, f, w)
      BY DEF pgdir_alloc_page, f, b
    <2> QED
      BY <1>12, <2>1 DEF page_insert, g
  <1> DEFINE y == [g.mm[m] EXCEPT !.pte[v] = [page |-> f, w |-> w]]
  <1>14. /\ y \in MemMap_t /\ y.table = g.mm[m].table /\ y.areas = g.mm[m].areas
         /\ y.ref = g.mm[m].ref /\ y.pgdir = g.mm[m].pgdir
         /\ y.pte[v] = [page |-> f, w |-> w]
         /\ \A u \in Pages : u # v => y.pte[u] = g.mm[m].pte[u]
    BY <1>1, <1>10 DEF MemMap_t, PTE_t
  <1>15. /\ r.free = g.free /\ r.ref = [g.ref EXCEPT ![f] = @ + 1] /\ r.data = g.data
         /\ r.mm = [g.mm EXCEPT ![m] = y]
         /\ r = [free |-> r.free, ref |-> r.ref, data |-> r.data, mm |-> r.mm]
    BY <1>10, <1>13 DEF Memory
  <1> HIDE DEF h, y
  <1>16. r.ref \in [Frames -> Nat] /\ r.ref[f] = 1 /\ \A e \in Frames : e # f => r.ref[e] = g.ref[e]
    BY <1>1, <1>10, <1>11, <1>15 DEF Memory
  <1>17. r \in Memory
    <2>1. r.mm \in [MMs -> MemMap_t \cup {None}]
      BY <1>10, <1>14, <1>15 DEF Memory
    <2>2. r.free \in SUBSET Frames /\ r.data \in [Frames -> [0 .. PG - 1 -> Byte]]
      BY <1>10, <1>15 DEF Memory
    <2> QED
      BY <1>15, <1>16, <2>1, <2>2 DEF Memory
  <1>18. /\ r.mm[m] = y /\ y # None /\ \A n \in MMs : n # m => r.mm[n] = g.mm[n]
    BY <1>10, <1>14, <1>15, NoneIs DEF Memory
  <1>19. pte(r, m, v) = [page |-> f, w |-> w]
    BY <1>8, <1>14, <1>18 DEF pte, hasTable, Gets
  <1>20. \A u \in Pages : u # v => pte(r, m, u) = pte(g, m, u)
    BY <1>14, <1>18 DEF pte, hasTable
  <1>21. \A n \in MMs, u \in Pages : n # m => pte(r, n, u) = pte(g, n, u)
    BY <1>18 DEF pte, hasTable
  <1>22. [page |-> f, w |-> w] \in PTE_t
    BY <1>1 DEF PTE_t
  <1>23. /\ Used(r)[PageOf(m, v)] = f /\ Used(g)[PageOf(m, v)] = None
         /\ \A z \in Places : z # PageOf(m, v) => Used(r)[z] = Used(g)[z]
    <2>1. Used(r)[PageOf(m, v)] = f
      BY <1>17, <1>18, <1>19, <1>22, UsedPage, NoneIs
    <2>2. Used(g)[PageOf(m, v)] = None
      BY <1>10, UsedPage
    <2>3. ASSUME NEW n \in MMs PROVE Used(r)[Dir(n)] = Used(g)[Dir(n)]
      BY <1>10, <1>14, <1>17, <1>18, UsedDir
    <2>4. ASSUME NEW n \in MMs, NEW i \in Tables PROVE Used(r)[TableOf(n, i)] = Used(g)[TableOf(n, i)]
      BY <1>10, <1>14, <1>17, <1>18, UsedTable
    <2>5. ASSUME NEW n \in MMs, NEW u \in Pages, PageOf(n, u) # PageOf(m, v)
          PROVE  Used(r)[PageOf(n, u)] = Used(g)[PageOf(n, u)]
      <3>1. n # m \/ u # v
        BY <2>5
      <3>2. pte(r, n, u) = pte(g, n, u) /\ (r.mm[n] = None <=> g.mm[n] = None)
        BY <1>10, <1>18, <1>20, <1>21, <3>1
      <3> QED
        BY <1>10, <1>17, <3>2, UsedPage
    <2> QED
      BY <2>1, <2>2, <2>3, <2>4, <2>5, PlacesAre
  <1>24. Exact(Used(r), (g.free \cup {f}) \ {f})
    <2>1. PageOf(m, v) \in Places
      BY <1>10, UsedPage
    <2>2. g.free \cup {f} \in SUBSET Frames /\ f \in g.free \cup {f}
      BY <1>1, <1>10 DEF Memory
    <2> QED
      BY <1>8, <1>9, <1>10, <1>17, <1>23, <2>1, <2>2, ExactTake, UsedType
  <1>25. (g.free \cup {f}) \ {f} = r.free
    BY <1>9, <1>15
  <1>26. RefsOK(r)
    <2>1. ASSUME NEW e \in r.free PROVE r.ref[e] = 0
      <3>1. e \in g.free /\ e # f /\ e \in Frames /\ g.ref[e] = 0
        BY <1>8, <1>9, <1>10, <1>15 DEF Memory, Gets, RefsOK
      <3> QED
        BY <1>16, <3>1
    <2>2. ASSUME NEW n \in MMs, NEW u \in Pages, r.mm[n] # None, pte(r, n, u) # None
          PROVE  r.ref[pte(r, n, u).page] = 1
      <3>1. CASE n = m /\ u = v
        BY <1>16, <1>19, <3>1
      <3>2. CASE ~(n = m /\ u = v)
        <4>1. pte(r, n, u) = pte(g, n, u) /\ g.mm[n] # None
          BY <1>10, <1>18, <1>20, <1>21, <2>2, <3>2
        <4>2. g.ref[pte(g, n, u).page] = 1 /\ pte(g, n, u).page \in Frames
          BY <1>8, <1>10, <2>2, <4>1, PteType DEF Gets, RefsOK, PTE_t
        <4>3. pte(g, n, u).page # f
          BY <1>11, <4>2
        <4> QED
          BY <1>16, <4>1, <4>2, <4>3
      <3> QED
        BY <3>1, <3>2
    <2> QED
      BY <2>1, <2>2 DEF RefsOK
  <1>27. /\ r.mm[m].areas = s.mm[m].areas /\ r.mm[m].ref = s.mm[m].ref /\ r.data = s.data
         /\ \A i \in Tables : i # v \div PT => r.mm[m].table[i] = s.mm[m].table[i]
    BY <1>2, <1>8, <1>14, <1>15, <1>18 DEF Gets
  <1>28. /\ \A n \in MMs : n # m => r.mm[n] = s.mm[n]
         /\ \A u \in Pages : u # v => pte(r, m, u) = pte(s, m, u)
    BY <1>2, <1>3, <1>8, <1>18, <1>20 DEF Gets
  <1>29. r.free \subseteq s.free /\ f \notin r.free
    BY <1>9, <1>15
  <1> QED
    BY <1>1, <1>17, <1>18, <1>19, <1>24, <1>25, <1>26, <1>27, <1>28, <1>29 DEF PageAdded, f

----------------------------------------------------------------------------
(* Address spaces as a whole.                                              *)

\* Changes that concern no frame: contents, areas, and who shares the space.
LEMMA SameFrames ==
    ASSUME NEW s \in Memory, NEW r \in Memory, r.free = s.free, r.ref = s.ref,
           \A n \in MMs : /\ r.mm[n] = None <=> s.mm[n] = None
                          /\ s.mm[n] # None => /\ r.mm[n].pgdir = s.mm[n].pgdir
                                               /\ r.mm[n].table = s.mm[n].table
                                               /\ r.mm[n].pte = s.mm[n].pte,
           Exact(Used(s), s.free), RefsOK(s)
    PROVE  /\ \A n \in MMs, v \in Pages : s.mm[n] # None => pte(r, n, v) = pte(s, n, v)
           /\ Exact(Used(r), r.free) /\ RefsOK(r)
  <1>1. ASSUME NEW n \in MMs, NEW v \in Pages, s.mm[n] # None PROVE pte(r, n, v) = pte(s, n, v)
    BY <1>1 DEF pte, hasTable
  <1>2. Used(r) = Used(s)
    <2>1. ASSUME NEW x \in Places PROVE Used(r)[x] = Used(s)[x]
      <3>1. ASSUME NEW n \in MMs PROVE Used(r)[Dir(n)] = Used(s)[Dir(n)]
        BY UsedDir
      <3>2. ASSUME NEW n \in MMs, NEW i \in Tables PROVE Used(r)[TableOf(n, i)] = Used(s)[TableOf(n, i)]
        BY UsedTable
      <3>3. ASSUME NEW n \in MMs, NEW u \in Pages PROVE Used(r)[PageOf(n, u)] = Used(s)[PageOf(n, u)]
        BY <1>1, UsedPage
      <3> QED
        BY <3>1, <3>2, <3>3, PlacesAre
    <2>2. Used(r) = [x \in Places |-> Used(r)[x]] /\ Used(s) = [x \in Places |-> Used(s)[x]]
      BY DEF Used
    <2> QED
      BY <2>1, <2>2
  <1>3. RefsOK(r)
    BY <1>1 DEF RefsOK
  <1> QED
    BY <1>1, <1>2, <1>3

\* New contents for some frames.
Refilled(s, r, D) ==
    /\ MemInv(r) /\ r.mm = s.mm /\ r.free = s.free /\ r.data = D
    /\ \A n \in MMs, v \in Pages : pte(r, n, v) = pte(s, n, v)

LEMMA NewData ==
    ASSUME NEW s, MemInv(s), NEW D \in [Frames -> [0 .. PG - 1 -> Byte]],
           NEW r, r = [s EXCEPT !.data = D]
    PROVE  Refilled(s, r, D)
  <1>1. s \in Memory
    BY DEF MemInv
  <1>2. r.mm = s.mm /\ r.free = s.free /\ r.data = D /\ r.ref = s.ref /\ r \in Memory
    BY <1>1 DEF Memory
  <1>3. Exact(Used(r), r.free) /\ RefsOK(r)
    BY <1>1, <1>2, SameFrames DEF MemInv
  <1>4. \A n \in MMs, v \in Pages : pte(r, n, v) = pte(s, n, v)
    BY <1>2 DEF pte, hasTable
  <1> QED
    BY <1>2, <1>3, <1>4 DEF MemInv, Refilled

\* In r the areas of m are as, and k tasks have it.
Respaced(s, r, m, as, k) ==
    /\ MemInv(r) /\ r.mm[m] # None /\ r.mm[m].areas = as /\ r.mm[m].ref = k
    /\ r.free = s.free /\ r.data = s.data /\ \A n \in MMs : n # m => r.mm[n] = s.mm[n]
    /\ \A n \in MMs, v \in Pages : s.mm[n] # None => pte(r, n, v) = pte(s, n, v)

\* A new area that overlaps no other, or another number of tasks.
LEMMA NewAreas ==
    ASSUME NEW s, MemInv(s), NEW m \in MMs, s.mm[m] # None,
           NEW as \in SUBSET VirtMemArea_t, s.mm[m].areas \subseteq as, AreasOK(as),
           NEW k \in Nat,
           NEW r, r = [s EXCEPT !.mm[m] = [s.mm[m] EXCEPT !.areas = as, !.ref = k]]
    PROVE  Respaced(s, r, m, as, k)
  <1> DEFINE y == [s.mm[m] EXCEPT !.areas = as, !.ref = k]
  <1>1. s \in Memory /\ s.mm[m] \in MemMap_t
    BY DEF MemInv, Memory
  <1>8. /\ y \in MemMap_t /\ y.areas = as /\ y.ref = k /\ y.pgdir = s.mm[m].pgdir
        /\ y.table = s.mm[m].table /\ y.pte = s.mm[m].pte
    BY <1>1 DEF MemMap_t
  <1> HIDE DEF y
  <1>9. s \in Memory
    BY <1>1
  <1>10. /\ r.mm = [s.mm EXCEPT ![m] = y] /\ r.free = s.free /\ r.data = s.data /\ r.ref = s.ref
         /\ r \in Memory
    BY <1>8, <1>9 DEF Memory, y
  <1>11. r.mm[m] = y /\ \A n \in MMs : n # m => r.mm[n] = s.mm[n]
    BY <1>9, <1>10 DEF Memory
  <1>12. r \in Memory /\ r.free = s.free /\ r.data = s.data /\ r.ref = s.ref
    BY <1>10
  <1>2. /\ r.mm[m] \in MemMap_t /\ r.mm[m].areas = as /\ r.mm[m].ref = k
        /\ r.mm[m].pgdir = s.mm[m].pgdir
        /\ r.mm[m].table = s.mm[m].table /\ r.mm[m].pte = s.mm[m].pte
    BY <1>8, <1>11
  <1>3. r.mm[m] # None
    BY <1>2, NoneIs
  <1>4. \A n \in MMs : /\ r.mm[n] = None <=> s.mm[n] = None
                       /\ s.mm[n] # None => /\ r.mm[n].pgdir = s.mm[n].pgdir
                                            /\ r.mm[n].table = s.mm[n].table
                                            /\ r.mm[n].pte = s.mm[n].pte
    BY <1>2, <1>3, <1>11
  <1>5. /\ \A n \in MMs, v \in Pages : s.mm[n] # None => pte(r, n, v) = pte(s, n, v)
        /\ Exact(Used(r), r.free) /\ RefsOK(r)
    BY <1>4, <1>9, <1>12, SameFrames DEF MemInv
  <1>6. MMInv(r.mm[m])
    <2>1. TablesOK(s.mm[m])
      BY DEF MemInv, MMInv
    <2>2. TablesOK(r.mm[m])
      BY <1>2, <2>1 DEF TablesOK
    <2> QED
      BY <1>2, <2>2 DEF MMInv
  <1>7. \A n \in MMs : r.mm[n] # None => MMInv(r.mm[n])
    BY <1>6, <1>11 DEF MemInv
  <1> QED
    BY <1>2, <1>3, <1>5, <1>7, <1>11, <1>12 DEF MemInv, Respaced

LEMMA InsertVma ==
    ASSUME NEW s, MemInv(s), NEW m \in MMs, s.mm[m] # None,
           NEW a \in VirtMemArea_t, a.start < a.end, insertable(s, m, a),
           NEW r, r = insert_vma(s, m, a)
    PROVE  Respaced(s, r, m, s.mm[m].areas \cup {a}, s.mm[m].ref)
  <1> DEFINE as == s.mm[m].areas \cup {a}
             k == s.mm[m].ref
  <1>1. /\ s \in Memory /\ s.mm[m] \in MemMap_t /\ AreasOK(s.mm[m].areas)
        /\ as \in SUBSET VirtMemArea_t /\ k \in Nat
    BY DEF MemInv, Memory, MMInv, MemMap_t
  <1>2. r = [s EXCEPT !.mm[m] = [s.mm[m] EXCEPT !.areas = as, !.ref = k]]
    <2>1. s.mm[m] \in MemMap_t
      BY <1>1
    <2>2. [s.mm[m] EXCEPT !.areas = as] = [s.mm[m] EXCEPT !.areas = as, !.ref = k]
      BY <2>1 DEF MemMap_t
    <2>3. r = [s EXCEPT !.mm[m] = [s.mm[m] EXCEPT !.areas = as]]
      BY DEF insert_vma
    <2> QED
      BY <2>2, <2>3
  <1>3. AreasOK(as)
    <2>1. ASSUME NEW b \in s.mm[m].areas, b # a PROVE a.end <= b.start \/ b.end <= a.start
      <3>1. a.start \in Int /\ a.end \in Int /\ b.start \in Int /\ b.end \in Int
        BY <1>1, PagesAssumption DEF VirtMemArea_t, Pages
      <3>2. a.start \notin b.start .. b.end - 1
        BY DEF insertable, find_vma
      <3>3. b.start > a.start => a.end <= b.start
        BY DEF insertable
      <3> QED
        BY <3>1, <3>2, <3>3
    <2>2. \A b \in as : b.start < b.end
      BY <1>1 DEF AreasOK
    <2>3. ASSUME NEW b \in as, NEW c \in as, b # c PROVE b.end <= c.start \/ c.end <= b.start
      <3>1. CASE b \in s.mm[m].areas /\ c \in s.mm[m].areas
        BY <1>1, <2>3, <3>1 DEF AreasOK
      <3>2. CASE b = a \/ c = a
        BY <2>1, <2>3, <3>2
      <3> QED
        BY <3>1, <3>2
    <2> QED
      BY <2>2, <2>3 DEF AreasOK
  <1>4. s.mm[m].areas \subseteq as
    OBVIOUS
  <1> HIDE DEF as, k
  <1>5. Respaced(s, r, m, as, k)
    BY <1>1, <1>2, <1>3, <1>4, NewAreas
  <1> QED
    BY <1>5 DEF as, k

\* One task more or less.
LEMMA NewRef ==
    ASSUME NEW s, MemInv(s), NEW m \in MMs, s.mm[m] # None, NEW k \in Nat,
           NEW r, r = [s EXCEPT !.mm[m].ref = k]
    PROVE  Respaced(s, r, m, s.mm[m].areas, k)
  <1> DEFINE as == s.mm[m].areas
  <1>1. /\ s \in Memory /\ s.mm[m] \in MemMap_t /\ AreasOK(as)
        /\ as \in SUBSET VirtMemArea_t
    BY DEF MemInv, Memory, MMInv, MemMap_t
  <1>2. r = [s EXCEPT !.mm[m] = [s.mm[m] EXCEPT !.areas = as, !.ref = k]]
    <2>1. s.mm[m] \in MemMap_t
      BY <1>1
    <2>2. [s.mm[m] EXCEPT !.ref = k] = [s.mm[m] EXCEPT !.areas = as, !.ref = k]
      BY <2>1 DEF MemMap_t
    <2>3. r = [s EXCEPT !.mm[m] = [s.mm[m] EXCEPT !.ref = k]]
      OBVIOUS
    <2> QED
      BY <2>2, <2>3
  <1> HIDE DEF as
  <1>3. Respaced(s, r, m, as, k)
    BY <1>1, <1>2, NewAreas DEF as
  <1> QED
    BY <1>3 DEF as

\* A page table for a page in an area.
LEMMA GetMem ==
    ASSUME NEW s, MemInv(s), NEW m \in MMs, s.mm[m] # None, NEW v \in Pages,
           canGet(s, m, v), \E a \in s.mm[m].areas : In(a, v),
           NEW g, g = get_pte(s, m, v)
    PROVE  MemInv(g) /\ Gets(s, g, m, v)
  <1>1. s \in Memory /\ s.free \in SUBSET Frames /\ s.mm[m] \in MemMap_t
    BY DEF MemInv, Memory
  <1>2. Gets(s, g, m, v) /\ Exact(Used(g), s.free \ (s.free \ g.free))
    BY <1>1, GetPte DEF MemInv
  <1>3. s.free \ (s.free \ g.free) = g.free
    BY <1>2 DEF Gets
  <1>4. MMInv(g.mm[m])
    <2>1. AreasOK(g.mm[m].areas)
      BY <1>2 DEF MemInv, MMInv, Gets
    <2>2. ASSUME NEW u \in Pages, g.mm[m].table[u \div PT] # None, g.mm[m].pte[u] # None
          PROVE  \E a \in g.mm[m].areas : In(a, u) /\ (g.mm[m].pte[u].w <=> "W" \in a.flags)
      <3>1. pte(g, m, u) = g.mm[m].pte[u]
        BY <2>2 DEF pte, hasTable
      <3>2. pte(s, m, u) = g.mm[m].pte[u] /\ pte(s, m, u) # None
        BY <1>2, <2>2, <3>1 DEF Gets
      <3>3. s.mm[m].table[u \div PT] # None /\ s.mm[m].pte[u] = g.mm[m].pte[u]
        BY <1>1, <3>2, PteType
      <3> QED
        BY <1>2, <2>2, <3>3 DEF MemInv, MMInv, TablesOK, Gets
    <2>3. ASSUME NEW i \in Tables, g.mm[m].table[i] # None
          PROVE  \E a \in g.mm[m].areas : \E u \in Pages : In(a, u) /\ u \div PT = i
      <3>1. CASE i = v \div PT
        BY <1>2, <3>1 DEF Gets
      <3>2. CASE i # v \div PT
        BY <1>2, <2>3, <3>2 DEF MemInv, MMInv, TablesOK, Gets
      <3> QED
        BY <3>1, <3>2
    <2> QED
      BY <2>1, <2>2, <2>3 DEF MMInv, TablesOK
  <1>5. \A n \in MMs : g.mm[n] # None => MMInv(g.mm[n])
    BY <1>2, <1>4 DEF MemInv, Gets
  <1> QED
    BY <1>2, <1>3, <1>5 DEF MemInv, Gets

\* A page where there was none, with the rights of its area.
LEMMA AllocMem ==
    ASSUME NEW s, MemInv(s), NEW m \in MMs, s.mm[m] # None, NEW v \in Pages,
           pte(s, m, v) = None, canAlloc(s, m, v), NEW w \in BOOLEAN,
           \E a \in s.mm[m].areas : In(a, v) /\ (w <=> "W" \in a.flags),
           NEW r, r = pgdir_alloc_page(s, m, v, w)
    PROVE  MemInv(r) /\ PageAdded(s, r, m, v, w, first(s))
  <1>1. s \in Memory /\ s.mm[m] \in MemMap_t
    BY DEF MemInv, Memory
  <1>2. PageAdded(s, r, m, v, w, first(s))
    BY <1>1, AllocPage DEF MemInv
  <1>4. MMInv(r.mm[m])
    <2>1. AreasOK(r.mm[m].areas)
      BY <1>2 DEF MemInv, MMInv, PageAdded
    <2>2. ASSUME NEW u \in Pages, r.mm[m].table[u \div PT] # None, r.mm[m].pte[u] # None
          PROVE  \E a \in r.mm[m].areas : In(a, u) /\ (r.mm[m].pte[u].w <=> "W" \in a.flags)
      <3>1. pte(r, m, u) = r.mm[m].pte[u]
        BY <2>2 DEF pte, hasTable
      <3>2. CASE u = v
        <4>1. r.mm[m].pte[u].w = w
          BY <1>2, <3>1, <3>2 DEF PageAdded
        <4> QED
          BY <1>2, <3>2, <4>1 DEF PageAdded
      <3>3. CASE u # v
        <4>1. pte(s, m, u) = r.mm[m].pte[u] /\ pte(s, m, u) # None
          BY <1>2, <2>2, <3>1, <3>3 DEF PageAdded
        <4>2. s.mm[m].table[u \div PT] # None /\ s.mm[m].pte[u] = r.mm[m].pte[u]
          BY <1>1, <4>1, PteType
        <4> QED
          BY <1>2, <2>2, <4>2 DEF MemInv, MMInv, TablesOK, PageAdded
      <3> QED
        BY <3>2, <3>3
    <2>3. ASSUME NEW i \in Tables, r.mm[m].table[i] # None
          PROVE  \E a \in r.mm[m].areas : \E u \in Pages : In(a, u) /\ u \div PT = i
      <3>1. CASE i = v \div PT
        BY <1>2, <3>1 DEF PageAdded
      <3>2. CASE i # v \div PT
        BY <1>2, <2>3, <3>2 DEF MemInv, MMInv, TablesOK, PageAdded
      <3> QED
        BY <3>1, <3>2
    <2> QED
      BY <2>1, <2>2, <2>3 DEF MMInv, TablesOK
  <1>5. \A n \in MMs : r.mm[n] # None => MMInv(r.mm[n])
    BY <1>2, <1>4 DEF MemInv, PageAdded
  <1> QED
    BY <1>2, <1>5 DEF MemInv, PageAdded

----------------------------------------------------------------------------
(* Giving up an address space.                                             *)

\* In d the places in X, to which the frames fs belonged, are cleared.
Cleared(s, d, X, fs) ==
    /\ d \in Memory /\ d.free = s.free /\ d.data = s.data
    /\ X \in SUBSET Places
    /\ \A x \in X : Used(d)[x] = None
    /\ \A x \in Places : x \notin X => Used(d)[x] = Used(s)[x]
    /\ fs \in SUBSET Frames /\ \A f \in Frames : f \in fs <=> \E x \in X : Used(s)[x] = f
    /\ \A f \in Frames : f \notin fs => d.ref[f] = s.ref[f]

\* freePhyPages() for the frames of cleared places.
LEMMA FreePages ==
    ASSUME NEW s \in Memory, Exact(Used(s), s.free), RefsOK(s),
           NEW d, NEW X, NEW fs, Cleared(s, d, X, fs),
           NEW r, r = freePhyPages(d, fs)
    PROVE  /\ r \in Memory /\ r.mm = d.mm /\ r.free = s.free \cup fs
           /\ \A f \in Frames : f \notin fs => r.data[f] = s.data[f]
           /\ Exact(Used(r), r.free) /\ RefsOK(r)
  <1>0. /\ d \in Memory /\ d.free = s.free /\ d.data = s.data
        /\ X \in SUBSET Places
        /\ \A x \in X : Used(d)[x] = None
        /\ \A x \in Places : x \notin X => Used(d)[x] = Used(s)[x]
        /\ fs \in SUBSET Frames /\ \A f \in Frames : f \in fs <=> \E x \in X : Used(s)[x] = f
        /\ \A f \in Frames : f \notin fs => d.ref[f] = s.ref[f]
    BY DEF Cleared
  <1> USE <1>0
  <1>1. /\ r.free = d.free \cup fs /\ r.mm = d.mm
        /\ r.ref = [f \in Frames |-> IF f \in fs THEN 0 ELSE d.ref[f]]
        /\ r.data = [f \in Frames |-> IF f \in fs THEN Empty ELSE d.data[f]]
        /\ r = [free |-> r.free, ref |-> r.ref, data |-> r.data, mm |-> r.mm]
    BY DEF freePhyPages, Memory
  <1>2. Empty \in [0 .. PG - 1 -> Byte]
    BY DEF Empty, Byte
  <1>3. r \in Memory
    <2>1. r.free \in SUBSET Frames /\ r.mm \in [MMs -> MemMap_t \cup {None}]
      BY <1>1 DEF Memory
    <2>2. r.ref \in [Frames -> Nat] /\ r.data \in [Frames -> [0 .. PG - 1 -> Byte]]
      BY <1>1, <1>2 DEF Memory
    <2> QED
      BY <1>1, <2>1, <2>2 DEF Memory
  <1>4. Used(r) = Used(d)
    BY <1>1, UsedSame
  <1>5. Exact(Used(r), s.free \cup fs)
    <2>1. s.free \in SUBSET Frames
      BY DEF Memory
    <2>2. Used(s) \in [Places -> Frames \cup {None}] /\ Used(d) \in [Places -> Frames \cup {None}]
      BY UsedType
    <2>3. Exact(Used(d), s.free \cup fs)
      BY <2>1, <2>2, ExactGive
    <2> QED
      BY <1>4, <2>3
  <1>6. \A n \in MMs, v \in Pages : pte(r, n, v) = pte(d, n, v)
    BY <1>1 DEF pte, hasTable
  <1>7. RefsOK(r)
    <2>1. ASSUME NEW f \in r.free PROVE r.ref[f] = 0
      <3>1. f \in Frames /\ (f \in fs \/ f \in s.free)
        BY <1>1, <1>3 DEF Memory
      <3>2. f \notin fs => d.ref[f] = 0
        BY <3>1 DEF RefsOK
      <3> QED
        BY <1>1, <3>1, <3>2
    <2>2. ASSUME NEW n \in MMs, NEW v \in Pages, r.mm[n] # None, pte(r, n, v) # None
          PROVE  r.ref[pte(r, n, v).page] = 1
      <3> DEFINE f == pte(r, n, v).page
                 x == PageOf(n, v)
      <3>1. x \in Places /\ Used(r)[x] = f
        BY <1>3, <2>2, UsedPage
      <3>2. f \in Frames /\ f # None
        BY <1>3, <2>2, PteType, NoneIs DEF PTE_t
      <3>3. x \notin X /\ Used(s)[x] = f
        BY <1>4, <3>1, <3>2
      <3>4. s.mm[n] # None /\ pte(s, n, v) # None /\ pte(s, n, v).page = f
        BY <3>2, <3>3, UsedPage
      <3>5. f \notin fs
        BY <3>1, <3>2, <3>3 DEF Exact
      <3>6. s.ref[f] = 1
        BY <3>4 DEF RefsOK
      <3> QED
        BY <1>1, <3>2, <3>5, <3>6
    <2> QED
      BY <2>1, <2>2 DEF RefsOK
  <1> QED
    BY <1>1, <1>3, <1>5, <1>7

\* unmap_range() for every area: the address space has no pages any more.
LEMMA Unmapped ==
    ASSUME NEW s, MemInv(s), NEW m \in MMs, s.mm[m] # None,
           NEW r, r = unmapped(s, m)
    PROVE  /\ r \in Memory /\ Exact(Used(r), r.free) /\ RefsOK(r)
           /\ r.mm[m] # None /\ \A n \in MMs : n # m => r.mm[n] = s.mm[n]
           /\ r.mm[m].areas = s.mm[m].areas /\ r.mm[m].table = s.mm[m].table
           /\ \A v \in Pages : pte(r, m, v) = None
           /\ s.free \subseteq r.free
           /\ \A f \in Frames : f \notin r.free => r.data[f] = s.data[f]
  <1> DEFINE vs == {v \in covered(s, m) : pte(s, m, v) # None}
             uses(f) == Cardinality({v \in vs : pte(s, m, v).page = f})
             fs == {pte(s, m, v).page : v \in vs}
             P == [v \in Pages |-> IF v \in vs THEN None ELSE s.mm[m].pte[v]]
             R == [f \in Frames |-> s.ref[f] - uses(f)]
             y == [s.mm[m] EXCEPT !.pte = P]
             d == [s EXCEPT !.ref = R, !.mm[m].pte = P]
  <1>1. s \in Memory /\ s.mm[m] \in MemMap_t /\ MMInv(s.mm[m]) /\ s.free \subseteq Frames
    BY DEF MemInv, Memory
  <1>2. \A v \in Pages : v \in vs <=> pte(s, m, v) # None
    <2>1. ASSUME NEW v \in Pages, pte(s, m, v) # None PROVE v \in covered(s, m)
      <3>1. s.mm[m].table[v \div PT] # None /\ s.mm[m].pte[v] # None
        BY <1>1, <2>1, PteType
      <3>2. PICK a \in s.mm[m].areas : In(a, v)
        BY <1>1, <3>1 DEF MMInv, TablesOK
      <3>3. a.start \in Int /\ a.end \in Int /\ v \in Int
        BY <1>1, TableOfPage DEF MemMap_t, VirtMemArea_t, Pages
      <3>4. v \in a.start .. a.end - 1
        BY <3>2, <3>3 DEF In
      <3> QED
        BY <3>4 DEF covered
    <2> QED
      BY <2>1
  <1>3. vs \subseteq Pages
    <2>1. ASSUME NEW v \in covered(s, m) PROVE v \in Pages
      <3>1. PICK a \in s.mm[m].areas : v \in a.start .. a.end - 1
        BY DEF covered
      <3>2. a.start \in Pages /\ a.end \in 1 .. NPages
        BY <1>1 DEF MemMap_t, VirtMemArea_t
      <3> QED
        BY <3>1, <3>2, PagesAssumption DEF Pages
    <2> QED
      BY <2>1
  <1>4. ASSUME NEW v \in vs PROVE /\ pte(s, m, v).page \in Frames /\ s.ref[pte(s, m, v).page] = 1
                                  /\ v \in Pages /\ pte(s, m, v) # None
                                  /\ Used(s)[PageOf(m, v)] = pte(s, m, v).page
    <2>1. v \in Pages /\ pte(s, m, v) # None
      BY <1>3
    <2>2. pte(s, m, v).page \in Frames
      BY <1>1, <2>1, PteType DEF PTE_t
    <2>3. s.ref[pte(s, m, v).page] = 1
      BY <2>1 DEF MemInv, RefsOK
    <2> QED
      BY <1>1, <2>1, <2>2, <2>3, UsedPage
  <1>5. fs \in SUBSET Frames
    BY <1>4
  <1>6. ASSUME NEW f \in fs PROVE uses(f) = 1 /\ s.ref[f] = 1
    <2>1. PICK v \in vs : pte(s, m, v).page = f
      OBVIOUS
    <2>2. ASSUME NEW u \in vs, pte(s, m, u).page = f PROVE u = v
      <3>1. Used(s)[PageOf(m, u)] = f /\ Used(s)[PageOf(m, v)] = f /\ f # None
        BY <1>4, <2>1, <2>2, NoneIs
      <3>2. PageOf(m, u) \in Places /\ PageOf(m, v) \in Places
        BY <1>1, <1>3, UsedPage
      <3>3. PageOf(m, u) = PageOf(m, v)
        BY <3>1, <3>2 DEF MemInv, Exact
      <3> QED
        BY <3>3, PlacesDiffer
    <2>3. {u \in vs : pte(s, m, u).page = f} = {v}
      BY <2>1, <2>2
    <2>4. Cardinality({v}) = 1
      BY FS_Singleton
    <2> QED
      BY <1>4, <2>1, <2>3, <2>4
  <1>7. ASSUME NEW f \in Frames, f \notin fs PROVE uses(f) = 0
    <2>1. {v \in vs : pte(s, m, v).page = f} = {}
      BY <1>7
    <2> QED
      BY <2>1, FS_EmptySet
  <1>8. /\ d.ref = [f \in Frames |-> s.ref[f] - uses(f)] /\ d.free = s.free /\ d.data = s.data
        /\ d = [free |-> d.free, ref |-> d.ref, data |-> d.data, mm |-> d.mm]
    <2>1. /\ d.ref = R /\ d.free = s.free /\ d.data = s.data
          /\ d = [free |-> d.free, ref |-> d.ref, data |-> d.data, mm |-> d.mm]
      <3> HIDE DEF R, P
      <3>1. d = [[s EXCEPT !.ref = R] EXCEPT !.mm = [s.mm EXCEPT ![m] = y]]
        BY <1>1 DEF Memory
      <3> HIDE DEF d, y
      <3> QED
        BY <1>1, <3>1 DEF Memory
    <2> HIDE DEF d, uses
    <2> QED
      BY <2>1
  <1>9. d.mm = [s.mm EXCEPT ![m] = y]
    <2> HIDE DEF R, P
    <2> QED
      BY <1>1 DEF Memory
  <1>10. \A f \in Frames : d.ref[f] = IF f \in fs THEN 0 ELSE s.ref[f]
    <2>1. \A f \in Frames : s.ref[f] \in Nat
      BY <1>1 DEF Memory
    <2> HIDE DEF fs, uses, vs, d
    <2>2. ASSUME NEW f \in Frames, f \in fs PROVE d.ref[f] = 0
      BY <1>6, <1>8, <2>2
    <2>3. ASSUME NEW f \in Frames, f \notin fs PROVE d.ref[f] = s.ref[f]
      BY <1>7, <1>8, <2>1, <2>3
    <2> QED
      BY <2>2, <2>3
  <1>11. r = freePhyPages(d, {f \in fs : d.ref[f] <= 0})
    BY DEF unmapped
  <1> HIDE DEF d, uses, fs
  <1>12. {f \in fs : d.ref[f] <= 0} = fs
    BY <1>5, <1>10
  <1>13. /\ y \in MemMap_t /\ y.areas = s.mm[m].areas /\ y.table = s.mm[m].table
         /\ y.pgdir = s.mm[m].pgdir
         /\ \A v \in Pages : y.pte[v] = IF v \in vs THEN None ELSE s.mm[m].pte[v]
    BY <1>1 DEF MemMap_t
  <1> HIDE DEF y, vs
  <1>14. d.mm[m] = y /\ y # None /\ \A n \in MMs : n # m => d.mm[n] = s.mm[n]
    BY <1>1, <1>9, <1>13, NoneIs DEF Memory
  <1>15. d \in Memory
    <2>1. d.mm \in [MMs -> MemMap_t \cup {None}]
      BY <1>1, <1>9, <1>13 DEF Memory
    <2>2. d.ref \in [Frames -> Nat]
      <3>1. d.ref = [f \in Frames |-> d.ref[f]] /\ \A f \in Frames : d.ref[f] \in Nat
        BY <1>1, <1>8, <1>10 DEF Memory
      <3> QED
        BY <3>1
    <2>3. d.free \in SUBSET Frames /\ d.data \in [Frames -> [0 .. PG - 1 -> Byte]]
      BY <1>1, <1>8 DEF Memory
    <2> QED
      BY <1>8, <2>1, <2>2, <2>3 DEF Memory
  <1>16. ASSUME NEW v \in Pages PROVE pte(d, m, v) = None
    <2>1. CASE v \in vs
      BY <1>13, <1>14, <2>1 DEF pte, hasTable
    <2>2. CASE v \notin vs
      <3>1. pte(s, m, v) = None
        BY <1>2, <2>2
      <3> QED
        BY <1>13, <1>14, <2>2, <3>1 DEF pte, hasTable
    <2> QED
      BY <2>1, <2>2
  <1> DEFINE X == {PageOf(m, v) : v \in vs}
  <1>17. X \in SUBSET Places
    BY <1>1, <1>3, UsedPage
  <1>18. \A x \in X : Used(d)[x] = None
    <2>1. ASSUME NEW v \in vs PROVE Used(d)[PageOf(m, v)] = None
      BY <1>3, <1>14, <1>15, <1>16, UsedPage
    <2> QED
      BY <2>1
  <1>19. ASSUME NEW x \in Places, x \notin X PROVE Used(d)[x] = Used(s)[x]
    <2>1. ASSUME NEW n \in MMs PROVE Used(d)[Dir(n)] = Used(s)[Dir(n)]
      BY <1>1, <1>13, <1>14, <1>15, UsedDir
    <2>2. ASSUME NEW n \in MMs, NEW i \in Tables PROVE Used(d)[TableOf(n, i)] = Used(s)[TableOf(n, i)]
      BY <1>1, <1>13, <1>14, <1>15, UsedTable
    <2>3. ASSUME NEW n \in MMs, NEW v \in Pages, PageOf(n, v) \notin X
          PROVE  Used(d)[PageOf(n, v)] = Used(s)[PageOf(n, v)]
      <3>1. CASE n # m
        <4>1. pte(d, n, v) = pte(s, n, v) /\ d.mm[n] = s.mm[n]
          BY <1>14, <3>1 DEF pte, hasTable
        <4> QED
          BY <1>1, <1>15, <4>1, UsedPage
      <3>2. CASE n = m
        <4>1. v \notin vs
          BY <2>3, <3>2
        <4>2. pte(s, m, v) = None
          BY <1>2, <4>1
        <4> QED
          BY <1>1, <1>14, <1>15, <1>16, <3>2, <4>2, UsedPage
      <3> QED
        BY <3>1, <3>2
    <2> QED
      BY <1>19, <2>1, <2>2, <2>3, PlacesAre
  <1>20. \A f \in Frames : f \in fs <=> \E x \in X : Used(s)[x] = f
    BY <1>4 DEF fs
  <1> HIDE DEF X
  <1>21. /\ r \in Memory /\ r.mm = d.mm /\ r.free = s.free \cup fs
         /\ \A f \in Frames : f \notin fs => r.data[f] = s.data[f]
         /\ Exact(Used(r), r.free) /\ RefsOK(r)
    <2>1. Exact(Used(s), s.free) /\ RefsOK(s)
      BY DEF MemInv
    <2>2. \A f \in Frames : f \notin fs => d.ref[f] = s.ref[f]
      BY <1>10
    <2>3. d.free = s.free /\ d.data = s.data /\ r = freePhyPages(d, fs)
      BY <1>8, <1>11, <1>12
    <2>4. \A x \in Places : x \notin X => Used(d)[x] = Used(s)[x]
      BY <1>19
    <2>5. s \in Memory
      BY <1>1
    <2>6. Cleared(s, d, X, fs)
      BY <1>5, <1>15, <1>17, <1>18, <1>20, <2>2, <2>3, <2>4 DEF Cleared
    <2> QED
      BY <2>1, <2>3, <2>5, <2>6, FreePages
  <1>22. \A v \in Pages : pte(r, m, v) = None
    BY <1>16, <1>21 DEF pte, hasTable
  <1> QED
    BY <1>13, <1>14, <1>21, <1>22

\* exit_range() for every area: it has no page tables any more.
LEMMA ExitRange ==
    ASSUME NEW s \in Memory, Exact(Used(s), s.free), RefsOK(s), NEW m \in MMs, s.mm[m] # None,
           \A v \in Pages : pte(s, m, v) = None,
           \A i \in Tables : s.mm[m].table[i] # None =>
               \E a \in s.mm[m].areas : \E v \in Pages : In(a, v) /\ v \div PT = i,
           NEW r, r = exitRange(s, m)
    PROVE  /\ r \in Memory /\ Exact(Used(r), r.free) /\ RefsOK(r)
           /\ r.mm[m] # None /\ \A n \in MMs : n # m => r.mm[n] = s.mm[n]
           /\ \A i \in Tables : r.mm[m].table[i] = None
           /\ s.free \subseteq r.free
           /\ \A f \in Frames : f \notin r.free => r.data[f] = s.data[f]
  <1> DEFINE ts == {i \in Tables : s.mm[m].table[i] # None
                                   /\ i \in {v \div PT : v \in covered(s, m)}}
             fs == {s.mm[m].table[i] : i \in ts}
             T == [i \in Tables |-> IF i \in ts THEN None ELSE s.mm[m].table[i]]
             y == [s.mm[m] EXCEPT !.table = T]
             d == [s EXCEPT !.mm[m].table = T]
             X == {TableOf(m, i) : i \in ts}
  <1>1. s.mm[m] \in MemMap_t /\ s.free \subseteq Frames
    BY DEF Memory
  <1>2. ASSUME NEW i \in Tables PROVE i \in ts <=> s.mm[m].table[i] # None
    <2>1. ASSUME s.mm[m].table[i] # None PROVE i \in {v \div PT : v \in covered(s, m)}
      <3>1. PICK a \in s.mm[m].areas, v \in Pages : In(a, v) /\ v \div PT = i
        BY <2>1
      <3>2. a.start \in Int /\ a.end \in Int /\ v \in Int
        BY <1>1, TableOfPage DEF MemMap_t, VirtMemArea_t, Pages
      <3>3. v \in a.start .. a.end - 1
        BY <3>1, <3>2 DEF In
      <3> QED
        BY <3>1, <3>3 DEF covered
    <2> QED
      BY <2>1
  <1>3. ts \subseteq Tables
    OBVIOUS
  <1>4. r = freePhyPages(d, fs)
    BY DEF exitRange
  <1>5. T \in [Tables -> Frames \cup {None}] /\ \A i \in Tables : T[i] = None
    <2>1. \A i \in Tables : T[i] = None
      BY <1>2
    <2> QED
      BY <2>1
  <1> HIDE DEF ts, T
  <1>6. d = [s EXCEPT !.mm = [s.mm EXCEPT ![m] = y]]
    BY <1>1 DEF Memory
  <1>7. /\ y \in MemMap_t /\ y.table = T /\ y.pte = s.mm[m].pte
        /\ y.pgdir = s.mm[m].pgdir /\ y.areas = s.mm[m].areas
    BY <1>1, <1>5 DEF MemMap_t
  <1> HIDE DEF d, y
  <1>8. /\ d.mm = [s.mm EXCEPT ![m] = y] /\ d.free = s.free /\ d.data = s.data /\ d.ref = s.ref
        /\ d \in Memory
    BY <1>6, <1>7 DEF Memory
  <1>14. d \in Memory
    BY <1>8
  <1>9. d.mm[m] = y /\ y # None /\ \A n \in MMs : n # m => d.mm[n] = s.mm[n]
    BY <1>7, <1>8, NoneIs DEF Memory
  <1>10. ASSUME NEW v \in Pages PROVE pte(d, m, v) = None
    BY <1>5, <1>7, <1>9, TableOfPage DEF pte, hasTable
  <1>11. Cleared(s, d, X, fs)
    <2>1. X \in SUBSET Places
      BY <1>3, UsedTable
    <2>2. \A x \in X : Used(d)[x] = None
      <3>1. ASSUME NEW i \in ts PROVE Used(d)[TableOf(m, i)] = None
        BY <1>3, <1>5, <1>7, <1>14, <1>9, UsedTable
      <3> QED
        BY <3>1
    <2>3. ASSUME NEW x \in Places, x \notin X PROVE Used(d)[x] = Used(s)[x]
      <3>1. ASSUME NEW n \in MMs PROVE Used(d)[Dir(n)] = Used(s)[Dir(n)]
        BY <1>7, <1>14, <1>9, UsedDir
      <3>2. ASSUME NEW n \in MMs, NEW i \in Tables, TableOf(n, i) \notin X
            PROVE  Used(d)[TableOf(n, i)] = Used(s)[TableOf(n, i)]
        <4>1. CASE n # m
          BY <1>14, <1>9, <4>1, UsedTable
        <4>2. CASE n = m
          <5>1. s.mm[m].table[i] = None
            BY <1>2, <3>2, <4>2
          <5> QED
            BY <1>5, <1>7, <1>14, <1>9, <4>2, <5>1, UsedTable
        <4> QED
          BY <4>1, <4>2
      <3>3. ASSUME NEW n \in MMs, NEW v \in Pages PROVE Used(d)[PageOf(n, v)] = Used(s)[PageOf(n, v)]
        <4>1. CASE n # m
          <5>1. pte(d, n, v) = pte(s, n, v) /\ d.mm[n] = s.mm[n]
            BY <1>9, <4>1 DEF pte, hasTable
          <5> QED
            BY <1>14, <5>1, UsedPage
        <4>2. CASE n = m
          BY <1>14, <1>9, <1>10, <4>2, UsedPage
        <4> QED
          BY <4>1, <4>2
      <3> QED
        BY <2>3, <3>1, <3>2, <3>3, PlacesAre
    <2>4. ASSUME NEW i \in ts PROVE Used(s)[TableOf(m, i)] = s.mm[m].table[i] /\ s.mm[m].table[i] \in Frames
      BY <1>1, <1>2, <1>3, UsedTable DEF MemMap_t
    <2>5. fs \in SUBSET Frames
      BY <2>4
    <2>6. \A f \in Frames : f \in fs <=> \E x \in X : Used(s)[x] = f
      BY <2>4
    <2> HIDE DEF X, fs
    <2> QED
      BY <1>8, <2>1, <2>2, <2>3, <2>5, <2>6 DEF Cleared
  <1> HIDE DEF X, fs
  <1>12. /\ r \in Memory /\ r.mm = d.mm /\ r.free = s.free \cup fs
         /\ \A f \in Frames : f \notin fs => r.data[f] = s.data[f]
         /\ Exact(Used(r), r.free) /\ RefsOK(r)
    BY <1>4, <1>11, FreePages
  <1> QED
    BY <1>5, <1>7, <1>9, <1>12

\* What remains when address space m is gone.
Gone(s, r, m) ==
    /\ MemInv(r) /\ r.mm[m] = None /\ \A n \in MMs : n # m => r.mm[n] = s.mm[n]
    /\ s.free \subseteq r.free
    /\ \A f \in Frames : f \notin r.free => r.data[f] = s.data[f]

LEMMA Destroyed ==
    ASSUME NEW s, MemInv(s), NEW m \in MMs, s.mm[m] # None, NEW r, r = destroyed(s, m)
    PROVE  Gone(s, r, m)
  <1> DEFINE u == unmapped(s, m)
             e == exitRange(u, m)
             d == [e EXCEPT !.mm[m] = None]
             f == e.mm[m].pgdir
  <1>1. /\ u \in Memory /\ Exact(Used(u), u.free) /\ RefsOK(u)
        /\ u.mm[m] # None /\ \A n \in MMs : n # m => u.mm[n] = s.mm[n]
        /\ u.mm[m].areas = s.mm[m].areas /\ u.mm[m].table = s.mm[m].table
        /\ \A v \in Pages : pte(u, m, v) = None
        /\ s.free \subseteq u.free
        /\ \A g \in Frames : g \notin u.free => u.data[g] = s.data[g]
    BY Unmapped
  <1>2. r = [freePhyPages(e, {f}) EXCEPT !.mm[m] = None]
    BY DEF destroyed, exit_mmap
  <1> HIDE DEF u
  <1>3. \A i \in Tables : u.mm[m].table[i] # None =>
            \E a \in u.mm[m].areas : \E v \in Pages : In(a, v) /\ v \div PT = i
    BY <1>1 DEF MemInv, MMInv, TablesOK
  <1>4. /\ e \in Memory /\ Exact(Used(e), e.free) /\ RefsOK(e)
        /\ e.mm[m] # None /\ \A n \in MMs : n # m => e.mm[n] = u.mm[n]
        /\ \A i \in Tables : e.mm[m].table[i] = None
        /\ u.free \subseteq e.free
        /\ \A g \in Frames : g \notin e.free => e.data[g] = u.data[g]
    BY <1>1, <1>3, ExitRange
  <1> HIDE DEF e
  <1>5. r = freePhyPages(d, {f})
    <2>1. e \in Memory
      BY <1>4
    <2> HIDE DEF f
    <2>2. r = freePhyPages(d, {f})
      <3> DEFINE g == freePhyPages(e, {f})
                 R == [c \in Frames |-> IF c \in {f} THEN 0 ELSE e.ref[c]]
                 D == [c \in Frames |-> IF c \in {f} THEN Empty ELSE e.data[c]]
      <3>1. /\ g = [[[e EXCEPT !.free = @ \cup {f}] EXCEPT !.ref = R] EXCEPT !.data = D]
            /\ d.ref = e.ref /\ d.data = e.data
        BY <2>1 DEF freePhyPages, Memory
      <3>2. freePhyPages(d, {f}) = [[[d EXCEPT !.free = @ \cup {f}] EXCEPT !.ref = R] EXCEPT !.data = D]
        BY <2>1 DEF freePhyPages, Memory
      <3> HIDE DEF R, D
      <3>3. [g EXCEPT !.mm[m] = None] = freePhyPages(d, {f})
        BY <2>1, <3>1, <3>2 DEF Memory
      <3> QED
        BY <1>2, <3>3
    <2> QED
      BY <2>2
  <1>6. /\ d.mm = [e.mm EXCEPT ![m] = None] /\ d.free = e.free /\ d.data = e.data /\ d.ref = e.ref
        /\ d \in Memory
    <2>1. e \in Memory
      BY <1>4
    <2> QED
      BY <2>1 DEF Memory
  <1>7. e.mm[m] \in MemMap_t /\ f \in Frames /\ e.free \subseteq Frames
    BY <1>4 DEF Memory, MemMap_t
  <1> HIDE DEF d
  <1>14. d \in Memory
    BY <1>6
  <1>15. e \in Memory
    BY <1>4
  <1>16. e.mm[m] # None /\ \A i \in Tables : e.mm[m].table[i] = None
    BY <1>4
  <1>17. Exact(Used(e), e.free) /\ RefsOK(e)
    BY <1>4
  <1>8. d.mm[m] = None /\ \A n \in MMs : n # m => d.mm[n] = e.mm[n]
    BY <1>4, <1>6 DEF Memory
  <1> DEFINE X == {Dir(m)}
  <1>9. Cleared(e, d, X, {f})
    <2>1. X \in SUBSET Places
      BY <1>4, UsedDir
    <2>2. \A x \in X : Used(d)[x] = None
      BY <1>14, <1>8, UsedDir
    <2>3. ASSUME NEW x \in Places, x \notin X PROVE Used(d)[x] = Used(e)[x]
      <3>1. ASSUME NEW n \in MMs, Dir(n) \notin X PROVE Used(d)[Dir(n)] = Used(e)[Dir(n)]
        BY <1>15, <1>14, <1>8, <3>1, UsedDir
      <3>2. ASSUME NEW n \in MMs, NEW i \in Tables
            PROVE  Used(d)[TableOf(n, i)] = Used(e)[TableOf(n, i)]
        BY <1>15, <1>14, <1>8, <1>16, UsedTable
      <3>3. ASSUME NEW n \in MMs, NEW v \in Pages PROVE Used(d)[PageOf(n, v)] = Used(e)[PageOf(n, v)]
        <4>1. CASE n # m
          <5>1. pte(d, n, v) = pte(e, n, v) /\ d.mm[n] = e.mm[n]
            BY <1>8, <4>1 DEF pte, hasTable
          <5> QED
            BY <1>15, <1>14, <5>1, UsedPage
        <4>2. CASE n = m
          <5>1. pte(e, m, v) = None
            BY <1>4, TableOfPage DEF pte, hasTable
          <5> QED
            BY <1>15, <1>14, <1>8, <4>2, <5>1, UsedPage
        <4> QED
          BY <4>1, <4>2
      <3> QED
        BY <2>3, <3>1, <3>2, <3>3, PlacesAre
    <2>4. Used(e)[Dir(m)] = f
      BY <1>4, UsedDir
    <2>5. \A g \in Frames : g \in {f} <=> \E x \in X : Used(e)[x] = g
      BY <2>4
    <2> HIDE DEF X, f
    <2> QED
      BY <1>6, <1>7, <2>1, <2>2, <2>3, <2>5 DEF Cleared
  <1> HIDE DEF X
  <1>10. /\ r \in Memory /\ r.mm = d.mm /\ r.free = e.free \cup {f}
         /\ \A g \in Frames : g \notin {f} => r.data[g] = e.data[g]
         /\ Exact(Used(r), r.free) /\ RefsOK(r)
    <2> DEFINE F == {f}
    <2>1. r = freePhyPages(d, F) /\ Cleared(e, d, X, F)
      BY <1>5, <1>9
    <2> HIDE DEF F
    <2>2. /\ r \in Memory /\ r.mm = d.mm /\ r.free = e.free \cup F
          /\ \A g \in Frames : g \notin F => r.data[g] = e.data[g]
          /\ Exact(Used(r), r.free) /\ RefsOK(r)
      BY <1>15, <1>17, <2>1, FreePages
    <2> QED
      BY <2>2 DEF F
  <1>11. r.mm[m] = None /\ \A n \in MMs : n # m => r.mm[n] = s.mm[n]
    BY <1>1, <1>4, <1>8, <1>10
  <1>12. \A n \in MMs : r.mm[n] # None => MMInv(r.mm[n])
    BY <1>11 DEF MemInv
  <1>13. s.free \subseteq r.free /\ \A g \in Frames : g \notin r.free => r.data[g] = s.data[g]
    BY <1>1, <1>4, <1>10
  <1> QED
    BY <1>10, <1>11, <1>12, <1>13 DEF Gone, MemInv

\* The only task of an address space gives it up.
LEMMA Released ==
    ASSUME NEW s, MemInv(s), NEW m \in MMs, s.mm[m] # None, s.mm[m].ref = 1,
           NEW r, r = released(s, m)
    PROVE  Gone(s, r, m)
  <1> DEFINE d == [s EXCEPT !.mm[m].ref = @ - 1]
  <1>1. d = [s EXCEPT !.mm[m].ref = 0]
    OBVIOUS
  <1>2. 0 \in Nat
    OBVIOUS
  <1>4. m # None
    BY NamesAssumption
  <1>5. r = IF d.mm[m].ref = 0 THEN destroyed(d, m) ELSE d
    BY <1>4 DEF released
  <1> HIDE DEF d
  <1>6. Respaced(s, d, m, s.mm[m].areas, 0)
    BY <1>1, <1>2, NewRef
  <1>7. MemInv(d) /\ d.mm[m] # None /\ r = destroyed(d, m)
    BY <1>5, <1>6 DEF Respaced
  <1>8. Gone(d, r, m)
    BY <1>7, Destroyed
  <1> QED
    BY <1>6, <1>8 DEF Gone, Respaced

\* When every address space has a task, there is a MemMap_t left.
LEMMA NewMM ==
    ASSUME NEW s, NEW o \in [Tasks -> MMs \cup {None, Dead}],
           \A m \in MMs : s.mm[m] # None => \E t \in Tasks : o[t] = m
    PROVE  newMM(s) \in MMs /\ s.mm[newMM(s)] = None
  <1> DEFINE I == {o[t] : t \in Tasks}
             N == {m \in MMs : s.mm[m] = None}
  <1>1. IsFiniteSet(I) /\ Cardinality(I) <= Cardinality(Tasks)
    <2>1. o \in Surjection(Tasks, I)
      BY DEF Surjection
    <2> QED
      BY <2>1, NamesAssumption, FS_Surjection
  <1>2. N # {}
    <2>1. SUFFICES ASSUME N = {} PROVE FALSE
      OBVIOUS
    <2>2. MMs \subseteq I
      BY <2>1
    <2>3. Cardinality(MMs) <= Cardinality(I)
      BY <1>1, <2>2, FS_Subset
    <2>4. Cardinality(MMs) \in Nat /\ Cardinality(Tasks) \in Nat /\ Cardinality(I) \in Nat
      BY <1>1, NamesAssumption, FS_CardinalityType
    <2> QED
      BY <1>1, <2>3, <2>4, NamesAssumption
  <1>3. N \in SUBSET Nat
    BY NamesAssumption
  <1>4. Min(N) \in N
    BY <1>2, <1>3, MinOf
  <1> QED
    BY <1>4 DEF newMM

\* What mm_create() and setup_pgdir() add.
Begun(s, r, m) ==
    /\ MemInv(r) /\ r.mm[m] # None /\ \A n \in MMs : n # m => r.mm[n] = s.mm[n]
    /\ r.mm[m].areas = {} /\ r.mm[m].ref = 0 /\ \A v \in Pages : pte(r, m, v) = None
    /\ r.data = s.data

LEMMA Created ==
    ASSUME NEW s, MemInv(s), s.free # {}, NEW m \in MMs, m = newMM(s), s.mm[m] = None,
           NEW r, r = created(s)
    PROVE  Begun(s, r, m)
  <1> DEFINE f == first(s)
             T == [i \in Tables |-> None]
             P == [v \in Pages |-> None]
             y == [ref |-> 0, pgdir |-> f, areas |-> {}, table |-> T, pte |-> P]
  <1>1. s \in Memory /\ Exact(Used(s), s.free) /\ RefsOK(s)
    BY DEF MemInv
  <1>2. f \in s.free /\ f \in Frames
    BY <1>1, First
  <1>3. T \in [Tables -> Frames \cup {None}] /\ P \in [Pages -> PTE_t \cup {None}]
    OBVIOUS
  <1>4. (\A i \in Tables : T[i] = None) /\ (\A v \in Pages : P[v] = None)
    OBVIOUS
  <1> DEFINE b == s.free \ {f}
  <1>5. r = [[s EXCEPT !.free = b] EXCEPT !.mm[m] = y]
    BY DEF created, allocPhyPages
  <1>21. b \in SUBSET Frames
    BY <1>1 DEF Memory
  <1> HIDE DEF f, T, P
  <1>6. /\ y \in MemMap_t /\ y.areas = {} /\ y.ref = 0 /\ y.table = T /\ y.pgdir = f /\ y.pte = P
    BY <1>2, <1>3 DEF MemMap_t
  <1> HIDE DEF y
  <1>7. s \in Memory
    BY <1>1
  <1> HIDE DEF b
  <1>22. r = [[s EXCEPT !.free = b] EXCEPT !.mm = [s.mm EXCEPT ![m] = y]]
    BY <1>5, <1>7 DEF Memory
  <1>23. /\ r.mm = [s.mm EXCEPT ![m] = y] /\ r.free = b /\ r.data = s.data /\ r.ref = s.ref
         /\ r = [free |-> r.free, ref |-> r.ref, data |-> r.data, mm |-> r.mm]
    BY <1>7, <1>22 DEF Memory
  <1>24. [s.mm EXCEPT ![m] = y] \in [MMs -> MemMap_t \cup {None}]
    BY <1>6, <1>7 DEF Memory
  <1>25. s.ref \in [Frames -> Nat] /\ s.data \in [Frames -> [0 .. PG - 1 -> Byte]]
    BY <1>7 DEF Memory
  <1>26. r \in Memory
    BY <1>21, <1>23, <1>24, <1>25 DEF Memory
  <1>8. /\ r.mm = [s.mm EXCEPT ![m] = y] /\ r.free = s.free \ {f} /\ r.data = s.data /\ r.ref = s.ref
        /\ r \in Memory
    BY <1>23, <1>26 DEF b
  <1>9. r.mm[m] = y /\ y # None /\ \A n \in MMs : n # m => r.mm[n] = s.mm[n]
    BY <1>6, <1>7, <1>8, NoneIs DEF Memory
  <1>10. r \in Memory
    BY <1>8
  <1>11. \A v \in Pages : pte(r, m, v) = None
    BY <1>4, <1>6, <1>9 DEF pte, hasTable
  <1>12. \A n \in MMs, v \in Pages : n # m => pte(r, n, v) = pte(s, n, v)
    BY <1>9 DEF pte, hasTable
  <1>13. RefsOK(r)
    <2>1. \A e \in r.free : r.ref[e] = 0
      BY <1>1, <1>8 DEF RefsOK
    <2>2. ASSUME NEW n \in MMs, NEW v \in Pages, r.mm[n] # None, pte(r, n, v) # None
          PROVE  r.ref[pte(r, n, v).page] = 1
      <3>1. n # m
        BY <1>11, <2>2
      <3>2. s.mm[n] # None /\ pte(s, n, v) # None /\ pte(s, n, v) = pte(r, n, v)
        BY <1>9, <1>12, <2>2, <3>1
      <3>3. s.ref[pte(s, n, v).page] = 1
        BY <1>1, <3>2 DEF RefsOK
      <3> QED
        BY <1>8, <3>2, <3>3
    <2> QED
      BY <2>1, <2>2 DEF RefsOK
  <1>14. Dir(m) \in Places /\ Used(r)[Dir(m)] = f /\ Used(s)[Dir(m)] = None
    BY <1>6, <1>7, <1>9, <1>10, UsedDir
  <1>15. ASSUME NEW x \in Places, x # Dir(m) PROVE Used(r)[x] = Used(s)[x]
    <2>1. ASSUME NEW n \in MMs, n # m PROVE Used(r)[Dir(n)] = Used(s)[Dir(n)]
      BY <1>7, <1>9, <1>10, <2>1, UsedDir
    <2>2. ASSUME NEW n \in MMs, NEW i \in Tables PROVE Used(r)[TableOf(n, i)] = Used(s)[TableOf(n, i)]
      BY <1>4, <1>6, <1>7, <1>9, <1>10, UsedTable
    <2>3. ASSUME NEW n \in MMs, NEW v \in Pages PROVE Used(r)[PageOf(n, v)] = Used(s)[PageOf(n, v)]
      <3>1. CASE n = m
        BY <1>7, <1>9, <1>10, <1>11, <3>1, UsedPage
      <3>2. CASE n # m
        BY <1>7, <1>9, <1>10, <1>12, <3>2, UsedPage
      <3> QED
        BY <3>1, <3>2
    <2> QED
      BY <1>15, <2>1, <2>2, <2>3, PlacesAre
  <1>16. Exact(Used(r), s.free \ {f})
    <2>1. s.free \in SUBSET Frames
      BY <1>7 DEF Memory
    <2> QED
      BY <1>1, <1>2, <1>7, <1>10, <1>14, <1>15, <2>1, ExactTake, UsedType
  <1>17. MMInv(r.mm[m])
    BY <1>4, <1>6, <1>9, TableOfPage DEF MMInv, AreasOK, TablesOK
  <1>18. \A n \in MMs : r.mm[n] # None => MMInv(r.mm[n])
    BY <1>9, <1>17 DEF MemInv
  <1>19. r.free = s.free \ {f} /\ r.data = s.data
    BY <1>8
  <1>20. MemInv(r)
    BY <1>10, <1>13, <1>16, <1>18, <1>19 DEF MemInv
  <1> QED
    BY <1>6, <1>9, <1>11, <1>19, <1>20 DEF Begun

----------------------------------------------------------------------------
(* Pages with contents.                                                    *)

\* A page in use is in a frame that is not free, and no other page is in it.
LEMMA PageFrame ==
    ASSUME NEW s, MemInv(s), NEW m \in MMs, s.mm[m] # None, NEW v \in Pages, pte(s, m, v) # None
    PROVE  /\ pte(s, m, v).page \in Frames /\ pte(s, m, v).page \notin s.free
           /\ \A n \in MMs, u \in Pages :
                 s.mm[n] # None /\ pte(s, n, u) # None /\ pte(s, n, u).page = pte(s, m, v).page
                 => n = m /\ u = v
  <1>1. s \in Memory
    BY DEF MemInv
  <1>2. Exact(Used(s), s.free)
    BY DEF MemInv
  <1> DEFINE f == pte(s, m, v).page
  <1>3. f \in Frames /\ f # None
    BY <1>1, PteType, NoneIs DEF PTE_t
  <1>4. PageOf(m, v) \in Places /\ Used(s)[PageOf(m, v)] = f
    BY <1>1, UsedPage
  <1>5. f \notin s.free
    BY <1>2, <1>3, <1>4 DEF Exact
  <1>6. ASSUME NEW n \in MMs, NEW u \in Pages, s.mm[n] # None, pte(s, n, u) # None,
               pte(s, n, u).page = f
        PROVE  n = m /\ u = v
    <2>1. PageOf(n, u) \in Places /\ Used(s)[PageOf(n, u)] = f
      BY <1>1, <1>6, UsedPage
    <2>2. PageOf(n, u) = PageOf(m, v)
      BY <1>2, <1>3, <1>4, <2>1 DEF Exact
    <2> QED
      BY <2>2, PlacesDiffer
  <1> QED
    BY <1>3, <1>5, <1>6

\* A new page v with contents B, and nothing else, is in r.
NewPageIn(s, r, m, v, w, B) ==
    /\ MemInv(r) /\ r.mm[m] # None /\ \A n \in MMs : n # m => r.mm[n] = s.mm[n]
    /\ r.mm[m].areas = s.mm[m].areas /\ r.mm[m].ref = s.mm[m].ref
    /\ pte(r, m, v) # None /\ pte(r, m, v).w = w /\ r.data[pte(r, m, v).page] = B
    /\ \A u \in Pages : u # v => pte(r, m, u) = pte(s, m, u)
    /\ \A f \in Frames : f \notin s.free => r.data[f] = s.data[f]

LEMMA NewPage ==
    ASSUME NEW s, MemInv(s), NEW m \in MMs, s.mm[m] # None, NEW v \in Pages,
           pte(s, m, v) = None, canAlloc(s, m, v), NEW w \in BOOLEAN,
           \E a \in s.mm[m].areas : In(a, v) /\ (w <=> "W" \in a.flags),
           NEW B \in [0 .. PG - 1 -> Byte],
           NEW q, q = pgdir_alloc_page(s, m, v, w),
           NEW r, r = [q EXCEPT !.data[first(s)] = B]
    PROVE  NewPageIn(s, r, m, v, w, B) /\ pte(q, m, v).page = first(s)
  <1> DEFINE f == first(s)
             D == [q.data EXCEPT ![f] = B]
  <1>1. MemInv(q) /\ PageAdded(s, q, m, v, w, f)
    BY AllocMem
  <1>2. q \in Memory
    BY <1>1 DEF MemInv
  <1>3. f \in Frames /\ f \in s.free /\ q.data = s.data
    BY <1>1 DEF PageAdded
  <1> HIDE DEF f
  <1>4. q.data \in [Frames -> [0 .. PG - 1 -> Byte]]
    BY <1>2 DEF Memory
  <1>5. /\ D \in [Frames -> [0 .. PG - 1 -> Byte]] /\ D[f] = B
        /\ \A e \in Frames : e # f => D[e] = q.data[e]
    BY <1>3, <1>4
  <1>6. r = [q EXCEPT !.data = D]
    BY DEF f
  <1> HIDE DEF D
  <1>7. /\ MemInv(r) /\ r.mm = q.mm /\ r.free = q.free /\ r.data = D
        /\ \A n \in MMs, u \in Pages : pte(r, n, u) = pte(q, n, u)
    <2>1. MemInv(q) /\ D \in [Frames -> [0 .. PG - 1 -> Byte]]
      BY <1>1, <1>5
    <2>2. Refilled(q, r, D)
      BY <1>6, <2>1, NewData
    <2> QED
      BY <2>2 DEF Refilled
  <1>8. pte(q, m, v) = [page |-> f, w |-> w] /\ pte(q, m, v) # None
    <2>1. pte(q, m, v) = [page |-> f, w |-> w]
      BY <1>1 DEF PageAdded
    <2>2. [page |-> f, w |-> w] \in PTE_t
      BY <1>3 DEF PTE_t
    <2> QED
      BY <2>1, <2>2, NoneIs
  <1>9. pte(r, m, v) = [page |-> f, w |-> w] /\ pte(r, m, v) # None
    BY <1>7, <1>8
  <1>10. pte(r, m, v).page = f /\ pte(r, m, v).w = w /\ pte(q, m, v).page = f
    BY <1>8, <1>9
  <1>11. /\ r.mm[m] # None /\ \A n \in MMs : n # m => r.mm[n] = s.mm[n]
         /\ r.mm[m].areas = s.mm[m].areas /\ r.mm[m].ref = s.mm[m].ref
    BY <1>1, <1>7 DEF PageAdded
  <1>12. \A u \in Pages : u # v => pte(r, m, u) = pte(s, m, u)
    BY <1>1, <1>7 DEF PageAdded
  <1>13. \A e \in Frames : e \notin s.free => r.data[e] = s.data[e]
    BY <1>3, <1>5, <1>7
  <1>14. r.data[pte(r, m, v).page] = B
    BY <1>5, <1>7, <1>10
  <1> QED
    BY <1>7, <1>9, <1>10, <1>11, <1>12, <1>13, <1>14 DEF NewPageIn, f

\* Page u is in r as it was in s.
SameAt(s, r, m, u) ==
    pte(s, m, u) # None => /\ pte(r, m, u) = pte(s, m, u)
                           /\ r.data[pte(s, m, u).page] = s.data[pte(s, m, u).page]

LEMMA NewPageKeeps ==
    ASSUME NEW s, MemInv(s), NEW m \in MMs, s.mm[m] # None, NEW v \in Pages, pte(s, m, v) = None,
           NEW w, NEW B, NEW r, NewPageIn(s, r, m, v, w, B),
           NEW n \in MMs, s.mm[n] # None, NEW u \in Pages
    PROVE  /\ SameAt(s, r, n, u)
           /\ n # m \/ u # v => pte(r, n, u) = pte(s, n, u)
  <1>1. n # m \/ u # v => pte(r, n, u) = pte(s, n, u)
    <2>1. CASE n = m
      BY <2>1 DEF NewPageIn
    <2>2. CASE n # m
      <3>1. r.mm[n] = s.mm[n]
        BY <2>2 DEF NewPageIn
      <3> QED
        BY <3>1 DEF pte, hasTable
    <2> QED
      BY <2>1, <2>2
  <1>2. ASSUME pte(s, n, u) # None PROVE r.data[pte(s, n, u).page] = s.data[pte(s, n, u).page]
    <2>1. pte(s, n, u).page \in Frames /\ pte(s, n, u).page \notin s.free
      BY <1>2, PageFrame
    <2> QED
      BY <2>1 DEF NewPageIn
  <1> QED
    BY <1>1, <1>2 DEF SameAt

----------------------------------------------------------------------------
(* Calls and their owners.                                                 *)

LEMMA CallTypes ==
    ASSUME NEW c \in Calls, c # None
    PROVE  /\ c.m \in MMs /\ c.t \in Tasks
           /\ c.op \in {"dup", "segment", "file", "zero", "stack"}
           /\ c.op = "dup" => c \in Fork
           /\ c.op = "segment" => c \in Reading
           /\ c.op \in {"file", "zero"} => c \in Loading
           /\ c.op = "stack" => c \in Stacking
  BY DEF Calls, Fork, Reading, Loading, Stacking

SameSpaces(s, r) ==
    \A n \in MMs : /\ r.mm[n] = None <=> s.mm[n] = None
                   /\ s.mm[n] # None => r.mm[n].ref = s.mm[n].ref

\* A step that lets all live, in the same call.
LEMMA OwnersKept ==
    ASSUME NEW s, NEW r, NEW o, NEW c \in Calls, NEW d \in Calls, OwnerInv(s, o, c),
           c = None <=> d = None, d # None => d.m = c.m, SameSpaces(s, r)
    PROVE  OwnerInv(r, o, d)
  <1>1. d # None => d.m \in MMs
    BY CallTypes
  <1> QED
    BY <1>1 DEF OwnerInv, SameSpaces

\* The call is over and its address space is gone; its task may be dead.
LEMMA OwnersFailed ==
    ASSUME NEW s, NEW r, NEW o, NEW c \in Calls, c # None, OwnerInv(s, o, c), Gone(s, r, c.m),
           NEW x \in {None, Dead}, NEW t \in Tasks, o[t] \notin MMs
    PROVE  OwnerInv(r, o, None) /\ OwnerInv(r, [o EXCEPT ![t] = x], None)
  <1> DEFINE w == [o EXCEPT ![t] = x]
  <1>1. c.m \in MMs
    BY CallTypes
  <1>2. o \in [Tasks -> MMs \cup {None, Dead}] /\ x \notin MMs
    BY NamesAssumption DEF OwnerInv
  <1>3. /\ \A n \in MMs : n # c.m => r.mm[n] = s.mm[n]
        /\ r.mm[c.m] = None
        /\ \A u \in Tasks : o[u] # c.m
    BY DEF OwnerInv, Gone
  <1>4. OwnerInv(r, o, None)
    BY <1>1, <1>2, <1>3 DEF OwnerInv
  <1>5. /\ w \in [Tasks -> MMs \cup {None, Dead}]
        /\ \A u \in Tasks, m \in MMs : w[u] = m <=> o[u] = m
    BY <1>2
  <1> HIDE DEF w
  <1>6. OwnerInv(r, w, None)
    BY <1>4, <1>5 DEF OwnerInv
  <1> QED
    BY <1>4, <1>6 DEF w

\* The call is over and its address space belongs to a task that had none.
LEMMA OwnersDone ==
    ASSUME NEW s, NEW r, NEW o, NEW c \in Calls, c # None, OwnerInv(s, o, c),
           NEW as, Respaced(s, r, c.m, as, 1), NEW t \in Tasks, o[t] \notin MMs
    PROVE  OwnerInv(r, [o EXCEPT ![t] = c.m], None)
  <1> DEFINE w == [o EXCEPT ![t] = c.m]
  <1>1. c.m \in MMs
    BY CallTypes
  <1>2. o \in [Tasks -> MMs \cup {None, Dead}]
    BY DEF OwnerInv
  <1>3. /\ \A n \in MMs : n # c.m => r.mm[n] = s.mm[n]
        /\ r.mm[c.m] # None /\ r.mm[c.m].ref = 1
        /\ \A u \in Tasks : o[u] # c.m
    BY DEF OwnerInv, Respaced
  <1>4. /\ w \in [Tasks -> MMs \cup {None, Dead}] /\ w[t] = c.m
        /\ \A u \in Tasks : u # t => w[u] = o[u]
    BY <1>1, <1>2
  <1> HIDE DEF w
  <1>5. \A u, v \in Tasks : w[u] \in MMs /\ w[u] = w[v] => u = v
    BY <1>3, <1>4 DEF OwnerInv
  <1>6. \A u \in Tasks : w[u] \in MMs => r.mm[w[u]] # None /\ r.mm[w[u]].ref = 1
    <2>1. ASSUME NEW u \in Tasks, u # t, o[u] \in MMs PROVE r.mm[o[u]] # None /\ r.mm[o[u]].ref = 1
      BY <1>3, <2>1 DEF OwnerInv
    <2> QED
      BY <1>3, <1>4, <2>1
  <1>7. ASSUME NEW m \in MMs, r.mm[m] # None PROVE \E u \in Tasks : w[u] = m
    <2>1. CASE m = c.m
      BY <1>4, <2>1
    <2>2. CASE m # c.m
      <3>1. PICK u \in Tasks : o[u] = m
        BY <1>3, <1>7, <2>2 DEF OwnerInv
      <3> QED
        BY <1>4, <3>1
    <2> QED
      BY <2>1, <2>2
  <1>8. OwnerInv(r, w, None)
    BY <1>4, <1>5, <1>6, <1>7 DEF OwnerInv
  <1> QED
    BY <1>8 DEF w

\* A task without call gives its address space up.
LEMMA OwnersLeave ==
    ASSUME NEW s, NEW r, NEW o, OwnerInv(s, o, None), NEW t \in Tasks, o[t] \in MMs,
           Gone(s, r, o[t]), NEW x \in {None, Dead}
    PROVE  OwnerInv(r, [o EXCEPT ![t] = x], None)
  <1> DEFINE w == [o EXCEPT ![t] = x]
  <1>1. o \in [Tasks -> MMs \cup {None, Dead}] /\ x \notin MMs
    BY NamesAssumption DEF OwnerInv
  <1>2. /\ w \in [Tasks -> MMs \cup {None, Dead}] /\ w[t] \notin MMs
        /\ \A u \in Tasks : u # t => w[u] = o[u]
    BY <1>1
  <1> HIDE DEF w
  <1>3. /\ \A n \in MMs : n # o[t] => r.mm[n] = s.mm[n]
        /\ r.mm[o[t]] = None
    BY DEF Gone
  <1>4. \A u, v \in Tasks : w[u] \in MMs /\ w[u] = w[v] => u = v
    BY <1>2 DEF OwnerInv
  <1>5. ASSUME NEW u \in Tasks, w[u] \in MMs PROVE r.mm[w[u]] # None /\ r.mm[w[u]].ref = 1
    <2>1. u # t /\ w[u] = o[u] /\ o[u] # o[t]
      BY <1>2, <1>5 DEF OwnerInv
    <2> QED
      BY <1>3, <1>5, <2>1 DEF OwnerInv
  <1>6. ASSUME NEW m \in MMs, r.mm[m] # None PROVE \E u \in Tasks : w[u] = m
    <2>1. m # o[t] /\ s.mm[m] # None
      BY <1>3, <1>6
    <2>2. PICK u \in Tasks : o[u] = m
      BY <2>1 DEF OwnerInv
    <2> QED
      BY <1>2, <2>1, <2>2
  <1>7. OwnerInv(r, w, None)
    BY <1>2, <1>4, <1>5, <1>6 DEF OwnerInv
  <1> QED
    BY <1>7 DEF w

\* A call begins with a new address space.
LEMMA OwnersBegin ==
    ASSUME NEW s, NEW r, NEW o, OwnerInv(s, o, None), NEW c \in Calls, c # None,
           s.mm[c.m] = None, Begun(s, r, c.m)
    PROVE  OwnerInv(r, o, c)
  <1>1. c.m \in MMs
    BY CallTypes
  <1>2. \A t \in Tasks : o[t] # c.m
    BY <1>1 DEF OwnerInv
  <1>3. /\ \A n \in MMs : n # c.m => r.mm[n] = s.mm[n]
        /\ r.mm[c.m] # None /\ r.mm[c.m].ref = 0
    BY DEF Begun
  <1> QED
    BY <1>1, <1>2, <1>3 DEF OwnerInv

\* A step that goes on, and one that stops the system.
LEMMA Goes ==
    ASSUME StateInv(vm', owner', call'), halted' = "no"
    PROVE  VInv'
  BY DEF VInv, PanicsExplained

LEMMA Halts ==
    ASSUME VInv, NEW why \in {"no_memory", "overlap", "kernel_fault", "non_writable_pte"},
           Halt(why), PanicsExplained'
    PROVE  VInv'
  BY DEF VInv, Halt

----------------------------------------------------------------------------
(* fork                                                                    *)

\* What is known in the middle of a fork.
Forking(s, o, c) ==
    /\ MemInv(s) /\ OwnerInv(s, o, c) /\ c \in Fork /\ c # None /\ ForkInv(s, o, c)
    /\ c.m \in MMs /\ o[c.t] \in MMs /\ o[c.t] # c.m /\ s.mm[o[c.t]] # None /\ s.mm[c.m] # None
    /\ c.t \in Tasks /\ c.c \in Tasks /\ o[c.c] \notin MMs

LEMMA InFork ==
    ASSUME VInv, At("dup")
    PROVE  Forking(vm, owner, call) /\ halted = "no"
  <1>1. /\ MemInv(vm) /\ OwnerInv(vm, owner, call) /\ call \in Calls
        /\ call # None /\ call.op = "dup" /\ halted = "no" /\ ForkInv(vm, owner, call)
    BY DEF VInv, At, StateInv, CallInv
  <1>2. call \in Fork
    BY <1>1, CallTypes
  <1>3. call.m \in MMs /\ call.t \in Tasks /\ call.c \in Tasks
    BY <1>2 DEF Fork
  <1>4. owner[call.t] \in MMs /\ owner[call.c] \notin MMs
    BY <1>1, NamesAssumption DEF ForkInv
  <1>5. owner[call.t] # call.m /\ vm.mm[owner[call.t]] # None /\ vm.mm[call.m] # None
    BY <1>1, <1>3, <1>4 DEF OwnerInv
  <1> QED
    BY <1>1, <1>2, <1>3, <1>4, <1>5 DEF Forking

LEMMA AreaTypes ==
    ASSUME NEW s, MemInv(s), NEW m \in MMs, s.mm[m] # None, NEW a \in s.mm[m].areas
    PROVE  /\ a \in VirtMemArea_t /\ a.start \in Int /\ a.end \in Int
           /\ a.start \in Pages /\ a.end \in 1 .. NPages /\ a.start < a.end
           /\ \A v : In(a, v) /\ v \in Int => v \in Pages
           /\ \A v : v \in a.start .. a.end - 1 <=> v \in Int /\ In(a, v)
  <1>1. a \in VirtMemArea_t /\ a.start < a.end
    BY DEF MemInv, MMInv, AreasOK, Memory, MemMap_t
  <1>2. a.start \in Pages /\ a.end \in 1 .. NPages
    BY <1>1 DEF VirtMemArea_t
  <1> QED
    BY <1>1, <1>2, PagesAssumption DEF Pages, In

\* A page lies in one area only.
LEMMA OneArea ==
    ASSUME NEW s, MemInv(s), NEW m \in MMs, s.mm[m] # None,
           NEW a \in s.mm[m].areas, NEW b \in s.mm[m].areas, NEW v \in Pages, In(a, v), In(b, v)
    PROVE  a = b
  <1>1. a # b => a.end <= b.start \/ b.end <= a.start
    BY DEF MemInv, MMInv, AreasOK
  <1>2. a.start \in Int /\ a.end \in Int /\ b.start \in Int /\ b.end \in Int /\ v \in Int
    BY AreaTypes, TableOfPage
  <1> QED
    BY <1>1, <1>2 DEF In

\* A page in use lies in an area and has its rights.
LEMMA PageArea ==
    ASSUME NEW s, MemInv(s), NEW m \in MMs, s.mm[m] # None, NEW v \in Pages, pte(s, m, v) # None
    PROVE  \E a \in s.mm[m].areas : In(a, v) /\ (pte(s, m, v).w <=> "W" \in a.flags)
  <1>1. s \in Memory /\ TablesOK(s.mm[m])
    BY DEF MemInv, MMInv
  <1>2. s.mm[m].table[v \div PT] # None /\ pte(s, m, v) = s.mm[m].pte[v]
    BY <1>1, PteType
  <1> QED
    BY <1>1, <1>2 DEF TablesOK

\* The last area that is left.
LEMMA LastArea ==
    ASSUME NEW as \in SUBSET VirtMemArea_t, as # {}
    PROVE  \E x \in as : \A y \in as : y.start <= x.start
  <1> DEFINE T == {NPages - x.start : x \in as}
  <1>1. ASSUME NEW x \in as PROVE x.start \in Int /\ NPages - x.start \in Nat /\ NPages \in Int
    <2>1. x.start \in Pages
      BY DEF VirtMemArea_t
    <2> QED
      BY <2>1, PagesAssumption DEF Pages
  <1>2. T \in SUBSET Nat /\ T # {}
    BY <1>1
  <1>3. PICK k \in T : \A j \in T : k <= j
    BY <1>2, LeastOf
  <1>4. PICK x \in as : k = NPages - x.start
    BY <1>3
  <1>5. ASSUME NEW y \in as PROVE y.start <= x.start
    <2>1. k <= NPages - y.start
      BY <1>3
    <2>2. x.start \in Int /\ y.start \in Int /\ NPages \in Int
      BY <1>1
    <2>3. NPages - x.start <= NPages - y.start
      BY <1>4, <2>1
    <2> QED
      BY <2>2, <2>3
  <1> QED
    BY <1>5

\* The areas of the parent do not overlap, so dup_mm() never finds that they do.
LEMMA DupInsertable ==
    ASSUME NEW s, NEW o, NEW c, Forking(s, o, c), NEW a \in c.left
    PROVE  /\ a \in VirtMemArea_t /\ a.start < a.end /\ insertable(s, c.m, a)
           /\ a \in s.mm[o[c.t]].areas
  <1> DEFINE p == o[c.t]
  <1>1. /\ MemInv(s) /\ p \in MMs /\ s.mm[p] # None /\ a \in s.mm[p].areas
        /\ s.mm[c.m].areas = s.mm[p].areas \ c.left
    BY DEF Forking, ForkInv
  <1>2. a \in VirtMemArea_t /\ a.start \in Int /\ a.end \in Int /\ a.start < a.end
    BY <1>1, AreaTypes
  <1>3. ASSUME NEW b \in s.mm[c.m].areas
        PROVE  /\ b.start \in Int /\ b.end \in Int /\ b.start < b.end
               /\ a.end <= b.start \/ b.end <= a.start
    <2>1. b \in s.mm[p].areas /\ b # a
      BY <1>1, <1>3
    <2>2. a.end <= b.start \/ b.end <= a.start
      BY <1>1, <2>1 DEF MemInv, MMInv, AreasOK
    <2> QED
      BY <1>1, <2>1, <2>2, AreaTypes
  <1>4. find_vma(s, c.m, a.start) = {}
    BY <1>2, <1>3 DEF find_vma
  <1>5. \A b \in s.mm[c.m].areas : b.start > a.start => a.end <= b.start
    BY <1>2, <1>3
  <1> QED
    BY <1>1, <1>2, <1>4, <1>5 DEF insertable

LEMMA DupStep ==
    ASSUME VInv, dup_mm
    PROVE  VInv'
  <1> DEFINE a == CHOOSE x \in call.left : \A y \in call.left : y.start <= x.start
             m == call.m
             p == owner[call.t]
             c == [call EXCEPT !.left = @ \ {a}, !.pages = a.start .. a.end - 1]
             new == vm.mm[m].areas
  <1>1. At("dup") /\ call.pages = {} /\ call.left # {}
    BY DEF dup_mm
  <1>2. Forking(vm, owner, call) /\ halted = "no"
    BY <1>1, InFork
  <1>3. call \in Fork /\ call.left \in SUBSET VirtMemArea_t
    BY <1>2 DEF Forking, Fork
  <1>4. a \in call.left
    BY <1>1, <1>3, LastArea
  <1>5. IF insertable(vm, call.m, a) THEN vm' = insert_vma(vm, call.m, a) /\ call' = c
                                          /\ owner' = owner /\ halted' = halted
                                     ELSE Halt("overlap")
    BY DEF dup_mm
  <1> HIDE DEF a
  <1>6. a \in VirtMemArea_t /\ a.start < a.end /\ insertable(vm, m, a) /\ a \in vm.mm[p].areas
    BY <1>2, <1>4, DupInsertable
  <1>7. vm' = insert_vma(vm, m, a) /\ call' = c /\ owner' = owner /\ halted' = halted
    BY <1>5, <1>6
  <1>8. /\ MemInv(vm) /\ OwnerInv(vm, owner, call) /\ ForkInv(vm, owner, call)
        /\ m \in MMs /\ p \in MMs /\ p # m /\ vm.mm[p] # None /\ vm.mm[m] # None
        /\ owner[call.c] = Dead
    BY <1>2 DEF Forking, ForkInv
  <1>9. /\ c \in Fork /\ c.op = "dup" /\ c.m = m /\ c.t = call.t /\ c.c = call.c
        /\ c.left = call.left \ {a} /\ c.pages = a.start .. a.end - 1
    <2>1. a.start \in Int /\ a.end \in Int /\ \A v : v \in a.start .. a.end - 1 => v \in Pages
      BY <1>6, <1>8, AreaTypes
    <2> QED
      BY <1>3, <2>1 DEF Fork
  <1>10. Respaced(vm, vm', m, new \cup {a}, vm.mm[m].ref)
    BY <1>6, <1>7, <1>8, InsertVma
  <1> HIDE DEF c
  <1>11. /\ MemInv(vm') /\ vm'.mm[m] # None /\ vm'.mm[m].areas = new \cup {a}
         /\ vm'.mm[m].ref = vm.mm[m].ref /\ vm'.data = vm.data
         /\ \A n \in MMs : n # m => vm'.mm[n] = vm.mm[n]
         /\ \A n \in MMs, v \in Pages : vm.mm[n] # None => pte(vm', n, v) = pte(vm, n, v)
    BY <1>10 DEF Respaced
  <1>12. /\ new = vm.mm[p].areas \ call.left /\ call.left \subseteq vm.mm[p].areas
         /\ \A v \in Pages : (\E b \in new : In(b, v)) => SamePage(vm, m, p, v)
    BY <1>1, <1>8 DEF ForkInv
  <1>13. ForkInv(vm', owner', c)
    <2>1. c.left \subseteq vm'.mm[p].areas /\ vm'.mm[m].areas = vm'.mm[p].areas \ c.left
      BY <1>4, <1>8, <1>9, <1>11, <1>12
    <2>2. ASSUME NEW v \in c.pages PROVE (\E b \in vm'.mm[m].areas : In(b, v)) /\ pte(vm', m, v) = None
      <3>1. v \in Pages /\ In(a, v)
        BY <1>6, <1>8, <1>9, AreaTypes
      <3>2. ASSUME pte(vm, m, v) # None PROVE FALSE
        <4>1. PICK b \in new : In(b, v)
          BY <1>8, <3>1, <3>2, PageArea
        <4>2. b \in vm.mm[p].areas /\ b # a
          BY <1>4, <1>12
        <4> QED
          BY <1>6, <1>8, <3>1, <4>1, <4>2, OneArea
      <3> QED
        BY <1>8, <1>11, <3>1, <3>2
    <2>3. ASSUME NEW v \in Pages \ c.pages, NEW b \in vm'.mm[m].areas, In(b, v)
          PROVE  SamePage(vm', m, p, v)
      <3>1. b # a
        BY <1>6, <1>8, <1>9, <2>3, AreaTypes, TableOfPage
      <3>2. SamePage(vm, m, p, v)
        BY <1>11, <1>12, <2>3, <3>1
      <3> QED
        BY <1>8, <1>11, <3>2 DEF SamePage
    <2> QED
      BY <1>7, <1>8, <1>9, <2>1, <2>2, <2>3 DEF ForkInv
  <1>14. c \in Calls /\ call \in Calls /\ c # None /\ call # None
    BY <1>3, <1>9, NoneIs DEF Calls
  <1>15. OwnerInv(vm', owner, c)
    <2>1. SameSpaces(vm, vm')
      BY <1>8, <1>11 DEF SameSpaces
    <2> QED
      BY <1>8, <1>9, <1>14, <2>1, OwnersKept
  <1>16. CallInv(vm', owner', c)
    BY <1>9, <1>13 DEF CallInv
  <1>17. StateInv(vm', owner', call')
    BY <1>7, <1>11, <1>14, <1>15, <1>16 DEF StateInv
  <1> QED
    BY <1>2, <1>7, <1>17, Goes

LEMMA ForkFails ==
    ASSUME VInv, At("dup"), Fork_fails
    PROVE  VInv'
  <1>1. Forking(vm, owner, call) /\ halted = "no"
    BY InFork
  <1>2. /\ MemInv(vm) /\ OwnerInv(vm, owner, call) /\ call \in Calls /\ call # None
        /\ call.m \in MMs /\ vm.mm[call.m] # None /\ call.c \in Tasks /\ owner[call.c] \notin MMs
    BY <1>1 DEF Forking, Calls
  <1>3. vm' = destroyed(vm, call.m) /\ call' = None /\ owner' = owner /\ halted' = halted
    BY DEF Fork_fails
  <1>4. Gone(vm, vm', call.m)
    BY <1>2, <1>3, Destroyed
  <1>5. OwnerInv(vm', owner, None)
    BY <1>2, <1>4, OwnersFailed
  <1>6. StateInv(vm', owner', call')
    BY <1>3, <1>4, <1>5 DEF StateInv, CallInv, Calls, Gone
  <1> QED
    BY <1>1, <1>3, <1>6, Goes

\* Fewer pages are left, and the ones that are not are the same in both.
LEMMA PagesDone ==
    ASSUME VInv, At("dup"), NEW ps \in SUBSET call.pages,
           vm' = vm, owner' = owner, halted' = halted, call' = [call EXCEPT !.pages = ps],
           \A v \in call.pages \ ps : pte(vm, owner[call.t], v) = None
    PROVE  VInv'
  <1> DEFINE c == [call EXCEPT !.pages = ps]
  <1>1. Forking(vm, owner, call) /\ halted = "no"
    BY InFork
  <1>2. /\ MemInv(vm) /\ OwnerInv(vm, owner, call) /\ call \in Fork /\ ForkInv(vm, owner, call)
    BY <1>1 DEF Forking
  <1>3. /\ c \in Fork /\ c.op = "dup" /\ c.m = call.m /\ c.t = call.t /\ c.c = call.c
        /\ c.left = call.left /\ c.pages = ps
    BY <1>2 DEF Fork
  <1> HIDE DEF c
  <1>4. ForkInv(vm, owner, c)
    <2>1. ASSUME NEW v \in Pages \ ps, \E a \in vm.mm[c.m].areas : In(a, v)
          PROVE  SamePage(vm, c.m, owner[c.t], v)
      <3>1. CASE v \in call.pages
        BY <1>2, <1>3, <3>1 DEF ForkInv, SamePage
      <3>2. CASE v \notin call.pages
        BY <1>2, <1>3, <2>1, <3>2 DEF ForkInv
      <3> QED
        BY <3>1, <3>2
    <2> QED
      BY <1>2, <1>3, <2>1 DEF ForkInv
  <1>5. c \in Calls /\ call \in Calls /\ c # None /\ call # None
    BY <1>2, <1>3, NoneIs DEF Calls
  <1>6. OwnerInv(vm, owner, c)
    <2>1. SameSpaces(vm, vm)
      BY DEF SameSpaces
    <2> QED
      BY <1>2, <1>3, <1>5, <2>1, OwnersKept
  <1>7. CallInv(vm, owner, c)
    BY <1>3, <1>4 DEF CallInv
  <1>8. call' = c
    BY DEF c
  <1>9. StateInv(vm', owner', call')
    BY <1>2, <1>5, <1>6, <1>7, <1>8 DEF StateInv
  <1> QED
    BY <1>1, <1>9, Goes

LEMMA FewFree ==
    ASSUME NEW T, NEW x, T \subseteq {x}
    PROVE  Cardinality(T) <= 1
  <1>1. IsFiniteSet({x}) /\ Cardinality({x}) = 1
    BY FS_Singleton
  <1> QED
    BY <1>1, FS_Subset

\* A page of the parent is copied.
LEMMA CopyOne ==
    ASSUME VInv, At("dup"), NEW v \in call.pages,
           NEW e, e = pte(vm, owner[call.t], v), e # None,
           NEW g, g = get_pte(vm, call.m, v), canGet(vm, call.m, v), g.free # {},
           vm' = copyPage(g, v, e), call' = [call EXCEPT !.pages = @ \ {v}],
           owner' = owner, halted' = halted
    PROVE  VInv'
  <1> DEFINE m == call.m
             p == owner[call.t]
             c == [call EXCEPT !.pages = @ \ {v}]
             B == vm.data[e.page]
             q == pgdir_alloc_page(g, m, v, e.w)
             new == vm.mm[m].areas
  <1>1. Forking(vm, owner, call) /\ halted = "no"
    BY InFork
  <1>2. /\ MemInv(vm) /\ OwnerInv(vm, owner, call) /\ call \in Fork /\ ForkInv(vm, owner, call)
        /\ m \in MMs /\ p \in MMs /\ p # m /\ vm.mm[p] # None /\ vm.mm[m] # None
    BY <1>1 DEF Forking
  <1>3. call.pages \subseteq Pages /\ v \in Pages
    BY <1>2 DEF Fork
  <1>4. /\ new \subseteq vm.mm[p].areas /\ pte(vm, m, v) = None
    BY <1>2 DEF ForkInv
  <1>5. PICK a \in new : In(a, v)
    BY <1>2 DEF ForkInv
  <1>6. MemInv(g) /\ Gets(vm, g, m, v)
    BY <1>2, <1>3, <1>5, GetMem
  <1>7. /\ g.mm[m] # None /\ \A n \in MMs : n # m => g.mm[n] = vm.mm[n]
        /\ g.mm[m].areas = new /\ g.mm[m].ref = vm.mm[m].ref
        /\ g.data = vm.data /\ g.free \subseteq vm.free
        /\ \A u \in Pages : pte(g, m, u) = pte(vm, m, u)
        /\ hasTable(g, m, v)
    BY <1>6 DEF Gets
  <1>8. canAlloc(g, m, v)
    <2>1. g \in Memory
      BY <1>6 DEF MemInv
    <2>2. allocPhyPages(g).mm = g.mm
      BY <2>1 DEF allocPhyPages, Memory
    <2> QED
      BY <1>7, <2>2 DEF canAlloc, canGet, hasTable
  <1>9. e.w \in BOOLEAN /\ e.page \in Frames
    <2>1. vm \in Memory
      BY <1>2 DEF MemInv
    <2>2. e \in PTE_t
      BY <1>2, <1>3, <2>1, PteType
    <2> QED
      BY <2>2 DEF PTE_t
  <1>10. e.w <=> "W" \in a.flags
    <2>1. PICK b \in vm.mm[p].areas : In(b, v) /\ (e.w <=> "W" \in b.flags)
      BY <1>2, <1>3, PageArea
    <2>2. a = b
      BY <1>2, <1>3, <1>4, <1>5, <2>1, OneArea
    <2> QED
      BY <2>1, <2>2
  <1>11. B \in [0 .. PG - 1 -> Byte]
    <2>1. vm \in Memory
      BY <1>2 DEF MemInv
    <2> QED
      BY <1>9, <2>1 DEF Memory
  <1>12. vm' = [q EXCEPT !.data[first(g)] = B]
    BY DEF copyPage, pgdir_alloc_page
  <1> HIDE DEF B, q
  <1>13. NewPageIn(g, vm', m, v, e.w, B)
    <2>1. \E b \in g.mm[m].areas : In(b, v) /\ (e.w <=> "W" \in b.flags)
      BY <1>5, <1>7, <1>10
    <2>2. pte(g, m, v) = None /\ q = pgdir_alloc_page(g, m, v, e.w)
      BY <1>3, <1>4, <1>7 DEF q
    <2> QED
      BY <1>2, <1>3, <1>6, <1>7, <1>8, <1>9, <1>11, <1>12, <2>1, <2>2, NewPage
  <1>14. /\ c \in Fork /\ c.op = "dup" /\ c.m = m /\ c.t = call.t /\ c.c = call.c
         /\ c.left = call.left /\ c.pages = call.pages \ {v} /\ call' = c
    BY <1>2 DEF Fork
  <1> HIDE DEF c
  <1>15. /\ MemInv(vm') /\ vm'.mm[m] # None /\ \A n \in MMs : n # m => vm'.mm[n] = vm.mm[n]
         /\ vm'.mm[m].areas = new /\ vm'.mm[m].ref = vm.mm[m].ref
         /\ pte(vm', m, v) # None /\ pte(vm', m, v).w = e.w /\ vm'.data[pte(vm', m, v).page] = B
         /\ \A u \in Pages : u # v => pte(vm', m, u) = pte(vm, m, u)
         /\ \A f \in Frames : f \notin vm.free => vm'.data[f] = vm.data[f]
    BY <1>7, <1>13 DEF NewPageIn
  <1>16. \A u \in Pages : pte(vm', p, u) = pte(vm, p, u)
    BY <1>2, <1>15 DEF pte, hasTable
  <1>17. ForkInv(vm', owner, c)
    <2>1. ASSUME NEW u \in Pages, \E b \in new : In(b, u), u \notin call.pages
          PROVE  SamePage(vm', m, p, u)
      <3>1. SamePage(vm, m, p, u) /\ u # v
        BY <1>2, <2>1 DEF ForkInv
      <3>2. pte(vm', m, u) = pte(vm, m, u) /\ pte(vm', p, u) = pte(vm, p, u)
        BY <1>15, <1>16, <3>1
      <3>3. ASSUME pte(vm, m, u) # None
            PROVE  vm'.data[pte(vm, m, u).page] = vm'.data[pte(vm, p, u).page]
        <4>1. pte(vm, p, u) # None
          BY <3>1, <3>3 DEF SamePage
        <4>2. pte(vm, m, u).page \in Frames /\ pte(vm, m, u).page \notin vm.free
          BY <1>2, <3>3, PageFrame
        <4>3. pte(vm, p, u).page \in Frames /\ pte(vm, p, u).page \notin vm.free
          BY <1>2, <4>1, PageFrame
        <4> QED
          BY <1>15, <3>1, <3>3, <4>2, <4>3 DEF SamePage
      <3> QED
        BY <3>1, <3>2, <3>3 DEF SamePage
    <2>2. SamePage(vm', m, p, v)
      <3>1. pte(vm', p, v) = e /\ e.page \in Frames /\ e.page \notin vm.free
        BY <1>2, <1>3, <1>16, PageFrame
      <3>2. vm'.data[e.page] = B
        BY <1>15, <3>1 DEF B
      <3> QED
        BY <1>15, <3>1, <3>2 DEF SamePage
    <2>3. \A u \in Pages \ c.pages : (\E b \in new : In(b, u)) => SamePage(vm', m, p, u)
      BY <1>14, <2>1, <2>2
    <2>4. \A u \in c.pages : (\E b \in new : In(b, u)) /\ pte(vm', m, u) = None
      BY <1>2, <1>3, <1>14, <1>15 DEF ForkInv
    <2>5. vm'.mm[p] = vm.mm[p] /\ vm'.mm[m].areas = new
      BY <1>2, <1>15
    <2> QED
      BY <1>2, <1>14, <2>3, <2>4, <2>5 DEF ForkInv
  <1>18. c \in Calls /\ call \in Calls /\ c # None /\ call # None
    BY <1>2, <1>14, NoneIs DEF Calls
  <1>19. OwnerInv(vm', owner, c)
    <2>1. SameSpaces(vm, vm')
      BY <1>2, <1>15 DEF SameSpaces
    <2>2. OwnerInv(vm, owner, call) /\ c.m = call.m
      BY <1>2, <1>14
    <2> QED
      BY <1>18, <2>1, <2>2, OwnersKept
  <1>20. CallInv(vm', owner, c)
    BY <1>14, <1>17 DEF CallInv
  <1>21. StateInv(vm', owner', call')
    BY <1>14, <1>15, <1>18, <1>19, <1>20 DEF StateInv
  <1> QED
    BY <1>1, <1>21, Goes

LEMMA CopyStep ==
    ASSUME VInv, copy_range
    PROVE  VInv'
  <1> DEFINE v == Min(call.pages)
             p == owner[call.t]
             m == call.m
             e == pte(vm, p, v)
             g == get_pte(vm, m, v)
             done == [call EXCEPT !.pages = @ \ {v}]
  <1>1. At("dup") /\ call.pages # {}
    BY DEF copy_range
  <1>2. Forking(vm, owner, call) /\ halted = "no"
    BY <1>1, InFork
  <1>3. /\ MemInv(vm) /\ call \in Fork /\ m \in MMs /\ p \in MMs /\ vm.mm[p] # None /\ vm.mm[m] # None
    BY <1>2 DEF Forking
  <1>4. v \in call.pages /\ v \in Pages /\ call.pages \in SUBSET Pages
    <2>1. call.pages \in SUBSET Nat /\ call.pages \subseteq Pages
      BY <1>3, TableOfPage DEF Fork
    <2> QED
      BY <1>1, <2>1, MinOf
  <1> HIDE DEF v
  <1>5. CASE /\ ~hasTable(vm, p, v) /\ call' = [call EXCEPT !.pages = {u \in @ : u \div PT # v \div PT}]
             /\ vm' = vm /\ owner' = owner /\ halted' = halted
    <2> DEFINE ps == {u \in call.pages : u \div PT # v \div PT}
    <2>1. ps \in SUBSET call.pages /\ call' = [call EXCEPT !.pages = ps]
      BY <1>5
    <2>2. \A u \in call.pages \ ps : pte(vm, p, u) = None
      BY <1>5 DEF pte, hasTable
    <2> HIDE DEF ps
    <2> QED
      BY <1>1, <1>5, <2>1, <2>2, PagesDone
  <1>6. CASE /\ hasTable(vm, p, v) /\ e = None
             /\ call' = done /\ vm' = vm /\ owner' = owner /\ halted' = halted
    <2> DEFINE ps == call.pages \ {v}
    <2>1. ps \in SUBSET call.pages /\ call' = [call EXCEPT !.pages = ps]
      BY <1>6
    <2>2. \A u \in call.pages \ ps : pte(vm, p, u) = None
      BY <1>6
    <2>3. vm' = vm /\ owner' = owner /\ halted' = halted
      BY <1>6
    <2> HIDE DEF ps
    <2> QED
      BY <1>1, <2>1, <2>2, <2>3, PagesDone
  <1>7. CASE Fork_fails
    BY <1>1, <1>7, ForkFails
  <1>8. CASE e # None /\ canGet(vm, m, v) /\ g.free = {} /\ Halt("no_memory")
    <2>1. vm \in Memory
      BY <1>3 DEF MemInv
    <2>2. vm.free \subseteq {first(vm)}
      <3>1. CASE hasTable(vm, m, v)
        BY <1>8, <3>1 DEF get_pte
      <3>2. CASE ~hasTable(vm, m, v)
        <4>1. g.free = vm.free \ {first(vm)}
          BY <2>1, <3>2 DEF get_pte, allocPhyPages, Memory
        <4> QED
          BY <1>8, <4>1
      <3> QED
        BY <3>1, <3>2
    <2>3. Cardinality(vm.free) <= 1
      BY <2>2, FewFree
    <2>4. PanicsExplained'
      BY <1>8, <2>3 DEF PanicsExplained, Halt
    <2> QED
      BY <1>8, <2>4, Halts
  <1>9. CASE /\ e # None /\ canGet(vm, m, v) /\ g.free # {}
             /\ vm' = copyPage(g, v, e) /\ call' = done /\ owner' = owner /\ halted' = halted
    <2> HIDE DEF e, g
    <2>1. e = pte(vm, owner[call.t], v) /\ g = get_pte(vm, call.m, v)
      BY DEF e, g
    <2> QED
      BY <1>1, <1>4, <1>9, <2>1, CopyOne
  <1> QED
    BY <1>5, <1>6, <1>7, <1>8, <1>9 DEF copy_range, v

LEMMA ForkEndsStep ==
    ASSUME VInv, ForkEnds
    PROVE  VInv'
  <1>1. /\ At("dup") /\ vm' = [vm EXCEPT !.mm[call.m].ref = @ + 1]
        /\ owner' = [owner EXCEPT ![call.c] = call.m] /\ call' = None /\ halted' = halted
    BY DEF ForkEnds
  <1>2. Forking(vm, owner, call) /\ halted = "no"
    BY <1>1, InFork
  <1>3. /\ MemInv(vm) /\ OwnerInv(vm, owner, call) /\ call \in Calls /\ call # None
        /\ call.m \in MMs /\ vm.mm[call.m] # None /\ call.c \in Tasks /\ owner[call.c] \notin MMs
    BY <1>2 DEF Forking, Calls
  <1>4. vm.mm[call.m].ref = 0
    BY <1>3 DEF OwnerInv
  <1>5. vm' = [vm EXCEPT !.mm[call.m].ref = 1]
    BY <1>1, <1>4
  <1>6. Respaced(vm, vm', call.m, vm.mm[call.m].areas, 1)
    BY <1>3, <1>5, NewRef
  <1>7. OwnerInv(vm', owner', None)
    BY <1>1, <1>3, <1>6, OwnersDone
  <1>8. StateInv(vm', owner', call')
    BY <1>1, <1>6, <1>7 DEF StateInv, CallInv, Calls, Respaced
  <1> QED
    BY <1>1, <1>2, <1>8, Goes

LEMMA IdleIs ==
    ASSUME VInv, Idle
    PROVE  MemInv(vm) /\ OwnerInv(vm, owner, None) /\ call = None /\ halted = "no"
  BY DEF VInv, Idle, StateInv

LEMMA ForkThreadStep ==
    ASSUME VInv, NEW c \in Tasks, ForkThread(c)
    PROVE  VInv'
  <1>1. /\ Idle /\ owner[c] = Dead /\ owner' = [owner EXCEPT ![c] = None]
        /\ vm' = vm /\ call' = call /\ halted' = halted
    BY DEF ForkThread
  <1>2. MemInv(vm) /\ OwnerInv(vm, owner, None) /\ call = None /\ halted = "no"
    BY <1>1, IdleIs
  <1>3. owner \in [Tasks -> MMs \cup {None, Dead}] /\ owner[c] \notin MMs /\ None \notin MMs
    BY <1>1, <1>2, NamesAssumption DEF OwnerInv
  <1>4. /\ owner' \in [Tasks -> MMs \cup {None, Dead}]
        /\ \A u \in Tasks, m \in MMs : owner'[u] = m <=> owner[u] = m
    BY <1>1, <1>3
  <1>5. OwnerInv(vm, owner', None)
    BY <1>2, <1>4 DEF OwnerInv
  <1>6. StateInv(vm', owner', call')
    BY <1>1, <1>2, <1>5 DEF StateInv, CallInv, Calls
  <1> QED
    BY <1>1, <1>2, <1>6, Goes

LEMMA CopyMMStep ==
    ASSUME VInv, NEW t \in Tasks, NEW c \in Tasks, copy_mm(t, c)
    PROVE  VInv'
  <1> DEFINE m == newMM(vm)
             p == owner[t]
             d == [op |-> "dup", t |-> t, c |-> c, m |-> m, left |-> vm.mm[p].areas, pages |-> {}]
  <1>1. /\ Idle /\ p \in MMs /\ owner[c] = Dead /\ vm.free # {} /\ vm' = created(vm)
        /\ call' = d /\ owner' = owner /\ halted' = halted
    BY DEF copy_mm
  <1>2. MemInv(vm) /\ OwnerInv(vm, owner, None) /\ call = None /\ halted = "no"
    BY <1>1, IdleIs
  <1>3. m \in MMs /\ vm.mm[m] = None
    BY <1>2, NewMM DEF OwnerInv
  <1>4. Begun(vm, vm', m)
    BY <1>1, <1>2, <1>3, Created
  <1>5. vm.mm[p] # None /\ vm.mm[p].areas \in SUBSET VirtMemArea_t
    BY <1>1, <1>2 DEF OwnerInv, MemInv, Memory, MemMap_t
  <1> HIDE DEF m
  <1>6. /\ d \in Fork /\ d.op = "dup" /\ d.m = m /\ d.t = t /\ d.c = c
        /\ d.left = vm.mm[p].areas /\ d.pages = {}
    BY <1>3, <1>5 DEF Fork
  <1> HIDE DEF d
  <1>7. d \in Calls /\ d # None
    BY <1>6, NoneIs DEF Calls
  <1>8. OwnerInv(vm', owner, d)
    BY <1>2, <1>3, <1>4, <1>6, <1>7, OwnersBegin
  <1>9. ForkInv(vm', owner, d)
    <2>1. vm'.mm[m].areas = {} /\ vm'.mm[p] = vm.mm[p]
      BY <1>1, <1>3, <1>4, <1>5 DEF Begun
    <2> QED
      BY <1>1, <1>6, <2>1 DEF ForkInv
  <1>10. CallInv(vm', owner, d)
    BY <1>6, <1>9 DEF CallInv
  <1>11. StateInv(vm', owner', call')
    BY <1>1, <1>4, <1>7, <1>8, <1>10 DEF StateInv, Begun
  <1> QED
    BY <1>1, <1>2, <1>11, Goes

----------------------------------------------------------------------------
(* exit, and the beginning and the failures of exec                        *)

\* A task dies, or stays without an address space.
LEMMA Leaves ==
    ASSUME NEW s, MemInv(s), OwnerInv(s, owner, None), NEW t \in Tasks, NEW x \in {None, Dead},
           owner[t] # Dead, NEW r, r = released(s, owner[t])
    PROVE  /\ MemInv(r) /\ OwnerInv(r, [owner EXCEPT ![t] = x], None)
           /\ \A m \in MMs : r.mm[m] # None => s.mm[m] # None
  <1>1. CASE owner[t] \in MMs
    <2>1. s.mm[owner[t]] # None /\ s.mm[owner[t]].ref = 1
      BY <1>1 DEF OwnerInv
    <2>2. Gone(s, r, owner[t])
      BY <1>1, <2>1, Released
    <2>3. OwnerInv(r, [owner EXCEPT ![t] = x], None)
      BY <1>1, <2>2, OwnersLeave
    <2> QED
      BY <2>2, <2>3 DEF Gone
  <1>2. CASE owner[t] \notin MMs
    <2>1. owner \in [Tasks -> MMs \cup {None, Dead}] /\ owner[t] = None /\ x \notin MMs
      BY <1>2, NamesAssumption DEF OwnerInv
    <2>2. r = s
      BY <2>1 DEF released
    <2> DEFINE w == [owner EXCEPT ![t] = x]
    <2>3. /\ w \in [Tasks -> MMs \cup {None, Dead}]
          /\ \A u \in Tasks, m \in MMs : w[u] = m <=> owner[u] = m
      BY <1>2, <2>1
    <2> HIDE DEF w
    <2>4. OwnerInv(r, w, None)
      BY <2>2, <2>3 DEF OwnerInv
    <2> QED
      BY <2>2, <2>4 DEF w
  <1> QED
    BY <1>1, <1>2

LEMMA ExitStep ==
    ASSUME VInv, NEW t \in Tasks, do_exit(t)
    PROVE  VInv'
  <1>1. /\ Idle /\ owner[t] \in MMs /\ vm' = released(vm, owner[t])
        /\ owner' = [owner EXCEPT ![t] = Dead] /\ call' = call /\ halted' = halted
    BY DEF do_exit
  <1>2. MemInv(vm) /\ OwnerInv(vm, owner, None) /\ call = None /\ halted = "no"
    BY <1>1, IdleIs
  <1>3. owner[t] # Dead
    BY <1>1, NamesAssumption
  <1>4. MemInv(vm') /\ OwnerInv(vm', owner', None)
    BY <1>1, <1>2, <1>3, Leaves
  <1>5. StateInv(vm', owner', call')
    BY <1>1, <1>2, <1>4 DEF StateInv, CallInv, Calls
  <1> QED
    BY <1>1, <1>2, <1>5, Goes

LEMMA ExecveStep ==
    ASSUME VInv, NEW t \in Tasks, NEW p \in Programs, do_execve(t, p)
    PROVE  VInv'
  <1> DEFINE s == released(vm, owner[t])
             m == newMM(s)
             d == [op |-> "segment", t |-> t, m |-> m, left |-> p, prog |-> p, err |-> "no"]
  <1>1. /\ Idle /\ owner[t] # Dead /\ halted' = halted
        /\ \/ /\ s.free # {} /\ vm' = created(s) /\ owner' = [owner EXCEPT ![t] = None]
              /\ call' = d
           \/ /\ s.free = {} /\ vm' = s /\ owner' = [owner EXCEPT ![t] = Dead] /\ call' = call
    BY DEF do_execve
  <1>2. MemInv(vm) /\ OwnerInv(vm, owner, None) /\ call = None /\ halted = "no"
    BY <1>1, IdleIs
  <1>3. ASSUME NEW x \in {None, Dead}
        PROVE  /\ MemInv(s) /\ OwnerInv(s, [owner EXCEPT ![t] = x], None)
               /\ \A n \in MMs : s.mm[n] # None => vm.mm[n] # None
    BY <1>1, <1>2, Leaves
  <1> HIDE DEF s
  <1>4. CASE s.free = {} /\ vm' = s /\ owner' = [owner EXCEPT ![t] = Dead] /\ call' = call
    <2>1. MemInv(vm') /\ OwnerInv(vm', owner', None)
      BY <1>3, <1>4
    <2>2. StateInv(vm', owner', call')
      BY <1>2, <1>4, <2>1 DEF StateInv, CallInv, Calls
    <2> QED
      BY <1>1, <1>2, <2>2, Goes
  <1>5. CASE /\ s.free # {} /\ vm' = created(s) /\ owner' = [owner EXCEPT ![t] = None]
             /\ call' = d
    <2>1. /\ MemInv(s) /\ OwnerInv(s, owner', None)
          /\ \A n \in MMs : s.mm[n] # None => \E u \in Tasks : owner[u] = n
      BY <1>2, <1>3, <1>5 DEF OwnerInv
    <2>2. m \in MMs /\ s.mm[m] = None
      BY <1>2, <2>1, NewMM DEF OwnerInv
    <2>3. Begun(s, vm', m)
      BY <1>5, <2>1, <2>2, Created
    <2> HIDE DEF m
    <2>4. p \in Seq(Segment)
      BY ProgramsAssumption
    <2>5. d \in Reading /\ d.op = "segment" /\ d.m = m /\ d.t = t /\ d.left = p /\ d.prog = p
          /\ d.err = "no"
      BY <2>2, <2>4 DEF Reading, Errors
    <2> HIDE DEF d
    <2>6. d \in Calls /\ d # None
      BY <2>5, NoneIs DEF Calls
    <2>7. OwnerInv(vm', owner', d)
      BY <2>1, <2>2, <2>3, <2>5, <2>6, OwnersBegin
    <2>8. Len(p) \in Nat /\ InFile(p) \subseteq 1 .. Len(p)
      BY <2>4 DEF InFile
    <2>9. Passed(d) = 0 /\ Rest(d.prog, d.left)
      BY <2>5, <2>8 DEF Passed, Rest
    <2>10. LoadedTo(vm', m, p, 0)
      BY <2>8 DEF LoadedTo
    <2>11. AreasFrom(vm', m, p, 0)
      BY <2>3 DEF AreasFrom, Begun
    <2>12. ReadInv(vm', d)
      BY <2>5, <2>9, <2>10, <2>11 DEF ReadInv, Sure
    <2>13. owner'[t] = None
      BY <1>2, <1>5 DEF OwnerInv
    <2>14. CallInv(vm', owner', d)
      BY <2>5, <2>12, <2>13 DEF CallInv
    <2>15. StateInv(vm', owner', call')
      BY <1>5, <2>3, <2>6, <2>7, <2>14 DEF StateInv, Begun
    <2> QED
      BY <1>1, <1>2, <2>15, Goes
  <1> QED
    BY <1>1, <1>4, <1>5

\* What is known in the middle of an exec.
Execing(s, o, c) ==
    /\ MemInv(s) /\ OwnerInv(s, o, c) /\ c \in Calls /\ c # None /\ CallInv(s, o, c)
    /\ c.m \in MMs /\ s.mm[c.m] # None /\ c.t \in Tasks /\ o[c.t] = None /\ o[c.t] \notin MMs

LEMMA InExec ==
    ASSUME VInv, NEW op \in {"segment", "file", "zero", "stack"}, At(op)
    PROVE  Execing(vm, owner, call) /\ halted = "no" /\ call.op = op
  <1>1. /\ MemInv(vm) /\ OwnerInv(vm, owner, call) /\ call \in Calls /\ call # None
        /\ CallInv(vm, owner, call) /\ call.op = op /\ halted = "no" /\ owner[call.t] = None
    BY DEF VInv, At, StateInv, CallInv
  <1>2. call.m \in MMs /\ call.t \in Tasks
    BY <1>1, CallTypes
  <1> QED
    BY <1>1, <1>2, NamesAssumption DEF Execing, OwnerInv

LEMMA ExecFails ==
    ASSUME VInv, NEW op \in {"segment", "file", "zero", "stack"}, At(op), Exec_fails
    PROVE  VInv'
  <1>1. Execing(vm, owner, call) /\ halted = "no"
    BY InExec
  <1>2. /\ MemInv(vm) /\ OwnerInv(vm, owner, call) /\ call \in Calls /\ call # None
        /\ call.m \in MMs /\ vm.mm[call.m] # None /\ call.t \in Tasks /\ owner[call.t] \notin MMs
    BY <1>1 DEF Execing
  <1>3. /\ vm' = destroyed(vm, call.m) /\ call' = None /\ halted' = halted
        /\ owner' = [owner EXCEPT ![call.t] = Dead]
    BY DEF Exec_fails
  <1>4. Gone(vm, vm', call.m)
    BY <1>2, <1>3, Destroyed
  <1>5. OwnerInv(vm', owner', None)
    BY <1>2, <1>3, <1>4, OwnersFailed
  <1>6. StateInv(vm', owner', call')
    BY <1>3, <1>4, <1>5 DEF StateInv, CallInv, Calls, Gone
  <1> QED
    BY <1>1, <1>3, <1>6, Goes

----------------------------------------------------------------------------
(* Loading a program.                                                      *)

LEMMA AreaBounds ==
    ASSUME NEW h \in Segment
    PROVE  /\ AreaOf(h).start = h.va \div PG /\ AreaOf(h).end = (h.va + h.memsz + PG - 1) \div PG
           /\ AreaOf(h).flags = h.flags /\ h.va \in Nat /\ h.memsz \in Nat /\ h.filesz \in Nat
           /\ PG \in Nat \ {0} /\ AreaOf(h).start \in Nat /\ AreaOf(h).end \in Nat
  <1>1. h.va \in Nat /\ h.memsz \in Nat /\ h.filesz \in Nat /\ PG \in Nat \ {0}
    BY PagesAssumption DEF Segment
  <1>2. /\ AreaOf(h).start = h.va \div PG /\ AreaOf(h).end = (h.va + h.memsz + PG - 1) \div PG
        /\ AreaOf(h).flags = h.flags
    BY DEF AreaOf, Area
  <1>3. h.va \in Nat /\ h.va + h.memsz + PG - 1 \in Nat
    BY <1>1
  <1> QED
    BY <1>1, <1>2, <1>3, DivMod

\* Where the bytes of a segment are.
LEMMA ByteArea ==
    ASSUME NEW h \in Segment, NEW x \in Nat, h.va <= x, x < h.va + h.memsz
    PROVE  x \div PG \in Nat /\ In(AreaOf(h), x \div PG)
  <1>1. /\ AreaOf(h).start = h.va \div PG /\ AreaOf(h).end = (h.va + h.memsz + PG - 1) \div PG
        /\ h.va \in Nat /\ h.memsz \in Nat /\ PG \in Nat \ {0}
    BY AreaBounds
  <1>2. h.va \div PG <= x \div PG /\ x \div PG \in Nat
    BY <1>1, DivMonotone, DivMod
  <1>3. (x + PG) \div PG = (x \div PG) + 1
    BY <1>1, DivNext
  <1>4. (x + PG) \div PG <= (h.va + h.memsz + PG - 1) \div PG
    <2>1. x + PG \in Nat /\ h.va + h.memsz + PG - 1 \in Nat /\ x + PG <= h.va + h.memsz + PG - 1
      BY <1>1
    <2> QED
      BY <1>1, <2>1, DivMonotone
  <1>5. (h.va + h.memsz + PG - 1) \div PG \in Nat
    <2>1. h.va + h.memsz + PG - 1 \in Nat
      BY <1>1
    <2> QED
      BY <1>1, <2>1, DivMod
  <1>6. x \div PG < (h.va + h.memsz + PG - 1) \div PG
    BY <1>2, <1>3, <1>4, <1>5
  <1> QED
    BY <1>1, <1>2, <1>6 DEF In

\* A byte stays where it is as long as its page does.
LEMMA ByteKept ==
    ASSUME NEW s, NEW r, NEW m, NEW h, NEW k, NEW err, ByteOK(s, m, h, k, err),
           SameAt(s, r, m, (h.va + k) \div PG)
    PROVE  ByteOK(r, m, h, k, err)
  BY DEF ByteOK, SameAt

\* And so do whole segments.
LEMMA LoadedKept ==
    ASSUME NEW s, MemInv(s), NEW r, NEW m \in MMs, s.mm[m] # None,
           NEW p \in Seq(Segment), NEW n, LoadedTo(s, m, p, n),
           s.mm[m].areas \subseteq r.mm[m].areas,
           \A i \in InFile(p) : i <= n =>
               \A u \in Pages : In(AreaOf(p[i]), u) => SameAt(s, r, m, u)
    PROVE  LoadedTo(r, m, p, n)
  <1>1. SUFFICES ASSUME NEW i \in InFile(p), i <= n
                 PROVE  /\ AreaOf(p[i]) \in r.mm[m].areas
                        /\ \A k \in 0 .. p[i].memsz - 1 : ByteOK(r, m, p[i], k, "no")
    BY DEF LoadedTo
  <1>2. AreaOf(p[i]) \in s.mm[m].areas
    BY <1>1 DEF LoadedTo
  <1>3. p[i] \in Segment
    BY DEF InFile
  <1>4. ASSUME NEW k \in 0 .. p[i].memsz - 1 PROVE ByteOK(r, m, p[i], k, "no")
    <2> DEFINE x == p[i].va + k
    <2>1. x \in Nat /\ p[i].va <= x /\ x < p[i].va + p[i].memsz
      BY <1>3, AreaBounds
    <2>2. x \div PG \in Nat /\ In(AreaOf(p[i]), x \div PG)
      BY <1>3, <2>1, ByteArea
    <2>3. x \div PG \in Pages
      BY <1>2, <2>2, AreaTypes
    <2>4. SameAt(s, r, m, x \div PG)
      BY <1>1, <2>2, <2>3
    <2>5. ByteOK(s, m, p[i], k, "no")
      BY <1>1 DEF LoadedTo
    <2> QED
      BY <2>4, <2>5, ByteKept
  <1> QED
    BY <1>2, <1>4

\* A new area has no pages.
LEMMA FreshArea ==
    ASSUME NEW s, MemInv(s), NEW m \in MMs, s.mm[m] # None, NEW a, a \notin s.mm[m].areas,
           NEW r, NEW k, Respaced(s, r, m, s.mm[m].areas \cup {a}, k),
           NEW v \in Pages, In(a, v)
    PROVE  pte(r, m, v) = None
  <1>1. /\ MemInv(r) /\ r.mm[m] # None /\ r.mm[m].areas = s.mm[m].areas \cup {a}
        /\ pte(r, m, v) = pte(s, m, v)
    BY DEF Respaced
  <1>2. ASSUME pte(s, m, v) # None PROVE FALSE
    <2>1. PICK b \in s.mm[m].areas : In(b, v)
      BY <1>2, PageArea
    <2>2. a \in r.mm[m].areas /\ b \in r.mm[m].areas
      BY <1>1
    <2>3. a = b
      BY <1>1, <2>1, <2>2, OneArea
    <2> QED
      BY <2>1, <2>3
  <1> QED
    BY <1>1, <1>2

\* A new area changes nothing for the segments that are there.
LEMMA LoadedWith ==
    ASSUME NEW s, MemInv(s), NEW m \in MMs, s.mm[m] # None, NEW a, NEW r, NEW k,
           Respaced(s, r, m, s.mm[m].areas \cup {a}, k),
           NEW p \in Seq(Segment), NEW n, LoadedTo(s, m, p, n)
    PROVE  LoadedTo(r, m, p, n)
  <1>1. r.mm[m].areas = s.mm[m].areas \cup {a} /\ r.data = s.data
    BY DEF Respaced
  <1>2. s.mm[m].areas \subseteq r.mm[m].areas
    BY <1>1
  <1>3. ASSUME NEW u \in Pages PROVE SameAt(s, r, m, u)
    BY <1>1 DEF SameAt, Respaced
  <1>4. \A i \in InFile(p) : i <= n =>
            \A u \in Pages : In(AreaOf(p[i]), u) => SameAt(s, r, m, u)
    BY <1>3
  <1> QED
    BY <1>2, <1>4, LoadedKept

\* What mm_map() lets through.
LEMMA Mappable ==
    ASSUME NEW s, MemInv(s), NEW m \in MMs, s.mm[m] # None, NEW a, a.start \in Nat, a.end \in Nat,
           a.flags \in SUBSET {"R", "W"}, a = [start |-> a.start, end |-> a.end, flags |-> a.flags],
           ~unmappable(s, m, a)
    PROVE  /\ a \in VirtMemArea_t /\ a.start < a.end /\ a \notin s.mm[m].areas
           /\ ~insertable(s, m, a) => \E b \in s.mm[m].areas : b.start > a.start /\ b.start < a.end
  <1>1. a.start < a.end /\ a.end <= NPages /\ find_vma(s, m, a.start) = {}
    BY DEF unmappable, isUserCanAccess
  <1>2. a.start \in Pages /\ a.end \in 1 .. NPages
    BY <1>1, PagesAssumption DEF Pages
  <1>3. a \in VirtMemArea_t
    BY <1>2 DEF VirtMemArea_t
  <1>4. a \notin s.mm[m].areas
    BY <1>1 DEF find_vma
  <1>5. ASSUME ~insertable(s, m, a)
        PROVE  \E b \in s.mm[m].areas : b.start > a.start /\ b.start < a.end
    <2>1. PICK b \in s.mm[m].areas : b.start > a.start /\ ~(a.end <= b.start)
      BY <1>1, <1>5 DEF insertable
    <2>2. b.start \in Int
      BY AreaTypes
    <2> QED
      BY <2>1, <2>2
  <1> QED
    BY <1>1, <1>3, <1>4, <1>5

LEMMA LessOne ==
    ASSUME NEW a \in Nat, NEW b \in Nat
    PROVE  a - (b - 1) = (a - b) + 1
  OBVIOUS

\* The rest without its first segment, which is the next one of the program.
LEMMA NextSegment ==
    ASSUME NEW c \in Reading, Rest(c.prog, c.left), c.left # << >>
    PROVE  /\ c.prog \in Seq(Segment) /\ Tail(c.left) \in Seq(Segment)
           /\ Len(Tail(c.left)) = Len(c.left) - 1 /\ Len(c.prog) \in Nat /\ Len(c.left) \in Nat
           /\ Passed(c) \in Nat /\ Passed(c) + 1 \in 1 .. Len(c.prog)
           /\ Head(c.left) = c.prog[Passed(c) + 1] /\ Head(c.left) \in Segment
           /\ Rest(c.prog, Tail(c.left))
  <1> DEFINE P == Len(c.prog)
             L == Len(c.left)
             T == Tail(c.left)
             n == P - L
  <1>1. c.prog \in Seq(Segment) /\ c.left \in Seq(Segment)
    BY ProgramsAssumption DEF Reading
  <1>2. /\ T \in Seq(Segment) /\ Len(T) = L - 1 /\ L \in Nat /\ P \in Nat
        /\ Head(c.left) = c.left[1] /\ \A j \in 1 .. L - 1 : T[j] = c.left[j + 1]
    BY <1>1
  <1>9. L # 0
    BY <1>1
  <1>3. L <= P /\ \A j \in 1 .. L : c.left[j] = c.prog[P - L + j]
    BY DEF Rest
  <1>4. Passed(c) = n
    BY DEF Passed
  <1> HIDE DEF P, L, T
  <1>5. n \in Nat /\ n + 1 \in 1 .. P /\ 1 \in 1 .. L
    BY <1>2, <1>3, <1>9
  <1>6. Head(c.left) = c.prog[n + 1]
    BY <1>2, <1>3, <1>5
  <1>10. Head(c.left) \in Segment
    BY <1>1, <1>5, <1>6 DEF P
  <1>7. ASSUME NEW j \in 1 .. L - 1 PROVE T[j] = c.prog[P - (L - 1) + j]
    <2>1. j + 1 \in 1 .. L /\ P - L + (j + 1) = P - (L - 1) + j
      BY <1>2
    <2>2. c.left[j + 1] = c.prog[P - L + (j + 1)]
      BY <1>3, <2>1
    <2> QED
      BY <1>2, <2>1, <2>2
  <1>8. L - 1 <= P
    BY <1>2, <1>3
  <1>11. Rest(c.prog, T)
    BY <1>2, <1>7, <1>8 DEF Rest, P
  <1> QED
    BY <1>1, <1>2, <1>4, <1>5, <1>6, <1>10, <1>11 DEF P, L, T

\* An area that cannot be inserted has been mapped for a segment before.
LEMMA SegmentTangled ==
    ASSUME NEW p \in Seq(Segment), NEW j \in 1 .. Len(p), NEW s, NEW m, AreasFrom(s, m, p, j - 1),
           NEW b \in s.mm[m].areas, b.start > AreaOf(p[j]).start, b.start < AreaOf(p[j]).end
    PROVE  Tangled(p)
  <1>1. PICK i \in InFile(p) : i <= j - 1 /\ b = AreaOf(p[i])
    BY DEF AreasFrom
  <1>2. i \in 1 .. Len(p) /\ i \in DOMAIN p /\ j \in DOMAIN p /\ p[i] \in Segment /\ p[j] \in Segment
    BY DEF InFile
  <1>3. /\ AreaOf(p[i]).start = p[i].va \div PG /\ AreaOf(p[j]).start = p[j].va \div PG
        /\ p[i].va \div PG \in Nat /\ p[j].va \div PG \in Nat /\ AreaOf(p[j]).end \in Nat
    <2>1. /\ AreaOf(p[i]).start = p[i].va \div PG /\ AreaOf(p[i]).start \in Nat
      BY <1>2, AreaBounds
    <2>2. /\ AreaOf(p[j]).start = p[j].va \div PG /\ AreaOf(p[j]).start \in Nat
          /\ AreaOf(p[j]).end \in Nat
      BY <1>2, AreaBounds
    <2> QED
      BY <2>1, <2>2
  <1>4. Area(p[j].va, p[j].memsz, {}).end = AreaOf(p[j]).end
    BY DEF Area, AreaOf
  <1>5. /\ i < j /\ p[j].va \div PG < p[i].va \div PG
        /\ Area(p[j].va, p[j].memsz, {}).end > p[i].va \div PG
    BY <1>1, <1>2, <1>3, <1>4
  <1> QED
    BY <1>2, <1>5 DEF Tangled

LEMMA LoadSegmentStep ==
    ASSUME VInv, load_segment
    PROVE  VInv'
  <1> DEFINE h == Head(call.left)
             a == AreaOf(h)
             m == call.m
             p == call.prog
             n == Passed(call)
             rest == [call EXCEPT !.left = Tail(@)]
             d == [op |-> "file", t |-> call.t, m |-> m, left |-> Tail(call.left),
                   prog |-> p, err |-> "no", seg |-> h,
                   start |-> h.va, la |-> (h.va \div PG) * PG, offset |-> 0]
  <1>1. At("segment") /\ call.left # << >> /\ call.err = "no"
    BY DEF load_segment
  <1>2. Execing(vm, owner, call) /\ halted = "no" /\ call.op = "segment"
    BY <1>1, InExec
  <1>3. /\ MemInv(vm) /\ OwnerInv(vm, owner, call) /\ call \in Calls /\ call # None
        /\ m \in MMs /\ vm.mm[m] # None /\ call.t \in Tasks /\ owner[call.t] = None
        /\ ReadInv(vm, call)
    BY <1>2 DEF Execing, CallInv
  <1>4. call \in Reading
    BY <1>2, <1>3, CallTypes
  <1>5. Rest(p, call.left) /\ LoadedTo(vm, m, p, n) /\ AreasFrom(vm, m, p, n)
    BY <1>1, <1>3 DEF ReadInv, Sure
  <1>6. /\ p \in Seq(Segment) /\ Tail(call.left) \in Seq(Segment)
        /\ Len(Tail(call.left)) = Len(call.left) - 1 /\ Len(p) \in Nat /\ Len(call.left) \in Nat
        /\ n \in Nat /\ n + 1 \in 1 .. Len(p)
        /\ h = p[n + 1] /\ h \in Segment
        /\ Rest(p, Tail(call.left))
    BY <1>1, <1>4, <1>5, NextSegment
  <1>7. /\ a.start = h.va \div PG /\ h.va \in Nat /\ h.memsz \in Nat /\ h.filesz \in Nat
        /\ a.start \in Nat /\ a.end \in Nat /\ a.flags = h.flags /\ h.flags \in SUBSET {"R", "W"}
        /\ PG \in Nat \ {0}
    BY <1>6, AreaBounds DEF Segment
  <1>8. a = [start |-> a.start, end |-> a.end, flags |-> a.flags]
    BY DEF AreaOf, Area
  <1>9. \/ Exec_fails
        \/ h.filesz = 0 /\ call' = rest /\ vm' = vm /\ owner' = owner /\ halted' = halted
        \/ ~unmappable(vm, m, a) /\ ~insertable(vm, m, a) /\ Halt("overlap")
        \/ /\ h.filesz \in 1 .. h.memsz /\ ~unmappable(vm, m, a) /\ insertable(vm, m, a)
           /\ vm' = insert_vma(vm, m, a) /\ call' = d /\ owner' = owner /\ halted' = halted
    <2>1. a = Area(h.va, h.memsz, h.flags) /\ rest.left = Tail(call.left)
      BY <1>4 DEF AreaOf, Reading
    <2> HIDE DEF a
    <2> QED
      BY <2>1 DEF load_segment
  <1>10. CASE Exec_fails
    BY <1>1, <1>10, ExecFails
  <1>11. CASE h.filesz = 0 /\ call' = rest /\ vm' = vm /\ owner' = owner /\ halted' = halted
    <2>1. /\ rest \in Reading /\ rest.op = "segment" /\ rest.m = m /\ rest.t = call.t
          /\ rest.left = Tail(call.left) /\ rest.prog = p /\ rest.err = "no"
      BY <1>1, <1>4, <1>6 DEF Reading
    <2> HIDE DEF rest
    <2>2. Passed(rest) = n + 1
      <3>1. Passed(rest) = Len(p) - Len(Tail(call.left)) /\ n = Len(p) - Len(call.left)
        BY <2>1 DEF Passed
      <3>2. Len(p) - (Len(call.left) - 1) = (Len(p) - Len(call.left)) + 1
        BY <1>6, LessOne
      <3> QED
        BY <1>6, <3>1, <3>2
    <2>3. InFile(p) \subseteq 1 .. Len(p) /\ n + 1 \notin InFile(p)
      BY <1>6, <1>11 DEF InFile
    <2> HIDE DEF n
    <2>4. LoadedTo(vm, m, p, n + 1)
      <3>1. \A i \in InFile(p) : i <= n + 1 => i <= n
        BY <1>6, <2>3
      <3> QED
        BY <1>5, <3>1 DEF LoadedTo
    <2>5. AreasFrom(vm, m, p, n + 1)
      <3>1. \A i \in InFile(p) : i <= n => i <= n + 1
        BY <1>6, <2>3
      <3> QED
        BY <1>5, <3>1 DEF AreasFrom
    <2>6. ReadInv(vm, rest)
      BY <1>6, <2>1, <2>2, <2>4, <2>5 DEF ReadInv, Sure
    <2>7. rest \in Calls /\ rest # None
      BY <2>1, NoneIs DEF Calls
    <2>8. OwnerInv(vm, owner, rest)
      <3>1. SameSpaces(vm, vm)
        BY DEF SameSpaces
      <3> QED
        BY <1>3, <2>1, <2>7, <3>1, OwnersKept
    <2>9. CallInv(vm, owner, rest)
      BY <1>3, <2>1, <2>6 DEF CallInv
    <2>10. StateInv(vm', owner', call')
      BY <1>3, <1>11, <2>7, <2>8, <2>9 DEF StateInv
    <2> QED
      BY <1>2, <1>11, <2>10, Goes
  <1> HIDE DEF n
  <1>12. CASE ~unmappable(vm, m, a) /\ ~insertable(vm, m, a) /\ Halt("overlap")
    <2>1. PICK b \in vm.mm[m].areas : b.start > a.start /\ b.start < a.end
      BY <1>3, <1>7, <1>8, <1>12, Mappable
    <2>2. (n + 1) - 1 = n
      BY <1>6
    <2>3. AreasFrom(vm, m, p, (n + 1) - 1)
      BY <1>5, <2>2
    <2>4. Tangled(p)
      BY <1>6, <2>1, <2>3, SegmentTangled
    <2>5. PanicsExplained'
      BY <1>2, <1>12, <2>4 DEF PanicsExplained, Halt
    <2> QED
      BY <1>12, <2>5, Halts
  <1>13. CASE /\ h.filesz \in 1 .. h.memsz /\ ~unmappable(vm, m, a) /\ insertable(vm, m, a)
              /\ vm' = insert_vma(vm, m, a) /\ call' = d /\ owner' = owner /\ halted' = halted
    <2>1. a \in VirtMemArea_t /\ a.start < a.end /\ a \notin vm.mm[m].areas
      BY <1>3, <1>7, <1>8, <1>13, Mappable
    <2>2. Respaced(vm, vm', m, vm.mm[m].areas \cup {a}, vm.mm[m].ref)
      BY <1>3, <1>13, <2>1, InsertVma
    <2>3. (h.va \div PG) * PG \in Nat
      BY <1>7, DivMod
    <2>4. /\ d \in Loading /\ d.op = "file" /\ d.m = m /\ d.t = call.t
          /\ d.left = Tail(call.left) /\ d.prog = p /\ d.seg = h /\ d.start = h.va
          /\ d.la = (h.va \div PG) * PG /\ d.offset = 0 /\ d.err = "no"
      BY <1>3, <1>4, <1>6, <1>7, <2>3 DEF Loading, Reading, Errors
    <2> HIDE DEF d
    <2>5. Passed(d) = n + 1
      <3>1. Passed(d) = Len(p) - Len(Tail(call.left)) /\ n = Len(p) - Len(call.left)
        BY <2>4 DEF Passed, n
      <3>2. Len(p) - (Len(call.left) - 1) = (Len(p) - Len(call.left)) + 1
        BY <1>6, LessOne
      <3> QED
        BY <1>6, <3>1, <3>2
    <2>6. PlaceInv(d)
      <3>1. EndOf(d) = h.va + h.filesz
        BY <2>4 DEF EndOf
      <3>2. d.la \div PG = h.va \div PG
        <4>1. h.va \div PG \in Nat /\ 0 \in 0 .. PG - 1 /\ (h.va \div PG) * PG + 0 = (h.va \div PG) * PG
          BY <1>7, DivMod
        <4> QED
          BY <1>7, <2>4, <4>1, DivOf
      <3>3. /\ h.va = PG * (h.va \div PG) + (h.va % PG) /\ h.va % PG \in 0 .. PG - 1
            /\ h.va \div PG \in Nat
        BY <1>7, DivMod
      <3>4. d.la <= h.va /\ h.va < d.la + PG
        BY <1>7, <2>4, <3>3
      <3>5. h.va \in h.va .. h.va + h.filesz /\ h.va < h.va + h.filesz
        BY <1>7, <1>13
      <3>6. 0 = h.va - h.va
        BY <1>7
      <3>7. a.start <= d.la \div PG
        BY <1>7, <3>2
      <3> HIDE DEF a
      <3> QED
        BY <1>7, <1>13, <2>4, <3>1, <3>2, <3>4, <3>5, <3>6, <3>7 DEF PlaceInv, a
    <2>7. LoadedTo(vm', m, p, n)
      <3>1. MemInv(vm) /\ m \in MMs /\ vm.mm[m] # None /\ p \in Seq(Segment) /\ LoadedTo(vm, m, p, n)
        BY <1>3, <1>5, <1>6
      <3> HIDE DEF m, p, a
      <3> QED
        BY <2>2, <3>1, LoadedWith
    <2>8. /\ vm'.mm[m].areas = vm.mm[m].areas \cup {a} /\ MemInv(vm') /\ vm'.mm[m] # None
          /\ vm'.mm[m].ref = vm.mm[m].ref /\ \A k \in MMs : k # m => vm'.mm[k] = vm.mm[k]
      BY <2>2 DEF Respaced
    <2>9. AreasFrom(vm', m, p, n + 1)
      <3>1. InFile(p) \subseteq 1 .. Len(p) /\ n + 1 \in InFile(p)
        BY <1>6, <1>13 DEF InFile
      <3>2. \A i \in InFile(p) : i <= n => i <= n + 1
        BY <1>6, <3>1
      <3> QED
        BY <1>5, <1>6, <2>8, <3>1, <3>2 DEF AreasFrom
    <2>10. \A i \in InFile(p) : i < n + 1 => AreaOf(p[i]) # a
      <3>1. \A i \in InFile(p) : i < n + 1 => i <= n
        BY <1>6 DEF InFile
      <3> QED
        BY <1>5, <2>1, <3>1 DEF LoadedTo
    <2>11. \A v \in Pages : In(a, v) => pte(vm', m, v) = None
      BY <1>3, <2>1, <2>2, FreshArea
    <2>12. \A k \in 0 .. d.start - h.va - 1 : ByteOK(vm', m, h, k, d.err)
      BY <1>7, <2>4
    <2>13. LoadInv(vm', d)
      <3>1. Passed(d) - 1 = n /\ n + 1 >= 1
        BY <1>6, <2>5
      <3>2. a \in vm'.mm[m].areas
        BY <2>8
      <3> HIDE DEF a
      <3> QED
        BY <1>6, <2>4, <2>5, <2>6, <2>7, <2>9, <2>10, <2>11, <2>12, <3>1, <3>2 DEF LoadInv, a
    <2>14. d \in Calls /\ d # None
      BY <2>4, NoneIs DEF Calls
    <2>15. OwnerInv(vm', owner, d)
      <3>1. SameSpaces(vm, vm')
        BY <1>3, <2>8 DEF SameSpaces
      <3>2. OwnerInv(vm, owner, call) /\ d.m = call.m
        BY <1>3, <2>4
      <3> QED
        BY <1>3, <2>14, <3>1, <3>2, OwnersKept
    <2>16. CallInv(vm', owner, d)
      BY <1>3, <2>4, <2>13 DEF CallInv
    <2>17. StateInv(vm', owner', call')
      BY <1>13, <2>8, <2>14, <2>15, <2>16 DEF StateInv
    <2> QED
      BY <1>2, <1>13, <2>17, Goes
  <1> QED
    BY <1>9, <1>10, <1>11, <1>12, <1>13

LEMMA PageOfByte ==
    ASSUME NEW q \in Nat, NEW x \in Nat, q * PG <= x, x < q * PG + PG
    PROVE  x \div PG = q /\ x % PG = x - q * PG
  <1>1. PG \in Nat \ {0} /\ q * PG \in Nat
    BY PagesAssumption
  <1>2. x - q * PG \in 0 .. PG - 1 /\ q * PG + (x - q * PG) = x
    BY <1>1
  <1> DEFINE r == x - q * PG
  <1>3. (q * PG + r) \div PG = q /\ (q * PG + r) % PG = r
    <2> HIDE DEF r
    <2> QED
      BY <1>1, <1>2, DivOf DEF r
  <1> QED
    BY <1>2, <1>3

LEMMA Between ==
    ASSUME NEW va \in Nat, NEW k \in Nat, NEW x \in Nat, NEW e \in Nat, NEW n \in Nat,
           k <= x - va - 1, x <= e, e <= va + n
    PROVE  va + k \in Nat /\ va <= va + k /\ va + k < va + n /\ va + k < x /\ (va + k) - va = k
  OBVIOUS

\* The part of a page.
LEMMA PartOf ==
    ASSUME NEW start \in Nat, NEW end \in Nat, NEW la \in Nat,
           la <= start, start < la + PG, start < end
    PROVE  LET part == Part(start, end, la)
           IN  /\ part.off = start - la /\ part.off \in Nat /\ part.size \in Nat
               /\ start + part.size = IF end < la + PG THEN end ELSE la + PG
  <1>1. PG \in Nat
    BY PagesAssumption
  <1>2. /\ Part(start, end, la).off = start - la
        /\ Part(start, end, la).size = IF end < la + PG THEN (PG - (start - la)) - (la + PG - end)
                                                        ELSE PG - (start - la)
    BY DEF Part
  <1> QED
    BY <1>1, <1>2

\* What is known while a segment is being loaded.
Filling(s, o, c) ==
    /\ Execing(s, o, c) /\ c \in Loading /\ LoadInv(s, c) /\ PlaceInv(c)
    /\ c.prog \in Seq(Segment) /\ c.seg \in Segment /\ AreaOf(c.seg) \in s.mm[c.m].areas
    /\ c.start \in Nat /\ c.la \in Nat /\ c.offset \in Nat /\ EndOf(c) \in Nat
    /\ c.seg.va \in Nat /\ c.seg.memsz \in Nat /\ c.seg.filesz \in Nat
    /\ c.la \div PG \in Nat /\ c.la = (c.la \div PG) * PG

LEMMA InFilling ==
    ASSUME VInv, NEW op \in {"file", "zero"}, At(op)
    PROVE  Filling(vm, owner, call) /\ halted = "no" /\ call.op = op
  <1>1. Execing(vm, owner, call) /\ halted = "no" /\ call.op = op
    BY InExec
  <1>2. call \in Loading
    BY <1>1, CallTypes DEF Execing
  <1>3. LoadInv(vm, call) /\ PlaceInv(call) /\ AreaOf(call.seg) \in vm.mm[call.m].areas
    BY <1>1 DEF Execing, CallInv, LoadInv
  <1>4. /\ call.prog \in Seq(Segment) /\ call.seg \in Segment
        /\ call.start \in Nat /\ call.la \in Nat /\ call.offset \in Nat
    BY <1>2, ProgramsAssumption DEF Loading
  <1>5. call.seg.va \in Nat /\ call.seg.memsz \in Nat /\ call.seg.filesz \in Nat
    BY <1>4 DEF Segment
  <1>6. EndOf(call) \in Nat
    BY <1>5 DEF EndOf
  <1>7. call.la \div PG \in Nat /\ call.la = (call.la \div PG) * PG
    BY <1>3, <1>4, PagesAssumption, DivMod DEF PlaceInv
  <1> QED
    BY <1>1, <1>2, <1>3, <1>4, <1>5, <1>6, <1>7 DEF Filling

\* Where the next page of the segment goes: into its area, where there is none.
LEMMA NextPlace ==
    ASSUME NEW s, NEW o, NEW c, Filling(s, o, c), c.start < EndOf(c)
    PROVE  /\ c.la <= c.start /\ c.start < c.la + PG /\ EndOf(c) <= c.seg.va + c.seg.memsz
           /\ c.la \div PG \in Pages /\ In(AreaOf(c.seg), c.la \div PG)
           /\ pte(s, c.m, c.la \div PG) = None
  <1>1. c.la <= c.start /\ c.start < c.la + PG /\ c.seg.filesz <= c.seg.memsz /\ c.seg.va <= c.start
    BY DEF Filling, PlaceInv
  <1>2. EndOf(c) <= c.seg.va + c.seg.memsz
    BY <1>1 DEF EndOf, Filling
  <1>3. c.start \in Nat /\ c.start < c.seg.va + c.seg.memsz
    BY <1>2 DEF Filling
  <1>4. c.start \div PG = c.la \div PG
    BY <1>1, <1>3, PageOfByte DEF Filling
  <1>5. c.start \div PG \in Nat /\ In(AreaOf(c.seg), c.start \div PG)
    BY <1>1, <1>3, ByteArea DEF Filling
  <1>6. c.la \div PG \in Pages
    BY <1>4, <1>5, AreaTypes DEF Filling, Execing
  <1>7. pte(s, c.m, c.la \div PG) = None
    <2>1. c.la \div PG >= c.la \div PG
      BY DEF Filling
    <2> QED
      BY <1>4, <1>5, <1>6, <2>1 DEF Filling, LoadInv
  <1> QED
    BY <1>1, <1>2, <1>4, <1>5, <1>6, <1>7

\* The position behind a page that has been filled.
LEMMA PlaceAfter ==
    ASSUME NEW s, NEW o, NEW c, Filling(s, o, c), c.start < EndOf(c),
           NEW d \in Loading, d.op = c.op, d.seg = c.seg, d.la = c.la + PG,
           d.start = IF EndOf(c) < c.la + PG THEN EndOf(c) ELSE c.la + PG,
           c.op = "file" => d.offset = d.start - c.seg.va
    PROVE  /\ PlaceInv(d) /\ d.la \div PG = (c.la \div PG) + 1
           /\ c.start <= d.start /\ d.start <= EndOf(c) /\ d.start <= c.la + PG
  <1>1. /\ c.la <= c.start /\ c.start < c.la + PG /\ PG \in Nat \ {0} /\ c.la \in Nat /\ c.start \in Nat
        /\ EndOf(c) \in Nat /\ c.seg.va \in Nat
    BY NextPlace, PagesAssumption DEF Filling
  <1>2. EndOf(d) = EndOf(c)
    BY DEF EndOf
  <1>3. d.la \div PG = (c.la \div PG) + 1
    BY <1>1, DivNext
  <1>4. d.la = (d.la \div PG) * PG
    <2>1. c.la = (c.la \div PG) * PG /\ c.la \div PG \in Nat
      BY DEF Filling
    <2> DEFINE q == c.la \div PG
    <2>2. q \in Nat /\ c.la = q * PG
      BY <2>1
    <2> HIDE DEF q
    <2>3. c.la + PG = (q + 1) * PG
      BY <1>1, <2>2
    <2> QED
      BY <1>3, <2>3 DEF q
  <1>5. c.start <= d.start /\ d.start <= EndOf(c) /\ d.start <= c.la + PG /\ d.start \in Nat
    BY <1>1
  <1>6. /\ c.seg.filesz \in 1 .. c.seg.memsz /\ AreaOf(c.seg).start <= c.la \div PG
        /\ c.seg.va <= c.start
        /\ c.op = "zero" => c.start >= c.seg.va + c.seg.filesz
    BY DEF Filling, PlaceInv
  <1>7. AreaOf(d.seg).start <= d.la \div PG
    <2>1. AreaOf(c.seg).start \in Nat /\ c.la \div PG \in Nat
      BY AreaBounds DEF Filling
    <2> QED
      BY <1>3, <1>6, <2>1
  <1>8. d.start \in c.seg.va .. EndOf(c)
    BY <1>1, <1>5, <1>6
  <1>9. d.start < EndOf(c) => d.start = d.la
    BY <1>1
  <1>10. d.start < EndOf(c) => d.la <= d.start /\ d.start < d.la + PG
    BY <1>1, <1>9
  <1>11. d.start >= EndOf(c) => d.start <= d.la /\ d.la < d.start + PG
    BY <1>1
  <1>12. c.op = "zero" => d.start >= c.seg.va + c.seg.filesz
    <2>1. c.seg.va + c.seg.filesz \in Nat
      BY DEF Filling
    <2> QED
      BY <1>1, <1>5, <1>6, <2>1
  <1>13. PlaceInv(d)
    BY <1>2, <1>4, <1>6, <1>7, <1>8, <1>9, <1>10, <1>11, <1>12 DEF PlaceInv
  <1> QED
    BY <1>3, <1>5, <1>13

\* B holds the next page of the segment, and d is the position behind it.
Filled(c, d, B) ==
    /\ d.op = c.op /\ d.m = c.m /\ d.t = c.t /\ d.left = c.left /\ d.prog = c.prog
    /\ d.seg = c.seg /\ d.la = c.la + PG
    /\ d.start = IF EndOf(c) < c.la + PG THEN EndOf(c) ELSE c.la + PG
    /\ c.op = "file" => d.offset = d.start - c.seg.va
    /\ d.err # "elf" /\ (d.err = "no" => c.err = "no")
    /\ d.err = "no" => \A x \in c.start .. d.start - 1 :
          B[x - c.la] = IF x - c.seg.va < c.seg.filesz THEN <<c.seg.va, x - c.seg.va>> ELSE Zero

\* A page of the segment has been filled with B.
LEMMA PageFilled ==
    ASSUME VInv, NEW op \in {"file", "zero"}, At(op), call.start < EndOf(call),
           canAlloc(vm, call.m, call.la \div PG), NEW B \in [0 .. PG - 1 -> Byte],
           vm' = newPage(B), owner' = owner, halted' = halted,
           NEW d \in Loading, call' = d, Filled(call, d, B)
    PROVE  VInv'
  <1> DEFINE m == call.m
             v == call.la \div PG
             a == AreaOf(call.seg)
             w == ("W" \in call.seg.flags)
             q == pgdir_alloc_page(vm, m, v, w)
             p == call.prog
  <1>1. Filling(vm, owner, call) /\ halted = "no" /\ call.op = op
    BY InFilling
  <1>2. /\ MemInv(vm) /\ OwnerInv(vm, owner, call) /\ call \in Calls /\ call # None
        /\ m \in MMs /\ vm.mm[m] # None /\ call.t \in Tasks /\ owner[call.t] = None
        /\ call.seg \in Segment /\ a \in vm.mm[m].areas /\ p \in Seq(Segment) /\ call \in Loading
        /\ LoadInv(vm, call)
    BY <1>1 DEF Filling, Execing
  <1>3. /\ call.la <= call.start /\ call.start < call.la + PG
        /\ EndOf(call) <= call.seg.va + call.seg.memsz
        /\ v \in Pages /\ In(a, v) /\ pte(vm, m, v) = None
    BY <1>1, NextPlace
  <1>4. PlaceInv(d) /\ d.la \div PG = v + 1 /\ call.start <= d.start /\ d.start <= EndOf(call)
        /\ d.start <= call.la + PG
    BY <1>1, PlaceAfter DEF Filled
  <1>23. /\ d.op = call.op /\ d.m = call.m /\ d.t = call.t /\ d.left = call.left
         /\ d.prog = call.prog /\ d.seg = call.seg
         /\ d.err # "elf" /\ (d.err = "no" => call.err = "no")
    BY DEF Filled
  <1>5. w \in BOOLEAN /\ (w <=> "W" \in a.flags)
    BY DEF AreaOf, Area
  <1>6. NewPageIn(vm, vm', m, v, w, B)
    <2>1. PageAdded(vm, q, m, v, w, first(vm))
      <3> HIDE DEF w, a
      <3>1. \E b \in vm.mm[m].areas : In(b, v) /\ (w <=> "W" \in b.flags)
        BY <1>2, <1>3, <1>5
      <3> QED
        BY <1>2, <1>3, <1>5, <3>1, AllocMem
    <2>2. pte(q, m, v).page = first(vm)
      <3> HIDE DEF w, q, m, v
      <3>1. pte(q, m, v) = [page |-> first(vm), w |-> w]
        BY <2>1 DEF PageAdded
      <3> QED
        BY <3>1
    <2>3. vm' = [q EXCEPT !.data[first(vm)] = B]
      BY <2>2 DEF newPage, seg
    <2> HIDE DEF w
    <2>4. q = pgdir_alloc_page(vm, m, v, w)
      OBVIOUS
    <2> HIDE DEF q
    <2> QED
      BY <1>2, <1>3, <1>5, <2>3, <2>4, NewPage
  <1> HIDE DEF w, q
  <1>7. /\ MemInv(vm') /\ vm'.mm[m] # None /\ \A n \in MMs : n # m => vm'.mm[n] = vm.mm[n]
        /\ vm'.mm[m].areas = vm.mm[m].areas /\ vm'.mm[m].ref = vm.mm[m].ref
        /\ pte(vm', m, v) # None /\ vm'.data[pte(vm', m, v).page] = B
        /\ \A u \in Pages : u # v => pte(vm', m, u) = pte(vm, m, u)
    BY <1>6 DEF NewPageIn
  <1>8. \A u \in Pages : SameAt(vm, vm', m, u)
    BY <1>2, <1>3, <1>6, NewPageKeeps
  <1>9. Passed(d) = Passed(call)
    BY <1>23 DEF Passed
  <1>10. /\ Rest(p, call.left) /\ Passed(call) >= 1 /\ call.seg = p[Passed(call)]
         /\ LoadedTo(vm, m, p, Passed(call) - 1) /\ AreasFrom(vm, m, p, Passed(call))
         /\ \A i \in InFile(p) : i < Passed(call) => AreaOf(p[i]) # a
         /\ \A k \in 0 .. call.start - call.seg.va - 1 : ByteOK(vm, m, call.seg, k, call.err)
         /\ \A u \in Pages : u >= v /\ In(a, u) => pte(vm, m, u) = None
    BY <1>2 DEF LoadInv
  <1>11. LoadedTo(vm', m, p, Passed(call) - 1)
    <2>1. /\ MemInv(vm) /\ m \in MMs /\ vm.mm[m] # None /\ p \in Seq(Segment)
          /\ LoadedTo(vm, m, p, Passed(call) - 1) /\ vm.mm[m].areas \subseteq vm'.mm[m].areas
      BY <1>2, <1>7, <1>10
    <2>2. \A i \in InFile(p) : i <= Passed(call) - 1 =>
              \A u \in Pages : In(AreaOf(p[i]), u) => SameAt(vm, vm', m, u)
      BY <1>8
    <2> HIDE DEF m, p
    <2> QED
      BY <2>1, <2>2, LoadedKept
  <1>12. AreasFrom(vm', m, p, Passed(call))
    BY <1>7, <1>10 DEF AreasFrom
  <1>13. /\ call.start \in Nat /\ call.la \in Nat /\ call.seg.va \in Nat /\ d.start \in Nat
         /\ EndOf(call) \in Nat /\ call.seg.memsz \in Nat /\ call.seg.va <= call.start
         /\ PG \in Nat /\ d.start \in Int
    BY <1>1, PagesAssumption DEF Filling, Loading, PlaceInv
  <1>21. v \in Nat /\ call.la = v * PG
    BY <1>1 DEF Filling
  <1>22. d.la \div PG = v + 1
    BY <1>4
  <1>14. ASSUME NEW k \in 0 .. d.start - call.seg.va - 1 PROVE ByteOK(vm', m, call.seg, k, d.err)
    <2> DEFINE x == call.seg.va + k
    <2>1. x \in Nat /\ call.seg.va <= x /\ x < call.seg.va + call.seg.memsz /\ x < d.start
          /\ x - call.seg.va = k
      <3>1. k \in Nat /\ k <= d.start - call.seg.va - 1
        BY <1>13
      <3>2. d.start <= EndOf(call) /\ EndOf(call) <= call.seg.va + call.seg.memsz
        BY <1>3, <1>4
      <3> QED
        BY <1>13, <3>1, <3>2, Between
    <2>2. CASE x < call.start
      <3>1. x \div PG \in Nat /\ In(a, x \div PG)
        BY <1>2, <2>1, ByteArea
      <3>2. x \div PG \in Pages
        BY <1>2, <3>1, AreaTypes
      <3>3. SameAt(vm, vm', m, x \div PG)
        BY <1>8, <3>2
      <3>4. k \in 0 .. call.start - call.seg.va - 1
        BY <1>13, <2>1, <2>2
      <3>5. ByteOK(vm, m, call.seg, k, d.err)
        BY <1>10, <1>23, <3>4 DEF ByteOK
      <3> QED
        BY <3>3, <3>5, ByteKept
    <2>3. CASE x >= call.start
      <3>5. call.la <= x /\ x < call.la + PG
        <4>1. call.la <= call.start /\ d.start <= call.la + PG
          BY <1>3, <1>4
        <4> QED
          BY <1>13, <2>1, <2>3, <4>1
      <3>1. v * PG <= x /\ x < v * PG + PG
        BY <1>21, <3>5
      <3>2. x \div PG = v /\ x % PG = x - call.la
        BY <1>21, <2>1, <3>1, PageOfByte
      <3>3. x \in call.start .. d.start - 1
        BY <1>13, <2>1, <2>3
      <3>4. d.err = "no" => B[x - call.la] = IF k < call.seg.filesz THEN <<call.seg.va, k>> ELSE Zero
        BY <2>1, <3>3 DEF Filled
      <3> QED
        BY <1>7, <3>2, <3>4 DEF ByteOK
    <2> QED
      BY <1>13, <2>1, <2>2, <2>3
  <1>15. ASSUME NEW u \in Pages, u >= d.la \div PG, In(a, u) PROVE pte(vm', m, u) = None
    <2>1. u \in Nat /\ u # v /\ u >= v
      <3>1. u \in Nat /\ u >= v + 1 /\ v \in Nat
        BY <1>15, <1>21, <1>22, TableOfPage
      <3> HIDE DEF v
      <3> QED
        BY <3>1
    <2> QED
      BY <1>7, <1>10, <1>15, <2>1
  <1>16. LoadInv(vm', d)
    <2>1. a \in vm'.mm[m].areas
      BY <1>2, <1>7
    <2> HIDE DEF a
    <2> QED
      BY <1>4, <1>9, <1>10, <1>11, <1>12, <1>14, <1>15, <1>23, <2>1 DEF LoadInv, a
  <1>17. d \in Calls /\ d # None
    BY NoneIs DEF Calls
  <1>18. OwnerInv(vm', owner, d)
    <2>1. SameSpaces(vm, vm')
      BY <1>2, <1>7 DEF SameSpaces
    <2>2. OwnerInv(vm, owner, call) /\ call \in Calls /\ call # None
      BY <1>2
    <2> QED
      BY <1>17, <1>23, <2>1, <2>2, OwnersKept
  <1>19. CallInv(vm', owner, d)
    <2>1. d.op \in {"file", "zero"}
      BY <1>1, <1>23
    <2> QED
      BY <1>2, <1>16, <1>23, <2>1 DEF CallInv
  <1>20. StateInv(vm', owner', call')
    BY <1>7, <1>17, <1>18, <1>19 DEF StateInv
  <1> QED
    BY <1>1, <1>20, Goes

\* The bytes of the part of the page: i is in it exactly for the addresses from
\* start on that are loaded in this step.
LEMMA PartBytes ==
    ASSUME NEW start \in Nat, NEW la \in Nat, NEW size \in Nat, NEW off \in Nat, off = start - la,
           start + size <= la + PG, NEW x \in start .. (start + size) - 1
    PROVE  /\ x - la \in 0 .. PG - 1 /\ x - la \in off .. off + size - 1
           /\ (x - la) - off = x - start
  <1>1. PG \in Nat
    BY PagesAssumption
  <1> QED
    BY <1>1

LEMMA LoadPageStep ==
    ASSUME VInv, load_page
    PROVE  VInv'
  <1> DEFINE end == seg.va + seg.filesz
             part == Part(call.start, end, call.la)
             off == part.off
             size == part.size
             PageB(err) == [i \in 0 .. PG - 1 |->
                              IF err = "no" /\ i \in off .. off + size - 1
                                THEN <<seg.va, call.offset + i - off>> ELSE Junk]
             next(err) == [call EXCEPT !.start = @ + size, !.offset = @ + size, !.la = @ + PG,
                                       !.err = err]
  <1>1. At("file") /\ call.start < end /\ call.err = "no"
    BY DEF load_page
  <1>2. \/ Exec_fails
        \/ \E err \in {"no", "read"} :
              /\ canAlloc(vm, call.m, call.la \div PG)
              /\ vm' = newPage(PageB(err)) /\ call' = next(err)
              /\ owner' = owner /\ halted' = halted
    BY DEF load_page
  <1>3. CASE Exec_fails
    BY <1>1, <1>3, ExecFails
  <1>4. ASSUME NEW err \in {"no", "read"}, canAlloc(vm, call.m, call.la \div PG),
               vm' = newPage(PageB(err)), call' = next(err), owner' = owner, halted' = halted
        PROVE  VInv'
    <2> DEFINE B == PageB(err)
               d == next(err)
    <2>12. vm' = newPage(B) /\ call' = d
      BY <1>4
    <2>1. Filling(vm, owner, call) /\ call.op = "file"
      BY <1>1, InFilling
    <2>2. EndOf(call) = end /\ call.start < EndOf(call)
      BY <1>1, <2>1 DEF EndOf, seg
    <2>3. /\ call \in Loading /\ call.start \in Nat /\ call.la \in Nat /\ call.offset \in Nat
          /\ end \in Nat /\ seg.va \in Nat /\ seg.filesz \in Nat /\ PG \in Nat
      BY <2>1, <2>2, PagesAssumption DEF Filling, seg
    <2>4. call.la <= call.start /\ call.start < call.la + PG
      BY <2>1, <2>2, NextPlace
    <2>5. call.offset = call.start - seg.va /\ seg.va <= call.start
      BY <2>1 DEF Filling, PlaceInv, seg
    <2>6. /\ off = call.start - call.la /\ off \in Nat /\ size \in Nat
          /\ call.start + size = IF end < call.la + PG THEN end ELSE call.la + PG
      <3> HIDE DEF end
      <3> QED
        BY <1>1, <2>3, <2>4, PartOf
    <2> HIDE DEF end, off, size
    <2>7. B \in [0 .. PG - 1 -> Byte]
      <3>1. ASSUME NEW i \in off .. off + size - 1 PROVE <<seg.va, call.offset + i - off>> \in Byte
        <4>1. call.offset + i - off \in Nat
          BY <2>3, <2>6
        <4> QED
          BY <2>3, <4>1 DEF Byte
      <3>2. Junk \in Byte
        BY DEF Byte
      <3> QED
        BY <3>1, <3>2
    <2>8. /\ d \in Loading /\ d.op = call.op /\ d.m = call.m /\ d.t = call.t /\ d.left = call.left
          /\ d.prog = call.prog /\ d.seg = call.seg /\ d.la = call.la + PG
          /\ d.start = call.start + size /\ d.offset = call.offset + size
          /\ d.err = err
      <3>1. call.start + size \in Nat /\ call.offset + size \in Nat /\ call.la + PG \in Nat
        BY <2>3, <2>6
      <3> QED
        BY <2>3, <3>1 DEF Loading, Errors
    <2>9. d.offset = d.start - seg.va
      BY <2>3, <2>5, <2>6, <2>8
    <2> HIDE DEF d
    <2>10. ASSUME err = "no", NEW x \in call.start .. d.start - 1
           PROVE  B[x - call.la] = IF x - seg.va < seg.filesz THEN <<seg.va, x - seg.va>> ELSE Zero
      <3>1. call.start + size <= call.la + PG /\ call.start + size <= end
        BY <2>3, <2>6
      <3>2. x \in call.start .. (call.start + size) - 1
        BY <2>8
      <3>3. /\ x - call.la \in 0 .. PG - 1 /\ x - call.la \in off .. off + size - 1
            /\ (x - call.la) - off = x - call.start
        BY <2>3, <2>6, <3>1, <3>2, PartBytes
      <3>4. B[x - call.la] = <<seg.va, call.offset + (x - call.la) - off>>
        BY <2>10, <3>3
      <3>5. call.offset + (x - call.la) - off = x - seg.va
        <4>1. call.offset + (x - call.la) - off = call.offset + ((x - call.la) - off)
          BY <2>3, <2>6, <3>3
        <4> QED
          BY <2>3, <2>5, <3>2, <3>3, <4>1
      <3>6. x - seg.va < seg.filesz
        <4>1. x < end /\ x \in Int
          BY <2>3, <2>6, <3>1, <3>2
        <4> QED
          BY <2>3, <4>1 DEF end
      <3> QED
        BY <3>4, <3>5, <3>6
    <2> HIDE DEF B
    <2>11. Filled(call, d, B)
      BY <1>1, <2>2, <2>6, <2>8, <2>9, <2>10 DEF Filled, seg
    <2> QED
      BY <1>1, <1>4, <2>2, <2>7, <2>8, <2>11, <2>12, PageFilled
  <1> QED
    BY <1>2, <1>3, <1>4

LEMMA ClearPageStep ==
    ASSUME VInv, clear_page
    PROVE  VInv'
  <1> DEFINE end == seg.va + seg.memsz
             part == Part(call.start, end, call.la)
             off == part.off
             size == part.size
             B == [i \in 0 .. PG - 1 |-> IF i \in off .. off + size - 1 THEN Zero ELSE Junk]
             d == [call EXCEPT !.start = @ + size, !.la = @ + PG]
  <1>1. At("zero") /\ call.start < end
    BY DEF clear_page
  <1>2. \/ Exec_fails
        \/ /\ canAlloc(vm, call.m, call.la \div PG) /\ vm' = newPage(B) /\ call' = d
           /\ owner' = owner /\ halted' = halted
    BY DEF clear_page
  <1>3. CASE Exec_fails
    BY <1>1, <1>3, ExecFails
  <1>4. CASE /\ canAlloc(vm, call.m, call.la \div PG) /\ vm' = newPage(B) /\ call' = d
             /\ owner' = owner /\ halted' = halted
    <2>1. Filling(vm, owner, call) /\ call.op = "zero"
      BY <1>1, InFilling
    <2>2. EndOf(call) = end /\ call.start < EndOf(call)
      BY <1>1, <2>1 DEF EndOf, seg
    <2>3. /\ call \in Loading /\ call.start \in Nat /\ call.la \in Nat
          /\ end \in Nat /\ seg.va \in Nat /\ seg.filesz \in Nat /\ PG \in Nat
      BY <2>1, <2>2, PagesAssumption DEF Filling, seg
    <2>4. call.la <= call.start /\ call.start < call.la + PG
      BY <2>1, <2>2, NextPlace
    <2>5. call.start >= seg.va + seg.filesz
      BY <2>1 DEF Filling, PlaceInv, seg
    <2>6. /\ off = call.start - call.la /\ off \in Nat /\ size \in Nat
          /\ call.start + size = IF end < call.la + PG THEN end ELSE call.la + PG
      <3> HIDE DEF end
      <3> QED
        BY <1>1, <2>3, <2>4, PartOf
    <2> HIDE DEF end, off, size
    <2>7. B \in [0 .. PG - 1 -> Byte]
      <3>1. Junk \in Byte /\ Zero \in Byte
        BY DEF Byte
      <3> QED
        BY <3>1
    <2>8. /\ d \in Loading /\ d.op = call.op /\ d.m = call.m /\ d.t = call.t /\ d.left = call.left
          /\ d.prog = call.prog /\ d.seg = call.seg /\ d.la = call.la + PG
          /\ d.start = call.start + size /\ d.err = call.err
      <3>1. call.start + size \in Nat /\ call.la + PG \in Nat
        BY <2>3, <2>6
      <3> QED
        BY <2>3, <3>1 DEF Loading
    <2> HIDE DEF d
    <2>10. ASSUME NEW x \in call.start .. d.start - 1
           PROVE  B[x - call.la] = IF x - seg.va < seg.filesz THEN <<seg.va, x - seg.va>> ELSE Zero
      <3>1. call.start + size <= call.la + PG /\ call.start + size <= end
        BY <2>3, <2>6
      <3>2. x \in call.start .. (call.start + size) - 1
        BY <2>8
      <3>3. /\ x - call.la \in 0 .. PG - 1 /\ x - call.la \in off .. off + size - 1
        BY <2>3, <2>6, <3>1, <3>2, PartBytes
      <3>4. B[x - call.la] = Zero
        BY <3>3
      <3>6. ~(x - seg.va < seg.filesz)
        BY <2>3, <2>5, <2>6, <3>2
      <3> QED
        BY <3>4, <3>6
    <2> HIDE DEF B
    <2>11. Filled(call, d, B)
      <3>1. call.err # "elf"
        BY <2>1 DEF Filling, LoadInv
      <3> QED
        BY <2>1, <3>1, <2>2, <2>6, <2>8, <2>10 DEF Filled, seg
    <2> QED
      BY <1>1, <1>4, <2>2, <2>7, <2>8, <2>11, PageFilled
  <1> QED
    BY <1>2, <1>3, <1>4

\* d is the position at the end of the tail of the last page.
TailEnd(c, d) ==
    /\ d \in Loading /\ d.op = "zero" /\ d.m = c.m /\ d.t = c.t /\ d.left = c.left /\ d.prog = c.prog
    /\ d.seg = c.seg /\ d.la = c.la /\ d.err = c.err
    /\ c.start <= d.start /\ d.start <= c.la /\ d.start <= c.seg.va + c.seg.memsz
    /\ d.start < c.seg.va + c.seg.memsz => d.start = c.la

\* The file part of the segment is complete, and the tail cleared up to d.start.
LEMMA TailDone ==
    ASSUME VInv, At("file"), call.start >= seg.va + seg.filesz, NEW d, TailEnd(call, d), call' = d,
           MemInv(vm'), vm'.mm = vm.mm, owner' = owner, halted' = halted,
           LoadedTo(vm', call.m, call.prog, Passed(call) - 1),
           \A k \in 0 .. d.start - call.seg.va - 1 : ByteOK(vm', call.m, call.seg, k, call.err)
    PROVE  VInv'
  <1> DEFINE c == call
             h == call.seg
             m == call.m
             p == call.prog
             a == AreaOf(call.seg)
  <1>1. Filling(vm, owner, call) /\ halted = "no" /\ call.op = "file"
    BY InFilling
  <1>2. /\ MemInv(vm) /\ OwnerInv(vm, owner, call) /\ call \in Calls /\ call # None
        /\ m \in MMs /\ vm.mm[m] # None /\ call.t \in Tasks /\ owner[call.t] = None
        /\ h \in Segment /\ a \in vm.mm[m].areas /\ p \in Seq(Segment)
        /\ LoadInv(vm, call) /\ PlaceInv(call)
    BY <1>1 DEF Filling, Execing
  <1>3. /\ d \in Loading /\ d.op = "zero" /\ d.m = m /\ d.t = c.t /\ d.left = c.left /\ d.prog = p
        /\ d.seg = h /\ d.la = c.la /\ d.err = c.err
    BY DEF TailEnd
  <1>4. /\ c.start <= d.start /\ d.start <= c.la /\ d.start <= h.va + h.memsz
        /\ d.start < h.va + h.memsz => d.start = c.la
    BY DEF TailEnd
  <1>5. /\ c.start \in Nat /\ c.la \in Nat /\ h.va \in Nat /\ h.memsz \in Nat /\ h.filesz \in Nat
        /\ d.start \in Nat /\ PG \in Nat \ {0}
    BY <1>1, <1>3, PagesAssumption DEF Filling, Loading
  <1>6. EndOf(c) = h.va + h.filesz /\ EndOf(d) = h.va + h.memsz
    BY <1>1, <1>3 DEF EndOf
  <1>7. /\ h.filesz \in 1 .. h.memsz /\ c.la = (c.la \div PG) * PG /\ a.start <= c.la \div PG
        /\ c.start >= h.va + h.filesz /\ c.start <= c.la /\ c.la < c.start + PG /\ h.va <= c.start
    BY <1>2, <1>6 DEF PlaceInv, seg
  <1> HIDE DEF a, h, c
  <1>8. d.start \in h.va .. h.va + h.memsz
    BY <1>4, <1>5, <1>7
  <1>9. d.start < h.va + h.memsz => c.la <= d.start /\ d.start < c.la + PG
    BY <1>4, <1>5
  <1>10. d.start >= h.va + h.memsz => d.start <= c.la /\ c.la < d.start + PG
    BY <1>4, <1>5, <1>7
  <1>11. d.start >= h.va + h.filesz
    BY <1>4, <1>5, <1>7
  <1>12. PlaceInv(d)
    BY <1>3, <1>4, <1>6, <1>7, <1>8, <1>9, <1>10, <1>11 DEF PlaceInv, a, h
  <1>13. Passed(d) = Passed(call)
    BY <1>3 DEF Passed, c
  <1>14. /\ Rest(p, call.left) /\ Passed(call) >= 1 /\ h = p[Passed(call)]
         /\ AreasFrom(vm, m, p, Passed(call))
         /\ \A i \in InFile(p) : i < Passed(call) => AreaOf(p[i]) # a
         /\ \A u \in Pages : u >= c.la \div PG /\ In(a, u) => pte(vm, m, u) = None
         /\ c.err # "elf"
    BY <1>2 DEF LoadInv, a, h, c
  <1>15. AreasFrom(vm', m, p, Passed(call)) /\ a \in vm'.mm[m].areas
    BY <1>2, <1>14 DEF AreasFrom
  <1>16. \A u \in Pages : u >= c.la \div PG /\ In(a, u) => pte(vm', m, u) = None
    BY <1>14 DEF pte, hasTable
  <1>17. \A k \in 0 .. d.start - h.va - 1 : ByteOK(vm', m, h, k, d.err)
    BY <1>3 DEF h, c
  <1>18. LoadInv(vm', d)
    BY <1>3, <1>12, <1>13, <1>14, <1>15, <1>16, <1>17 DEF LoadInv, a, h, c
  <1>19. d \in Calls /\ d # None
    BY <1>3, NoneIs DEF Calls
  <1>20. OwnerInv(vm', owner, d)
    <2>1. SameSpaces(vm, vm')
      BY DEF SameSpaces
    <2> QED
      BY <1>2, <1>3, <1>19, <2>1, OwnersKept
  <1>21. CallInv(vm', owner, d)
    BY <1>2, <1>3, <1>18 DEF CallInv, c
  <1>22. StateInv(vm', owner', call')
    BY <1>19, <1>20, <1>21 DEF StateInv
  <1> QED
    BY <1>1, <1>22, Goes

\* The last page with file contents.
LEMMA LastPage ==
    ASSUME NEW s, NEW o, NEW c, Filling(s, o, c), c.op = "file", c.start >= c.seg.va + c.seg.filesz
    PROVE  /\ c.start = c.seg.va + c.seg.filesz /\ c.seg.filesz \in 1 .. c.seg.memsz
           /\ c.start <= c.la /\ c.la < c.start + PG /\ c.la - PG \in Nat
           /\ \E v \in Pages : /\ v = (c.la - PG) \div PG /\ c.la - PG = v * PG
                               /\ In(AreaOf(c.seg), v) /\ pte(s, c.m, v) # None
  <1> DEFINE q == c.la \div PG
  <1>1. /\ c.start \in Nat /\ c.la \in Nat /\ c.seg.va \in Nat /\ c.seg.memsz \in Nat
        /\ c.seg.filesz \in Nat /\ PG \in Nat \ {0} /\ q \in Nat /\ c.la = q * PG
    BY PagesAssumption DEF Filling
  <1>2. EndOf(c) = c.seg.va + c.seg.filesz
    BY DEF EndOf
  <1>3. /\ c.seg.filesz \in 1 .. c.seg.memsz /\ c.start <= c.la /\ c.la < c.start + PG
        /\ c.start <= c.seg.va + c.seg.filesz
    BY <1>1, <1>2 DEF Filling, PlaceInv
  <1>4. c.start = c.seg.va + c.seg.filesz /\ c.start >= 1
    <2>1. /\ c.start \in Nat /\ c.seg.va \in Nat /\ c.seg.filesz \in Nat /\ c.seg.filesz >= 1
          /\ c.start <= c.seg.va + c.seg.filesz
      BY <1>1, <1>3
    <2> QED
      BY <2>1
  <1> HIDE DEF q
  <1>5. q >= 1
    <2>1. q = 0 => q * PG = 0
      BY <1>1
    <2>2. c.la # 0
      BY <1>1, <1>3, <1>4
    <2> QED
      BY <1>1, <2>1, <2>2
  <1>6. q - 1 \in Nat /\ c.la - PG = (q - 1) * PG
    <2>1. q * PG - PG = (q - 1) * PG
      BY <1>1
    <2> QED
      BY <1>1, <1>5, <2>1
  <1> DEFINE v == q - 1
             x == c.start - 1
  <1>7. v \in Nat /\ v * PG \in Nat /\ c.la - PG = v * PG /\ c.la = v * PG + PG
    BY <1>1, <1>6
  <1> HIDE DEF v
  <1>8. x \in Nat /\ v * PG <= x /\ x < v * PG + PG
    BY <1>1, <1>3, <1>4, <1>7
  <1>9. x \div PG = v
    BY <1>7, <1>8, PageOfByte
  <1>10. (c.la - PG) \div PG = v
    <2>1. v * PG <= c.la - PG /\ c.la - PG < v * PG + PG /\ c.la - PG \in Nat
      BY <1>1, <1>7
    <2> QED
      BY <1>7, <2>1, PageOfByte
  <1>11. c.seg.va <= x /\ x < c.seg.va + c.seg.memsz
    BY <1>1, <1>3, <1>4
  <1>12. In(AreaOf(c.seg), v)
    BY <1>8, <1>9, <1>11, ByteArea DEF Filling
  <1>13. v \in Pages
    BY <1>7, <1>12, AreaTypes DEF Filling, Execing
  <1>14. pte(s, c.m, v) # None
    <2>1. c.seg.filesz - 1 \in 0 .. c.start - c.seg.va - 1 /\ c.seg.va + (c.seg.filesz - 1) = x
      BY <1>1, <1>3, <1>4
    <2>2. ByteOK(s, c.m, c.seg, c.seg.filesz - 1, c.err)
      BY <2>1 DEF Filling, LoadInv
    <2>3. pte(s, c.m, (c.seg.va + (c.seg.filesz - 1)) \div PG) # None
      BY <2>2 DEF ByteOK
    <2> QED
      BY <1>9, <2>1, <2>3
  <1> QED
    BY <1>3, <1>4, <1>7, <1>10, <1>12, <1>13, <1>14

\* Page v of m holds N, and all other pages are as they were.
Rewritten(s, r, m, v, N) ==
    /\ MemInv(r) /\ r.mm = s.mm
    /\ \A u \in Pages : pte(r, m, u) = pte(s, m, u)
    /\ r.data[pte(s, m, v).page] = N
    /\ \A u \in Pages : u # v => SameAt(s, r, m, u)

LEMMA Rewrite ==
    ASSUME NEW s, MemInv(s), NEW m \in MMs, s.mm[m] # None, NEW v \in Pages, pte(s, m, v) # None,
           NEW N \in [0 .. PG - 1 -> Byte], NEW r,
           r = [s EXCEPT !.data = [s.data EXCEPT ![pte(s, m, v).page] = N]]
    PROVE  Rewritten(s, r, m, v, N)
  <1> DEFINE f == pte(s, m, v).page
             D == [s.data EXCEPT ![f] = N]
  <1>1. /\ f \in Frames
        /\ \A u \in Pages : pte(s, m, u) # None /\ pte(s, m, u).page = f => u = v
    BY PageFrame
  <1>2. s.data \in [Frames -> [0 .. PG - 1 -> Byte]]
    BY DEF MemInv, Memory
  <1>3. r = [s EXCEPT !.data = D]
    OBVIOUS
  <1> HIDE DEF f
  <1>4. /\ D \in [Frames -> [0 .. PG - 1 -> Byte]] /\ D[f] = N
        /\ \A e \in Frames : e # f => D[e] = s.data[e]
    BY <1>1, <1>2
  <1> HIDE DEF D
  <1>5. Refilled(s, r, D)
    BY <1>3, <1>4, NewData
  <1>6. MemInv(r) /\ r.mm = s.mm /\ r.data = D /\ \A u \in Pages : pte(r, m, u) = pte(s, m, u)
    BY <1>5 DEF Refilled
  <1>7. ASSUME NEW u \in Pages, u # v PROVE SameAt(s, r, m, u)
    <2>1. ASSUME pte(s, m, u) # None PROVE r.data[pte(s, m, u).page] = s.data[pte(s, m, u).page]
      <3>1. pte(s, m, u).page \in Frames
        BY <2>1, PageFrame
      <3>2. pte(s, m, u).page # f
        BY <1>1, <1>7, <2>1
      <3> QED
        BY <1>4, <1>6, <3>1, <3>2
    <2> QED
      BY <1>6, <2>1 DEF SameAt
  <1>8. r.data[f] = N
    BY <1>4, <1>6
  <1> QED
    BY <1>6, <1>7, <1>8 DEF Rewritten, f

\* The numbers of clear_tail(): the part lies in the page at la - PG.
LEMMA TailPart ==
    ASSUME NEW la \in Nat, NEW start \in Nat, NEW end \in Nat, la - PG \in Nat,
           start < la, la < start + PG, start < end
    PROVE  LET part == Part(start, end, la - PG)
           IN  /\ part.off = start - (la - PG) /\ part.off \in Nat /\ part.size \in Nat
               /\ start + part.size = IF end < la THEN end ELSE la
               /\ start + part.size <= (la - PG) + PG
  <1>1. PG \in Nat
    BY PagesAssumption
  <1> DEFINE b == la - PG
  <1>2. b \in Nat /\ b <= start /\ start < b + PG /\ b + PG = la
    BY <1>1
  <1> HIDE DEF b
  <1>3. LET part == Part(start, end, b)
        IN  /\ part.off = start - b /\ part.off \in Nat /\ part.size \in Nat
            /\ start + part.size = IF end < la THEN end ELSE la
    BY <1>2, PartOf
  <1>4. start + Part(start, end, b).size <= la
    BY <1>3
  <1> QED
    BY <1>2, <1>3, <1>4 DEF b

LEMMA ClearTailStep ==
    ASSUME VInv, clear_tail
    PROVE  VInv'
  <1> DEFINE h == call.seg
             m == call.m
             p == call.prog
             a == AreaOf(call.seg)
             b == call.la - PG
             v == b \div PG
             f == pte(vm, m, v).page
             end == h.va + h.memsz
             part == Part(call.start, end, b)
             off == part.off
             size == part.size
             N == [i \in 0 .. PG - 1 |-> IF i \in off .. off + size - 1 THEN Zero ELSE vm.data[f][i]]
             d0 == [call EXCEPT !.op = "zero"]
             d1 == [call EXCEPT !.op = "zero", !.start = @ + size]
  <1>1. At("file") /\ call.start >= seg.va + seg.filesz
    BY DEF clear_tail
  <1>2. Filling(vm, owner, call) /\ halted = "no" /\ call.op = "file"
    BY <1>1, InFilling
  <1>3. /\ MemInv(vm) /\ m \in MMs /\ vm.mm[m] # None /\ call \in Loading /\ h \in Segment
        /\ p \in Seq(Segment) /\ a \in vm.mm[m].areas /\ LoadInv(vm, call)
    BY <1>2 DEF Filling, Execing
  <1>4. /\ call.start = h.va + h.filesz /\ h.filesz \in 1 .. h.memsz
        /\ call.start <= call.la /\ call.la < call.start + PG /\ b \in Nat
        /\ v \in Pages /\ b = v * PG /\ In(a, v) /\ pte(vm, m, v) # None
    <2>1. call.start >= call.seg.va + call.seg.filesz
      BY <1>1 DEF seg
    <2> QED
      BY <1>2, <2>1, LastPage
  <1>5. /\ call.start \in Nat /\ call.la \in Nat /\ h.va \in Nat /\ h.memsz \in Nat /\ h.filesz \in Nat
        /\ PG \in Nat \ {0} /\ end \in Nat /\ call.start <= end
    <2>1. /\ call.start \in Nat /\ call.la \in Nat /\ h.va \in Nat /\ h.memsz \in Nat
          /\ h.filesz \in Nat /\ PG \in Nat \ {0}
      BY <1>2, PagesAssumption DEF Filling
    <2> QED
      BY <1>4, <2>1
  <1>6. \/ /\ call.start < call.la /\ call.start # end
           /\ vm' = [vm EXCEPT !.data = [vm.data EXCEPT ![f] = N]] /\ call' = d1
        \/ ~(call.start < call.la /\ call.start # end) /\ vm' = vm /\ call' = d0
    BY DEF clear_tail, seg
  <1>7. owner' = owner /\ halted' = halted
    BY DEF clear_tail
  <1>8. /\ LoadedTo(vm, m, p, Passed(call) - 1) /\ Passed(call) \in Int
        /\ \A i \in InFile(p) : i < Passed(call) => AreaOf(p[i]) # a
        /\ \A k \in 0 .. call.start - h.va - 1 : ByteOK(vm, m, h, k, call.err)
    BY <1>3 DEF LoadInv, Passed, Loading
  <1>9. CASE ~(call.start < call.la /\ call.start # end) /\ vm' = vm /\ call' = d0
    <2>1. /\ d0 \in Loading /\ d0.op = "zero" /\ d0.m = call.m /\ d0.t = call.t /\ d0.left = call.left
          /\ d0.prog = call.prog /\ d0.seg = call.seg /\ d0.la = call.la /\ d0.start = call.start
          /\ d0.err = call.err
      BY <1>3 DEF Loading
    <2> HIDE DEF d0
    <2>2. TailEnd(call, d0)
      <3>1. /\ call.start <= call.start /\ call.start <= call.la /\ call.start <= end
            /\ call.start < end => call.start = call.la
        <4>1. call.start <= call.la /\ ~(call.start < call.la /\ call.start # end)
          BY <1>4, <1>9
        <4>2. call.start \in Nat /\ call.la \in Nat /\ end \in Nat /\ call.start <= end
          BY <1>5
        <4> HIDE DEF end
        <4> QED
          BY <4>1, <4>2
      <3> QED
        BY <2>1, <3>1 DEF TailEnd
    <2>3. \A k \in 0 .. d0.start - call.seg.va - 1 : ByteOK(vm', call.m, call.seg, k, call.err)
      BY <1>8, <1>9, <2>1
    <2>4. LoadedTo(vm', call.m, call.prog, Passed(call) - 1) /\ MemInv(vm')
      BY <1>3, <1>8, <1>9
    <2> QED
      BY <1>1, <1>7, <1>9, <2>2, <2>3, <2>4, TailDone
  <1>10. CASE /\ call.start < call.la /\ call.start # end
              /\ vm' = [vm EXCEPT !.data = [vm.data EXCEPT ![f] = N]] /\ call' = d1
    <2>1. /\ off = call.start - b /\ off \in Nat /\ size \in Nat
          /\ call.start + size = IF end < call.la THEN end ELSE call.la
          /\ call.start + size <= b + PG
      <3> HIDE DEF end
      <3>1. call.start < end
        BY <1>5, <1>10
      <3> QED
        BY <1>4, <1>5, <1>10, <3>1, TailPart
    <2> HIDE DEF off, size, end
    <2>2. N \in [0 .. PG - 1 -> Byte] /\ vm.data[f] \in [0 .. PG - 1 -> Byte]
      <3>1. f \in Frames
        BY <1>3, <1>4, PageFrame
      <3>2. vm.data[f] \in [0 .. PG - 1 -> Byte]
        BY <1>3, <3>1 DEF MemInv, Memory
      <3>3. Zero \in Byte
        BY DEF Byte
      <3> HIDE DEF f
      <3> QED
        BY <3>2, <3>3
    <2>3. ASSUME NEW i \in 0 .. PG - 1
          PROVE  N[i] = IF i \in off .. off + size - 1 THEN Zero ELSE vm.data[f][i]
      OBVIOUS
    <2> HIDE DEF N
    <2>4. Rewritten(vm, vm', m, v, N)
      <3> HIDE DEF m, v
      <3> QED
        BY <1>3, <1>4, <1>10, <2>2, Rewrite
    <2>5. /\ MemInv(vm') /\ vm'.mm = vm.mm /\ vm'.data[f] = N
          /\ \A u \in Pages : pte(vm', m, u) = pte(vm, m, u)
          /\ \A u \in Pages : u # v => SameAt(vm, vm', m, u)
      BY <2>4 DEF Rewritten
    <2>6. LoadedTo(vm', m, p, Passed(call) - 1)
      <3>1. vm.mm[m].areas \subseteq vm'.mm[m].areas
        BY <2>5
      <3>2. ASSUME NEW i \in InFile(p), i <= Passed(call) - 1, NEW u \in Pages, In(AreaOf(p[i]), u)
            PROVE  SameAt(vm, vm', m, u)
        <4>1. AreaOf(p[i]) \in vm.mm[m].areas
          BY <1>8, <3>2 DEF LoadedTo
        <4>2. i < Passed(call)
          BY <1>8, <3>2 DEF InFile
        <4>3. AreaOf(p[i]) # a
          BY <1>8, <4>2
        <4>4. u # v
          BY <1>3, <1>4, <3>2, <4>1, <4>3, OneArea
        <4> QED
          BY <2>5, <4>4
      <3> HIDE DEF m, p
      <3> QED
        BY <1>3, <1>8, <3>1, <3>2, LoadedKept
    <2>7. /\ d1 \in Loading /\ d1.op = "zero" /\ d1.m = call.m /\ d1.t = call.t
          /\ d1.left = call.left /\ d1.prog = call.prog /\ d1.seg = call.seg /\ d1.la = call.la
          /\ d1.start = call.start + size /\ d1.err = call.err
      <3>1. call.start + size \in Nat
        BY <1>5, <2>1
      <3> QED
        BY <1>3, <3>1 DEF Loading
    <2> HIDE DEF d1
    <2>8. TailEnd(call, d1)
      <3>1. /\ call.start <= d1.start /\ d1.start <= call.la /\ d1.start <= end
            /\ d1.start < end => d1.start = call.la
        BY <1>5, <1>10, <2>1, <2>7
      <3> QED
        BY <2>7, <3>1 DEF TailEnd, end
    <2>9. ASSUME NEW k \in 0 .. d1.start - h.va - 1 PROVE ByteOK(vm', m, h, k, call.err)
      <3> DEFINE x == h.va + k
      <3>1. x \in Nat /\ h.va <= x /\ x < h.va + h.memsz /\ x < d1.start /\ x - h.va = k /\ k \in Nat
        <4>1. k \in Nat /\ k <= d1.start - h.va - 1 /\ d1.start \in Nat /\ d1.start <= end
          BY <1>5, <2>1, <2>7, <2>8 DEF Loading, TailEnd, end
        <4> QED
          BY <1>5, <4>1, Between DEF end
      <3>2. x \div PG \in Nat /\ In(a, x \div PG)
        BY <1>3, <3>1, ByteArea
      <3>3. x \div PG \in Pages
        BY <1>3, <3>2, AreaTypes
      <3>4. CASE x < call.start
        <4>1. k \in 0 .. call.start - h.va - 1 /\ k < h.filesz
          BY <1>4, <1>5, <3>1, <3>4
        <4>2. ByteOK(vm, m, h, k, call.err)
          BY <1>8, <4>1
        <4>3. CASE x \div PG # v
          BY <2>5, <3>3, <4>2, <4>3, ByteKept
        <4>4. CASE x \div PG = v
          <5>1. call.err = "no" => vm.data[f][x % PG] = <<h.va, k>>
            BY <4>1, <4>2, <4>4 DEF ByteOK
          <5>2. x % PG \in 0 .. PG - 1 /\ x = b + (x % PG)
            <6>1. x % PG \in 0 .. PG - 1 /\ x = PG * (x \div PG) + (x % PG)
              BY <1>5, <3>1, DivMod
            <6>2. PG * v = v * PG
              BY <1>4, <1>5, TableOfPage
            <6>3. x = v * PG + (x % PG)
              BY <4>4, <6>1, <6>2
            <6> QED
              BY <1>4, <6>1, <6>3
          <5>3. x % PG \notin off .. off + size - 1
            <6> DEFINE r == x % PG
            <6>1. r \in 0 .. PG - 1 /\ x = b + r
              BY <5>2
            <6> HIDE DEF r, x, b
            <6>2. r < off
              BY <1>4, <1>5, <2>1, <3>4, <6>1
            <6>3. r \in Int
              BY <6>1
            <6>4. r \notin off .. off + size - 1
              BY <2>1, <6>2, <6>3
            <6> QED
              BY <6>4 DEF r
          <5>4. call.err = "no" => vm'.data[f][x % PG] = <<h.va, k>>
            BY <2>3, <2>5, <5>1, <5>2, <5>3
          <5> QED
            BY <1>4, <2>5, <4>1, <4>4, <5>4 DEF ByteOK
        <4> QED
          BY <4>3, <4>4
      <3>5. CASE x >= call.start
        <4>1. b <= x /\ x < b + PG /\ x \in call.start .. (call.start + size) - 1
          <5> HIDE DEF x, b
          <5>1. b <= call.start
            BY <1>4, <1>5 DEF b
          <5>2. call.start + size <= b + PG /\ d1.start = call.start + size
            BY <2>1, <2>7
          <5> QED
            BY <1>4, <1>5, <2>1, <3>1, <3>5, <5>1, <5>2
        <4>2. x \div PG = v /\ x % PG = x - b
          <5>1. v \in Nat /\ v * PG <= x /\ x < v * PG + PG
            BY <1>4, <4>1, TableOfPage
          <5> QED
            BY <1>4, <3>1, <5>1, PageOfByte
        <4>3. x - b \in 0 .. PG - 1 /\ x - b \in off .. off + size - 1
          <5> HIDE DEF x, b
          <5> QED
            BY <1>4, <1>5, <2>1, <4>1, PartBytes
        <4>4. N[x - b] = Zero
          BY <2>3, <4>3
        <4>5. ~(k < h.filesz)
          BY <1>4, <1>5, <3>1, <3>5
        <4> QED
          BY <1>4, <2>5, <4>2, <4>4, <4>5 DEF ByteOK
      <3> QED
        BY <1>5, <3>1, <3>4, <3>5
    <2> QED
      BY <1>1, <1>7, <1>10, <2>5, <2>6, <2>8, <2>9, TailDone
  <1> QED
    BY <1>6, <1>9, <1>10

\* A step of load_icode() in the same address space.
LEMMA ExecGoes ==
    ASSUME VInv, NEW op \in {"segment", "file", "zero", "stack"}, At(op),
           NEW d \in Calls, d # None, d.op # "dup", d.m = call.m, d.t = call.t, call' = d,
           MemInv(vm'), SameSpaces(vm, vm'), owner' = owner, halted' = halted,
           d.op = "segment" => ReadInv(vm', d),
           d.op \in {"file", "zero"} => LoadInv(vm', d),
           d.op = "stack" => StackInv(vm', d)
    PROVE  VInv'
  <1>1. Execing(vm, owner, call) /\ halted = "no"
    BY InExec
  <1>2. OwnerInv(vm, owner, call) /\ call \in Calls /\ call # None /\ owner[call.t] = None
    BY <1>1 DEF Execing
  <1>3. OwnerInv(vm', owner, d)
    BY <1>2, OwnersKept
  <1>4. CallInv(vm', owner, d)
    BY <1>2 DEF CallInv
  <1>5. StateInv(vm', owner', call')
    BY <1>3, <1>4 DEF StateInv
  <1> QED
    BY <1>1, <1>5, Goes

LEMMA ReadFailsStep ==
    ASSUME VInv, ReadFails
    PROVE  VInv'
  <1>1. Exec_fails /\ (At("segment") \/ At("file"))
    BY DEF ReadFails
  <1>2. CASE At("segment")
    BY <1>1, <1>2, ExecFails
  <1>3. CASE At("file")
    BY <1>1, <1>3, ExecFails
  <1> QED
    BY <1>1, <1>2, <1>3

LEMMA LoadedLess ==
    ASSUME NEW s, NEW m, NEW p, NEW n \in Int, NEW k \in Int, k <= n, LoadedTo(s, m, p, n)
    PROVE  LoadedTo(s, m, p, k)
  <1>1. \A i \in InFile(p) : i <= k => i <= n
    BY DEF InFile
  <1> QED
    BY <1>1 DEF LoadedTo

LEMMA AreasMore ==
    ASSUME NEW s, NEW m, NEW p, NEW n \in Int, NEW k \in Int, n <= k, AreasFrom(s, m, p, n)
    PROVE  AreasFrom(s, m, p, k)
  <1>1. \A i \in InFile(p) : i <= n => i <= k
    BY DEF InFile
  <1> QED
    BY <1>1 DEF AreasFrom

LEMMA JunkHeaderStep ==
    ASSUME VInv, JunkHeader
    PROVE  VInv'
  <1> DEFINE m == call.m
             p == call.prog
             n == Passed(call)
             elf == [call EXCEPT !.left = << >>, !.err = "elf"]
             skip == [call EXCEPT !.left = Tail(@), !.err = "read"]
             bad == [call EXCEPT !.err = "read"]
  <1>1. At("segment") /\ call.err = "no" /\ vm' = vm /\ owner' = owner
    BY DEF JunkHeader
  <1>2. Execing(vm, owner, call) /\ halted = "no" /\ call.op = "segment"
    BY <1>1, InExec
  <1>3. /\ MemInv(vm) /\ OwnerInv(vm, owner, call) /\ call \in Calls /\ call # None
        /\ m \in MMs /\ call.t \in Tasks /\ owner[call.t] = None /\ ReadInv(vm, call)
    BY <1>2 DEF Execing, CallInv
  <1>4. call \in Reading
    BY <1>2, <1>3, CallTypes
  <1>5. Rest(p, call.left) /\ LoadedTo(vm, m, p, n) /\ AreasFrom(vm, m, p, n)
    BY <1>1, <1>3 DEF ReadInv, Sure
  <1>6. /\ p \in Seq(Segment) /\ call.left \in Seq(Segment) /\ Len(p) \in Nat
        /\ Len(call.left) \in Nat /\ n \in Nat /\ n <= Len(p) /\ n = Len(p) - Len(call.left)
    <2>1. p \in Seq(Segment) /\ call.left \in Seq(Segment)
      BY <1>4, ProgramsAssumption DEF Reading
    <2>2. Len(call.left) <= Len(p)
      BY <1>5 DEF Rest
    <2>3. n = Len(p) - Len(call.left) /\ Len(p) \in Nat /\ Len(call.left) \in Nat
      BY <2>1 DEF Passed
    <2> HIDE DEF n, p
    <2>4. n \in Nat /\ n <= Len(p)
      BY <2>2, <2>3
    <2> QED
      BY <2>1, <2>3, <2>4
  <1>7. ASSUME NEW d \in Reading, d.op = "segment", d.m = m, d.t = call.t, d.prog = p,
               ReadInv(vm, d), call' = d
        PROVE  StateInv(vm', owner', call')
    <2>1. d \in Calls /\ d # None
      BY NoneIs DEF Calls
    <2>2. SameSpaces(vm, vm)
      BY DEF SameSpaces
    <2>3. OwnerInv(vm, owner, d)
      BY <1>3, <1>7, <2>1, <2>2, OwnersKept
    <2>4. CallInv(vm, owner, d)
      BY <1>3, <1>7 DEF CallInv
    <2> QED
      BY <1>1, <1>3, <1>7, <2>1, <2>3, <2>4 DEF StateInv
  <1> HIDE DEF n
  <1>11. /\ n \in Int /\ Len(p) \in Int /\ 0 \in Int /\ 0 <= n /\ n <= Len(p)
         /\ n - 1 \in Int /\ n - 1 <= n /\ n + 1 \in Int /\ n <= n + 1 /\ (n + 1) - 1 = n
    <2>1. n \in Nat /\ Len(p) \in Nat /\ n <= Len(p)
      BY <1>6
    <2> HIDE DEF p
    <2> QED
      BY <2>1
  <1>8. CASE call.left = call.prog /\ call' = elf /\ halted' = halted
    <2>1. /\ elf \in Reading /\ elf.op = "segment" /\ elf.m = m /\ elf.t = call.t
          /\ elf.left = << >> /\ elf.prog = p /\ elf.err = "elf"
      <3>1. << >> \in Seq(Segment)
        OBVIOUS
      <3> QED
        BY <1>2, <1>4, <3>1 DEF Reading, Errors
    <2> HIDE DEF elf
    <2>2. Passed(elf) = Len(p) /\ Rest(p, << >>) /\ Sure(Len(p), "elf") = 0
      <3>1. Len(<< >>) = 0 /\ 1 .. 0 = {}
        OBVIOUS
      <3>2. Passed(elf) = Len(p) - Len(<< >>)
        BY <2>1 DEF Passed
      <3>3. Sure(Len(p), "elf") = 0
        BY DEF Sure
      <3> HIDE DEF p
      <3>4. Rest(p, << >>)
        BY <1>6, <3>1 DEF Rest
      <3> QED
        BY <1>6, <3>1, <3>2, <3>3, <3>4
    <2>3. LoadedTo(vm, m, p, 0)
      <3> HIDE DEF m, p
      <3> QED
        BY <1>5, <1>11, LoadedLess
    <2>4. AreasFrom(vm, m, p, Len(p))
      <3> HIDE DEF m, p
      <3> QED
        BY <1>5, <1>11, AreasMore
    <2>5. ReadInv(vm, elf)
      BY <2>1, <2>2, <2>3, <2>4 DEF ReadInv
    <2> QED
      BY <1>2, <1>7, <1>8, <2>1, <2>5, Goes
  <1>9. CASE call.left # << >> /\ call' = skip /\ halted' = halted
    <2>1. /\ Tail(call.left) \in Seq(Segment) /\ Rest(p, Tail(call.left))
          /\ Len(Tail(call.left)) = Len(call.left) - 1
      BY <1>4, <1>5, <1>9, NextSegment
    <2>2. /\ skip \in Reading /\ skip.op = "segment" /\ skip.m = m /\ skip.t = call.t
          /\ skip.left = Tail(call.left) /\ skip.prog = p /\ skip.err = "read"
      BY <1>2, <1>4, <2>1 DEF Reading, Errors
    <2> HIDE DEF skip
    <2>3. Passed(skip) = n + 1
      <3>1. Passed(skip) = Len(p) - (Len(call.left) - 1)
        BY <2>1, <2>2 DEF Passed
      <3> QED
        BY <1>6, <3>1, LessOne
    <2>4. Sure(n + 1, "read") = n
      BY <1>11 DEF Sure
    <2>5. AreasFrom(vm, m, p, n + 1)
      <3> HIDE DEF m, p
      <3> QED
        BY <1>5, <1>11, AreasMore
    <2>6. ReadInv(vm, skip)
      BY <1>5, <2>1, <2>2, <2>3, <2>4, <2>5 DEF ReadInv
    <2> QED
      BY <1>2, <1>7, <1>9, <2>2, <2>6, Goes
  <1>10. CASE call' = bad /\ halted' = "overlap"
    <2>1. /\ bad \in Reading /\ bad.op = "segment" /\ bad.m = m /\ bad.t = call.t
          /\ bad.left = call.left /\ bad.prog = p /\ bad.err = "read"
      BY <1>2, <1>4 DEF Reading, Errors
    <2> HIDE DEF bad
    <2>2. Passed(bad) = n /\ Sure(n, "read") = n - 1
      BY <2>1 DEF Passed, n, Sure
    <2>3. LoadedTo(vm, m, p, n - 1)
      <3> HIDE DEF m, p
      <3> QED
        BY <1>5, <1>11, LoadedLess
    <2>4. ReadInv(vm, bad)
      BY <1>5, <2>1, <2>2, <2>3 DEF ReadInv
    <2>5. StateInv(vm', owner', call')
      BY <1>7, <1>10, <2>1, <2>4
    <2> QED
      BY <1>10, <2>1, <2>5 DEF VInv, PanicsExplained
  <1> QED
    BY <1>8, <1>9, <1>10 DEF JunkHeader

LEMMA NextSegmentStep ==
    ASSUME VInv, next_segment
    PROVE  VInv'
  <1> DEFINE m == call.m
             p == call.prog
             n == Passed(call)
             d == [op |-> "segment", t |-> call.t, m |-> call.m, left |-> call.left,
                   prog |-> call.prog, err |-> call.err]
  <1>1. /\ At("zero") /\ call.start >= call.seg.va + call.seg.memsz /\ call' = d
        /\ vm' = vm /\ owner' = owner /\ halted' = halted
    BY DEF next_segment, seg
  <1>2. Filling(vm, owner, call) /\ call.op = "zero"
    BY <1>1, InFilling
  <1>3. /\ MemInv(vm) /\ call \in Loading /\ LoadInv(vm, call) /\ PlaceInv(call)
        /\ call.start \in Nat /\ call.seg.va \in Nat /\ call.seg.memsz \in Nat
    BY <1>2 DEF Filling, Execing
  <1>4. call.start = call.seg.va + call.seg.memsz
    <2>1. call.start <= call.seg.va + call.seg.memsz
      BY <1>2, <1>3 DEF PlaceInv, EndOf
    <2> QED
      BY <1>1, <1>3, <2>1
  <1>5. /\ Rest(p, call.left) /\ n \in Int /\ call.seg = p[n]
        /\ LoadedTo(vm, m, p, n - 1) /\ AreasFrom(vm, m, p, n) /\ AreaOf(call.seg) \in vm.mm[m].areas
        /\ \A k \in 0 .. call.start - call.seg.va - 1 : ByteOK(vm, m, call.seg, k, call.err)
        /\ call.err # "elf"
    <2>1. Len(p) \in Nat /\ Len(call.left) \in Nat
      BY <1>3, ProgramsAssumption DEF Loading
    <2>2. n \in Int
      BY <2>1 DEF Passed
    <2> QED
      BY <1>3, <2>2 DEF LoadInv
  <1> HIDE DEF n
  <1>6. LoadedTo(vm, m, p, Sure(n, call.err))
    <2>2. CASE call.err # "no"
      <3>1. Sure(n, call.err) = n - 1
        BY <1>3, <1>5, <2>2 DEF Loading, Errors, Sure
      <3> QED
        BY <1>5, <3>1
    <2>1. CASE call.err = "no"
      <3>1. SUFFICES ASSUME NEW i \in InFile(p), i <= n
                     PROVE  /\ AreaOf(p[i]) \in vm.mm[m].areas
                            /\ \A k \in 0 .. p[i].memsz - 1 : ByteOK(vm, m, p[i], k, "no")
        BY <2>1 DEF LoadedTo, Sure
      <3>2. CASE i = n
        <4>1. (call.seg.va + call.seg.memsz) - call.seg.va - 1 = call.seg.memsz - 1
          BY <1>3
        <4> QED
          BY <1>4, <1>5, <2>1, <3>2, <4>1
      <3>3. CASE i # n
        <4>1. i <= n - 1
          BY <1>5, <3>1, <3>3 DEF InFile
        <4> QED
          BY <1>5, <4>1 DEF LoadedTo
      <3> QED
        BY <3>2, <3>3
    <2> QED
      BY <2>1, <2>2
  <1>7. /\ d \in Reading /\ d.op = "segment" /\ d.m = call.m /\ d.t = call.t
        /\ d.left = call.left /\ d.prog = p /\ d.err = call.err
    BY <1>3 DEF Loading, Reading
  <1> HIDE DEF d
  <1>8. Passed(d) = n
    BY <1>7 DEF Passed, n
  <1>9. ReadInv(vm', d)
    BY <1>1, <1>5, <1>6, <1>7, <1>8 DEF ReadInv
  <1>10. d \in Calls /\ d # None
    BY <1>7, NoneIs DEF Calls
  <1>11. SameSpaces(vm, vm') /\ MemInv(vm')
    BY <1>1, <1>3 DEF SameSpaces
  <1> QED
    BY <1>1, <1>7, <1>9, <1>10, <1>11, ExecGoes

LEMMA StackIs ==
    /\ StackArea.start \in Nat /\ StackArea.end \in Nat /\ StackArea.flags = {"R", "W"}
    /\ StackArea.start = NPages - StackPages /\ StackArea.end = NPages
    /\ StackArea = [start |-> StackArea.start, end |-> StackArea.end, flags |-> StackArea.flags]
    /\ \A j \in 1 .. StackPages : NPages - j \in Pages /\ In(StackArea, NPages - j)
  <1>1. /\ StackArea.start = NPages - StackPages /\ StackArea.end = NPages
        /\ StackArea.flags = {"R", "W"}
        /\ StackArea = [start |-> StackArea.start, end |-> StackArea.end, flags |-> StackArea.flags]
    BY DEF StackArea
  <1>2. NPages - StackPages \in Nat /\ NPages \in Nat /\ StackPages \in Nat
    BY PagesAssumption
  <1>3. ASSUME NEW j \in 1 .. StackPages PROVE NPages - j \in Pages /\ In(StackArea, NPages - j)
    BY <1>1, <1>2 DEF Pages, In
  <1> QED
    BY <1>1, <1>2, <1>3

LEMMA MapStackStep ==
    ASSUME VInv, map_stack
    PROVE  VInv'
  <1> DEFINE a == StackArea
             m == call.m
             p == call.prog
             d == [op |-> "stack", t |-> call.t, m |-> call.m, k |-> 1, prog |-> call.prog,
                   err |-> call.err]
             n == Sure(Len(call.prog), call.err)
  <1>1. At("segment") /\ call.left = << >>
    BY DEF map_stack
  <1>2. Execing(vm, owner, call) /\ halted = "no" /\ call.op = "segment"
    BY <1>1, InExec
  <1>3. /\ MemInv(vm) /\ OwnerInv(vm, owner, call) /\ call \in Calls /\ call # None
        /\ m \in MMs /\ vm.mm[m] # None /\ call.t \in Tasks /\ ReadInv(vm, call)
    BY <1>2 DEF Execing, CallInv
  <1>4. call \in Reading
    BY <1>2, <1>3, CallTypes
  <1>5. /\ p \in Programs /\ p \in Seq(Segment) /\ Len(p) \in Nat
        /\ LoadedTo(vm, m, p, n) /\ AreasFrom(vm, m, p, Len(p))
    <2>1. p \in Programs /\ p \in Seq(Segment) /\ Len(p) \in Nat
      BY <1>4, ProgramsAssumption DEF Reading
    <2>2. Passed(call) = Len(p)
      BY <1>1, <2>1 DEF Passed
    <2> QED
      BY <1>3, <2>1, <2>2 DEF ReadInv
  <1>6. \/ Exec_fails
        \/ ~unmappable(vm, m, a) /\ ~insertable(vm, m, a) /\ Halt("overlap")
        \/ /\ ~unmappable(vm, m, a) /\ insertable(vm, m, a)
           /\ vm' = insert_vma(vm, m, a) /\ call' = d /\ owner' = owner /\ halted' = halted
    <2> HIDE DEF a
    <2> QED
      BY DEF map_stack, a
  <1>7. /\ a.start \in Nat /\ a.end \in Nat /\ a.flags \in SUBSET {"R", "W"}
        /\ a = [start |-> a.start, end |-> a.end, flags |-> a.flags]
    BY StackIs
  <1> HIDE DEF a
  <1>8. CASE Exec_fails
    BY <1>1, <1>8, ExecFails
  <1>9. CASE ~unmappable(vm, m, a) /\ ~insertable(vm, m, a) /\ Halt("overlap")
    <2>1. PICK b \in vm.mm[m].areas : b.start > a.start
      BY <1>3, <1>7, <1>9, Mappable
    <2>2. PICK i \in InFile(p) : b = AreaOf(p[i])
      BY <1>5 DEF AreasFrom
    <2>3. i \in DOMAIN p /\ p[i] \in Segment
      BY <1>5 DEF InFile
    <2>4. p[i].va \div PG > a.start
      BY <2>1, <2>2, <2>3, AreaBounds
    <2>5. Tangled(p)
      BY <2>3, <2>4 DEF Tangled, a
    <2>6. PanicsExplained'
      BY <1>2, <1>9, <2>5 DEF PanicsExplained, Halt
    <2> QED
      BY <1>9, <2>6, Halts
  <1>10. CASE /\ ~unmappable(vm, m, a) /\ insertable(vm, m, a)
              /\ vm' = insert_vma(vm, m, a) /\ call' = d /\ owner' = owner /\ halted' = halted
    <2>1. a \in VirtMemArea_t /\ a.start < a.end /\ a \notin vm.mm[m].areas
      BY <1>3, <1>7, <1>10, Mappable
    <2>2. Respaced(vm, vm', m, vm.mm[m].areas \cup {a}, vm.mm[m].ref)
      BY <1>3, <1>10, <2>1, InsertVma
    <2>3. /\ d \in Stacking /\ d.op = "stack" /\ d.m = call.m /\ d.t = call.t
          /\ d.k = 1 /\ d.prog = p /\ d.err = call.err
      BY <1>3, <1>4, <1>5 DEF Stacking, Reading
    <2> HIDE DEF d
    <2>4. LoadedTo(vm', m, p, n)
      <3> HIDE DEF m, p, a, n
      <3> QED
        BY <1>3, <1>5, <2>2, LoadedWith
    <2>5. \A u \in Pages : In(a, u) => pte(vm', m, u) = None
      BY <1>3, <2>1, <2>2, FreshArea
    <2>6. \A j \in 1 .. StackPages : pte(vm', m, NPages - j) = None
      BY <2>5, StackIs DEF a
    <2>7. a \in vm'.mm[m].areas /\ MemInv(vm') /\ SameSpaces(vm, vm')
      BY <1>3, <2>2 DEF Respaced, SameSpaces
    <2>8. 1 \in 1 .. Preloaded + 1
      BY PagesAssumption
    <2>9. StackInv(vm', d)
      BY <2>3, <2>4, <2>6, <2>7, <2>8 DEF StackInv, a
    <2>10. d \in Calls /\ d # None
      BY <2>3, NoneIs DEF Calls
    <2> QED
      BY <1>1, <1>10, <2>3, <2>7, <2>9, <2>10, ExecGoes
  <1> QED
    BY <1>6, <1>8, <1>9, <1>10

\* Without memory for a page and its table, one frame is free at most.
LEMMA NoPage ==
    ASSUME NEW s \in Memory, NEW m, NEW v, ~canAlloc(s, m, v)
    PROVE  Cardinality(s.free) <= 1
  <1>1. s.free \subseteq {first(s)}
    <2>1. allocPhyPages(s).free = s.free \ {first(s)}
      BY DEF allocPhyPages, Memory
    <2>2. s.free = {} \/ allocPhyPages(s).free = {}
      BY DEF canAlloc, canGet
    <2> QED
      BY <2>1, <2>2
  <1> QED
    BY <1>1, FewFree

LEMMA StackPageStep ==
    ASSUME VInv, stack_page
    PROVE  VInv'
  <1> DEFINE m == call.m
             p == call.prog
             v == NPages - call.k
             d == [call EXCEPT !.k = @ + 1]
             n == Sure(Len(call.prog), call.err)
  <1>1. At("stack") /\ call.k <= Preloaded
    BY DEF stack_page
  <1>2. Execing(vm, owner, call) /\ halted = "no" /\ call.op = "stack"
    BY <1>1, InExec
  <1>3. /\ MemInv(vm) /\ call \in Calls /\ call # None
        /\ m \in MMs /\ vm.mm[m] # None /\ StackInv(vm, call)
    BY <1>2 DEF Execing, CallInv
  <1>4. call \in Stacking /\ p \in Seq(Segment)
    BY <1>2, <1>3, CallTypes, ProgramsAssumption DEF Stacking
  <1>5. /\ StackArea \in vm.mm[m].areas /\ LoadedTo(vm, m, p, n)
        /\ call.k \in 1 .. Preloaded + 1
        /\ \A j \in call.k .. StackPages : pte(vm, m, NPages - j) = None
    BY <1>3 DEF StackInv
  <1>6. /\ call.k \in 1 .. StackPages /\ call.k \in call.k .. StackPages
        /\ call.k + 1 \in 1 .. Preloaded + 1 /\ call.k \in Nat
    BY <1>1, <1>5, PagesAssumption
  <1>7. v \in Pages /\ In(StackArea, v) /\ pte(vm, m, v) = None
    BY <1>5, <1>6, StackIs
  <1>8. \/ ~canAlloc(vm, m, v) /\ Halt("no_memory")
        \/ /\ canAlloc(vm, m, v) /\ vm' = pgdir_alloc_page(vm, m, v, TRUE) /\ call' = d
           /\ owner' = owner /\ halted' = halted
    BY DEF stack_page
  <1>9. CASE ~canAlloc(vm, m, v) /\ Halt("no_memory")
    <2>1. Cardinality(vm.free) <= 1
      <3>1. vm \in Memory /\ ~canAlloc(vm, m, v)
        BY <1>3, <1>9 DEF MemInv
      <3> QED
        BY <3>1, NoPage
    <2>2. PanicsExplained'
      BY <1>9, <2>1 DEF PanicsExplained, Halt
    <2> QED
      BY <1>9, <2>2, Halts
  <1>10. CASE /\ canAlloc(vm, m, v) /\ vm' = pgdir_alloc_page(vm, m, v, TRUE) /\ call' = d
              /\ owner' = owner /\ halted' = halted
    <2>1. MemInv(vm') /\ PageAdded(vm, vm', m, v, TRUE, first(vm))
      <3>1. \E a \in vm.mm[m].areas : In(a, v) /\ (TRUE <=> "W" \in a.flags)
        BY <1>5, <1>7, StackIs
      <3> HIDE DEF v, m
      <3> QED
        BY <1>3, <1>7, <1>10, <3>1, AllocMem
    <2> HIDE DEF v
    <2>2. /\ vm'.mm[m] # None /\ \A o \in MMs : o # m => vm'.mm[o] = vm.mm[o]
          /\ vm'.mm[m].areas = vm.mm[m].areas /\ vm'.mm[m].ref = vm.mm[m].ref /\ vm'.data = vm.data
          /\ \A u \in Pages : u # v => pte(vm', m, u) = pte(vm, m, u)
      BY <2>1 DEF PageAdded
    <2>3. \A u \in Pages : SameAt(vm, vm', m, u)
      BY <1>7, <2>2 DEF SameAt
    <2>4. LoadedTo(vm', m, p, n)
      <3>1. vm.mm[m].areas \subseteq vm'.mm[m].areas
        BY <2>2
      <3>2. \A i \in InFile(p) : i <= n =>
                \A u \in Pages : In(AreaOf(p[i]), u) => SameAt(vm, vm', m, u)
        BY <2>3
      <3> HIDE DEF m, p, n
      <3> QED
        BY <1>3, <1>4, <1>5, <3>1, <3>2, LoadedKept
    <2>5. d \in Stacking /\ d.op = "stack" /\ d.m = m /\ d.t = call.t /\ d.prog = p /\ d.k = call.k + 1
          /\ d.err = call.err
      BY <1>2, <1>4, <1>6 DEF Stacking
    <2> HIDE DEF d
    <2>6. ASSUME NEW j \in call.k + 1 .. StackPages PROVE pte(vm', m, NPages - j) = None
      <3>1. j \in call.k .. StackPages /\ j \in 1 .. StackPages /\ NPages - j # v
        BY <1>6, PagesAssumption DEF v
      <3>2. NPages - j \in Pages
        BY <3>1, StackIs
      <3> QED
        BY <1>5, <2>2, <3>1, <3>2
    <2>7. StackInv(vm', d)
      BY <1>5, <1>6, <2>2, <2>4, <2>5, <2>6 DEF StackInv
    <2>8. d \in Calls /\ d # None
      BY <2>5, NoneIs DEF Calls
    <2>9. SameSpaces(vm, vm')
      BY <1>3, <2>2 DEF SameSpaces
    <2> QED
      BY <1>1, <1>10, <2>1, <2>5, <2>7, <2>8, <2>9, ExecGoes
  <1> QED
    BY <1>8, <1>9, <1>10

LEMMA ExecEndsStep ==
    ASSUME VInv, ExecEnds
    PROVE  VInv'
  <1>1. /\ At("stack") /\ vm' = [vm EXCEPT !.mm[call.m].ref = @ + 1]
        /\ owner' = [owner EXCEPT ![call.t] = call.m] /\ call' = None /\ halted' = halted
    BY DEF ExecEnds
  <1>2. Execing(vm, owner, call) /\ halted = "no"
    BY <1>1, InExec
  <1>3. /\ MemInv(vm) /\ OwnerInv(vm, owner, call) /\ call \in Calls /\ call # None
        /\ call.m \in MMs /\ vm.mm[call.m] # None /\ call.t \in Tasks /\ owner[call.t] \notin MMs
    BY <1>2 DEF Execing
  <1>4. vm.mm[call.m].ref = 0
    BY <1>3 DEF OwnerInv
  <1>5. vm' = [vm EXCEPT !.mm[call.m].ref = 1]
    BY <1>1, <1>4
  <1>6. Respaced(vm, vm', call.m, vm.mm[call.m].areas, 1)
    BY <1>3, <1>5, NewRef
  <1>7. OwnerInv(vm', owner', None)
    BY <1>1, <1>3, <1>6, OwnersDone
  <1>8. StateInv(vm', owner', call')
    BY <1>1, <1>6, <1>7 DEF StateInv, CallInv, Calls, Respaced
  <1> QED
    BY <1>1, <1>2, <1>8, Goes

----------------------------------------------------------------------------
(* Page faults and stores                                                  *)

LEMMA UnhandledStep ==
    ASSUME VInv, Idle, NEW t \in Tasks, owner[t] \in MMs,
           NEW s, MemInv(s), OwnerInv(s, owner, None), NEW kernel, Unhandled(t, s, kernel)
    PROVE  VInv'
  <1>1. call = None /\ halted = "no" /\ owner[t] # Dead
    BY IdleIs, NamesAssumption
  <1>2. CASE Halt("kernel_fault")
    <2>1. PanicsExplained'
      BY <1>2 DEF PanicsExplained, Halt
    <2> QED
      BY <1>2, <2>1, Halts
  <1>3. CASE Killed(t, s)
    <2>1. /\ vm' = released(s, owner[t]) /\ owner' = [owner EXCEPT ![t] = Dead]
          /\ call' = call /\ halted' = halted
      BY <1>3 DEF Killed
    <2>2. MemInv(vm') /\ OwnerInv(vm', owner', None)
      BY <1>1, <2>1, Leaves
    <2>3. StateInv(vm', owner', call')
      BY <1>1, <2>1, <2>2 DEF StateInv, CallInv, Calls
    <2> QED
      BY <1>1, <2>1, <2>3, Goes
  <1> QED
    BY <1>2, <1>3 DEF Unhandled

LEMMA PgfaultStep ==
    ASSUME VInv, NEW t \in Tasks, NEW v \in Pages, NEW write \in BOOLEAN, NEW kernel \in BOOLEAN,
           do_pgfault(t, v, write, kernel)
    PROVE  VInv'
  <1> DEFINE m == owner[t]
             as == find_vma(vm, m, v)
             e == pte(vm, m, v)
             ok == as # {} /\ \A a \in as : allowed(a, e, write)
             w == \E a \in as : "W" \in a.flags
             g == get_pte(vm, m, v)
  <1>1. /\ Idle /\ m \in MMs /\ (e # None => write /\ ~e.w)
    BY DEF do_pgfault, Faults
  <1>2. \/ Unhandled(t, vm, kernel)
        \/ ok /\ e # None
        \/ ok /\ canGet(vm, m, v) /\ e = None /\ Unhandled(t, g, kernel)
        \/ /\ ok /\ canGet(vm, m, v) /\ e = None /\ canAlloc(g, m, v)
           /\ vm' = pgdir_alloc_page(g, m, v, w) /\ owner' = owner /\ call' = call
           /\ halted' = halted
    <2> HIDE DEF as, g, e, ok, w
    <2> QED
      BY DEF do_pgfault, as, g, e, ok, w
  <1>3. MemInv(vm) /\ OwnerInv(vm, owner, None) /\ call = None /\ halted = "no"
    BY <1>1, IdleIs
  <1>4. vm.mm[m] # None
    BY <1>1, <1>3 DEF OwnerInv
  <1>5. \A a \in vm.mm[m].areas : a \in as <=> In(a, v)
    BY <1>1, <1>3, <1>4, AreaTypes, TableOfPage DEF find_vma
  <1>10. as \subseteq vm.mm[m].areas /\ w \in BOOLEAN
    BY DEF find_vma
  <1>6. ASSUME ok, e # None PROVE FALSE
    <2>1. PICK a \in vm.mm[m].areas : In(a, v) /\ (e.w <=> "W" \in a.flags)
      BY <1>1, <1>3, <1>4, <1>6, PageArea
    <2>2. allowed(a, e, write)
      BY <1>5, <1>6, <2>1
    <2> HIDE DEF e
    <2> QED
      BY <1>1, <1>6, <2>1, <2>2 DEF allowed
  <1>7. ASSUME ok, canGet(vm, m, v), e = None
        PROVE  MemInv(g) /\ Gets(vm, g, m, v) /\ OwnerInv(g, owner, None)
    <2>1. \E a \in vm.mm[m].areas : In(a, v)
      BY <1>5, <1>7, <1>10
    <2>2. MemInv(g) /\ Gets(vm, g, m, v)
      BY <1>1, <1>3, <1>4, <1>7, <2>1, GetMem
    <2>3. SameSpaces(vm, g)
      <3> HIDE DEF g
      <3> QED
        BY <1>1, <1>4, <2>2 DEF Gets, SameSpaces
    <2>4. None \in Calls
      BY DEF Calls
    <2> HIDE DEF g
    <2>5. OwnerInv(g, owner, None)
      BY <1>3, <2>3, <2>4, OwnersKept
    <2> QED
      BY <2>2, <2>5
  <1> HIDE DEF g
  <1>8. CASE ok /\ canGet(vm, m, v) /\ e = None /\ Unhandled(t, g, kernel)
    BY <1>1, <1>7, <1>8, UnhandledStep
  <1>9. CASE /\ ok /\ canGet(vm, m, v) /\ e = None /\ canAlloc(g, m, v)
             /\ vm' = pgdir_alloc_page(g, m, v, w) /\ owner' = owner /\ call' = call
             /\ halted' = halted
    <2>1. /\ MemInv(g) /\ Gets(vm, g, m, v) /\ OwnerInv(g, owner, None)
      BY <1>7, <1>9
    <2>2. g.mm[m] # None /\ g.mm[m].areas = vm.mm[m].areas /\ pte(g, m, v) = None
      BY <1>9, <2>1 DEF Gets
    <2>3. \E a \in g.mm[m].areas : In(a, v) /\ (w <=> "W" \in a.flags)
      <3>1. PICK a \in as : TRUE
        BY <1>9
      <3>2. a \in vm.mm[m].areas /\ In(a, v)
        BY <1>5, <1>10, <3>1
      <3>3. \A b \in as : b = a
        BY <1>1, <1>3, <1>4, <1>5, <1>10, <3>2, OneArea
      <3>4. w <=> "W" \in a.flags
        BY <3>1, <3>3
      <3> HIDE DEF w
      <3> QED
        BY <2>2, <3>2, <3>4
    <2> HIDE DEF w, m, as
    <2>4. MemInv(vm') /\ PageAdded(g, vm', m, v, w, first(g))
      BY <1>1, <1>9, <1>10, <2>1, <2>2, <2>3, AllocMem
    <2>5. SameSpaces(g, vm')
      BY <1>1, <2>2, <2>4 DEF PageAdded, SameSpaces
    <2>6. None \in Calls
      BY DEF Calls
    <2>7. OwnerInv(vm', owner, None)
      BY <2>1, <2>5, <2>6, OwnersKept
    <2>8. StateInv(vm', owner', call')
      BY <1>3, <1>9, <2>4, <2>6, <2>7 DEF StateInv, CallInv
    <2> QED
      BY <1>3, <1>9, <2>8, Goes
  <1>11. CASE Unhandled(t, vm, kernel)
    BY <1>1, <1>3, <1>11, UnhandledStep
  <1> QED
    BY <1>2, <1>6, <1>8, <1>9, <1>11

LEMMA StoreStep ==
    ASSUME VInv, NEW t \in Tasks, NEW v \in Pages, Store(t, v)
    PROVE  VInv'
  <1> DEFINE m == owner[t]
             f == pte(vm, m, v).page
             N == [vm.data[f] EXCEPT ![0] = Stored]
  <1>1. /\ Idle /\ m \in MMs /\ pte(vm, m, v) # None
        /\ vm' = [vm EXCEPT !.data = [vm.data EXCEPT ![f] = N]]
        /\ owner' = owner /\ call' = call /\ halted' = halted
    BY DEF Store
  <1>2. MemInv(vm) /\ OwnerInv(vm, owner, None) /\ call = None /\ halted = "no"
    BY <1>1, IdleIs
  <1>3. vm.mm[m] # None
    BY <1>1, <1>2 DEF OwnerInv
  <1>4. N \in [0 .. PG - 1 -> Byte]
    <2>1. f \in Frames
      BY <1>1, <1>2, <1>3, PageFrame
    <2>2. vm.data[f] \in [0 .. PG - 1 -> Byte]
      BY <1>2, <2>1 DEF MemInv, Memory
    <2>3. Stored \in Byte
      BY DEF Byte
    <2> HIDE DEF f
    <2> QED
      BY <2>2, <2>3
  <1> HIDE DEF N
  <1>5. Rewritten(vm, vm', m, v, N)
    <2> HIDE DEF m
    <2> QED
      BY <1>1, <1>2, <1>3, <1>4, Rewrite
  <1>6. MemInv(vm') /\ vm'.mm = vm.mm
    BY <1>5 DEF Rewritten
  <1>7. OwnerInv(vm', owner, None)
    BY <1>2, <1>6 DEF OwnerInv
  <1>8. StateInv(vm', owner', call')
    BY <1>1, <1>2, <1>6, <1>7 DEF StateInv, CallInv, Calls
  <1> QED
    BY <1>1, <1>2, <1>8, Goes

----------------------------------------------------------------------------
(* The invariant holds.                                                    *)

LEMMA VInit == Init => VInv
  <1> SUFFICES ASSUME Init PROVE VInv
    OBVIOUS
  <1> DEFINE s == [free |-> Frames, ref |-> [f \in Frames |-> 0],
                   data |-> [f \in Frames |-> Empty], mm |-> [m \in MMs |-> None]]
  <1>1. vm = s /\ call = None /\ halted = "no" /\ owner = [t \in Tasks |-> IF t = init_task THEN None ELSE Dead]
    BY DEF Init
  <1>2. /\ s \in Memory /\ s.free = Frames /\ \A f \in Frames : s.ref[f] = 0
        /\ \A m \in MMs : s.mm[m] = None
    <2>1. Empty \in [0 .. PG - 1 -> Byte]
      BY DEF Empty, Byte
    <2> QED
      BY <2>1 DEF Memory
  <1> HIDE DEF s
  <1>3. Exact(Used(s), s.free)
    <2>1. \A x \in Places : Used(s)[x] = None
      <3>1. s \in Memory
        BY <1>2
      <3>2. \A m \in MMs : Used(s)[Dir(m)] = None
        BY <1>2, <3>1, UsedDir
      <3>3. \A m \in MMs, i \in Tables : Used(s)[TableOf(m, i)] = None
        BY <1>2, <3>1, UsedTable
      <3>4. \A m \in MMs, v \in Pages : Used(s)[PageOf(m, v)] = None
        BY <1>2, <3>1, UsedPage
      <3> QED
        BY <3>2, <3>3, <3>4, PlacesAre
    <2> QED
      BY <1>2, <2>1, NoneIs DEF Exact
  <1>4. MemInv(vm)
    BY <1>1, <1>2, <1>3 DEF MemInv, RefsOK
  <1>5. owner \in [Tasks -> {None, Dead}] /\ \A t \in Tasks : owner[t] \notin MMs
    BY <1>1, NamesAssumption
  <1>6. OwnerInv(vm, owner, None)
    BY <1>1, <1>2, <1>5 DEF OwnerInv
  <1>7. StateInv(vm, owner, call)
    BY <1>1, <1>4, <1>6 DEF StateInv, CallInv, Calls
  <1> QED
    BY <1>1, <1>7 DEF VInv, PanicsExplained

LEMMA VStep == VInv /\ [Next]_vars => VInv'
  <1> SUFFICES ASSUME VInv, [Next]_vars PROVE VInv'
    OBVIOUS
  <1>1. CASE UNCHANGED vars
    BY <1>1 DEF vars, VInv, PanicsExplained
  <1>2. CASE dup_mm \/ copy_range \/ ForkEnds
    BY <1>2, DupStep, CopyStep, ForkEndsStep
  <1>3. CASE ReadFails \/ JunkHeader \/ load_segment \/ load_page
    BY <1>3, ReadFailsStep, JunkHeaderStep, LoadSegmentStep, LoadPageStep
  <1>4. CASE clear_tail \/ clear_page \/ next_segment
    BY <1>4, ClearTailStep, ClearPageStep, NextSegmentStep
  <1>5. CASE map_stack \/ stack_page \/ ExecEnds
    BY <1>5, MapStackStep, StackPageStep, ExecEndsStep
  <1>6. CASE Stopped
    BY <1>1, <1>6 DEF Stopped
  <1>7. ASSUME NEW t \in Tasks, do_exit(t) PROVE VInv'
    BY <1>7, ExitStep
  <1>8. ASSUME NEW t \in Tasks, ForkThread(t) PROVE VInv'
    BY <1>8, ForkThreadStep
  <1>9. ASSUME NEW t \in Tasks, NEW c \in Tasks, copy_mm(t, c) PROVE VInv'
    BY <1>9, CopyMMStep
  <1>10. ASSUME NEW t \in Tasks, NEW p \in Programs, do_execve(t, p) PROVE VInv'
    BY <1>10, ExecveStep
  <1>11. ASSUME NEW t \in Tasks, NEW v \in Pages, Store(t, v) PROVE VInv'
    BY <1>11, StoreStep
  <1>12. ASSUME NEW t \in Tasks, NEW v \in Pages, NEW write \in BOOLEAN, NEW kernel \in BOOLEAN,
                do_pgfault(t, v, write, kernel)
         PROVE  VInv'
    BY <1>12, PgfaultStep
  <1> QED
    BY <1>1, <1>2, <1>3, <1>4, <1>5, <1>6, <1>7, <1>8, <1>9, <1>10, <1>11, <1>12 DEF Next

\* In every reachable state the memory, the owners and the call in progress are in
\* order, for every number of tasks, frames and pages and every set of programs.
THEOREM VMMInvariant == Spec => []VInv
  <1>1. Init => VInv
    BY VInit
  <1>2. VInv /\ [Next]_vars => VInv'
    BY VStep
  <1> QED
    BY <1>1, <1>2, PTL DEF Spec

----------------------------------------------------------------------------
(* What the invariant says.                                                *)

\* ref is 1 or 0.
LEMMA Shared ==
    ASSUME VInv, NEW m \in Existing
    PROVE  /\ vm.mm[m].ref = Cardinality({t \in Tasks : owner[t] = m})
           /\ vm.mm[m].ref = 0 => call # None /\ call.m = m
  <1>1. OwnerInv(vm, owner, call) /\ m \in MMs /\ vm.mm[m] # None
    BY DEF VInv, StateInv, Existing
  <1>2. CASE \E t \in Tasks : owner[t] = m
    <2>1. PICK t \in Tasks : owner[t] = m
      BY <1>2
    <2>2. {u \in Tasks : owner[u] = m} = {t}
      BY <1>1, <2>1 DEF OwnerInv
    <2>3. Cardinality({t}) = 1
      BY FS_Singleton
    <2>4. vm.mm[m].ref = 1
      BY <1>1, <2>1 DEF OwnerInv
    <2> QED
      BY <2>2, <2>3, <2>4
  <1>3. CASE ~ \E t \in Tasks : owner[t] = m
    <2>1. call # None /\ call.m = m /\ vm.mm[m].ref = 0
      BY <1>1, <1>3 DEF OwnerInv
    <2>2. {t \in Tasks : owner[t] = m} = {}
      BY <1>3
    <2> QED
      BY <2>1, <2>2, FS_EmptySet
  <1> QED
    BY <1>2, <1>3

LEMMA SpacesAre == VInv => SpacesOK
  <1> SUFFICES ASSUME VInv PROVE SpacesOK
    OBVIOUS
  <1>1. MemInv(vm) /\ OwnerInv(vm, owner, call) /\ call \in Calls
    BY DEF VInv, StateInv
  <1>2. TypeOK
    BY <1>1 DEF VInv, TypeOK, MemInv, OwnerInv, Calls
  <1>3. SharesCounted
    <2>1. ASSUME NEW m \in Existing, NEW v \in Mapped(m) PROVE vm.ref[pte(vm, m, v).page] = 1
      BY <1>1 DEF MemInv, RefsOK, Existing, Mapped
    <2>2. \A t \in Tasks : owner[t] \in MMs => owner[t] \in Existing
      BY <1>1 DEF OwnerInv, Existing
    <2> QED
      BY <2>1, <2>2, Shared DEF SharesCounted
  <1>4. PagesInAreas
    <2>1. SUFFICES ASSUME NEW m \in Existing
                   PROVE  /\ \A a, b \in vm.mm[m].areas : a # b => a.end <= b.start \/ b.end <= a.start
                          /\ \A v \in Mapped(m) : \E a \in vm.mm[m].areas :
                                v \in a.start .. a.end - 1 /\ (pte(vm, m, v).w <=> "W" \in a.flags)
      BY DEF PagesInAreas
    <2>2. m \in MMs /\ vm.mm[m] # None
      BY DEF Existing
    <2>3. \A a, b \in vm.mm[m].areas : a # b => a.end <= b.start \/ b.end <= a.start
      BY <1>1, <2>2 DEF MemInv, MMInv, AreasOK
    <2>4. ASSUME NEW v \in Mapped(m)
          PROVE  \E a \in vm.mm[m].areas :
                    v \in a.start .. a.end - 1 /\ (pte(vm, m, v).w <=> "W" \in a.flags)
      <3>1. v \in Pages /\ v \in Int /\ pte(vm, m, v) # None
        BY TableOfPage DEF Mapped
      <3>2. PICK a \in vm.mm[m].areas : In(a, v) /\ (pte(vm, m, v).w <=> "W" \in a.flags)
        BY <1>1, <2>2, <3>1, PageArea
      <3>3. v \in a.start .. a.end - 1
        BY <1>1, <2>2, <3>1, <3>2, AreaTypes
      <3> QED
        BY <3>2, <3>3
    <2> QED
      BY <2>3, <2>4
  <1> QED
    BY <1>2, <1>3, <1>4 DEF SpacesOK

\* As many frames as places, when no two places have the same one.
LEMMA OneToOne ==
    ASSUME NEW S, IsFiniteSet(S), NEW f, f = [x \in S |-> f[x]],
           \A x, y \in S : f[x] = f[y] => x = y
    PROVE  IsFiniteSet({f[x] : x \in S}) /\ Cardinality({f[x] : x \in S}) = Cardinality(S)
  <1> DEFINE T == {f[x] : x \in S}
  <1>1. f \in Surjection(S, T) /\ f \in Injection(S, T)
    BY DEF Surjection, Injection, IsInjective
  <1> HIDE DEF T
  <1>2. IsFiniteSet(T) /\ Cardinality(T) = Cardinality(S)
    BY <1>1, FS_Surjection
  <1> QED
    BY <1>2 DEF T

LEMMA ThreeSets ==
    ASSUME NEW A, NEW B, NEW C, IsFiniteSet(A), IsFiniteSet(B), IsFiniteSet(C),
           A \cap B = {}, A \cap C = {}, B \cap C = {}
    PROVE  Cardinality(A \cup B \cup C) = Cardinality(A) + Cardinality(B) + Cardinality(C)
  <1>1. IsFiniteSet(A \cup B) /\ Cardinality(A \cup B) = Cardinality(A) + Cardinality(B) - Cardinality(A \cap B)
    BY FS_Union
  <1>2. Cardinality({}) = 0
    BY FS_EmptySet
  <1>3. (A \cup B) \cap C = {}
    OBVIOUS
  <1>4. Cardinality((A \cup B) \cup C) = Cardinality(A \cup B) + Cardinality(C) - Cardinality((A \cup B) \cap C)
    BY <1>1, FS_Union
  <1>5. /\ Cardinality(A) \in Nat /\ Cardinality(B) \in Nat /\ Cardinality(C) \in Nat
        /\ Cardinality(A \cup B) \in Nat
    BY <1>1, FS_CardinalityType
  <1>6. Cardinality(A \cup B) = Cardinality(A) + Cardinality(B)
    <2>1. Cardinality(A \cap B) = 0
      BY <1>2
    <2>2. Cardinality(A \cup B) = Cardinality(A) + Cardinality(B) - Cardinality(A \cap B)
      BY <1>1
    <2> QED
      BY <1>5, <2>1, <2>2
  <1>7. Cardinality((A \cup B) \cup C) = Cardinality(A \cup B) + Cardinality(C)
    <2>1. Cardinality((A \cup B) \cap C) = 0
      BY <1>2, <1>3
    <2> QED
      BY <1>4, <1>5, <2>1
  <1> QED
    BY <1>6, <1>7

LEMMA Pair ==
    ASSUME NEW A, NEW B, NEW u \in A \X B
    PROVE  u[1] \in A /\ u[2] \in B /\ u = <<u[1], u[2]>>
  OBVIOUS

LEMMA FramesAre == VInv => FramesExact
  <1> SUFFICES ASSUME VInv PROVE FramesExact
    OBVIOUS
  <1> DEFINE tables == {u \in Existing \X Tables : vm.mm[u[1]].table[u[2]] # None}
             pages == {u \in Existing \X Pages : pte(vm, u[1], u[2]) # None}
             FD == [m \in Existing |-> vm.mm[m].pgdir]
             FT == [u \in tables |-> vm.mm[u[1]].table[u[2]]]
             FP == [u \in pages |-> pte(vm, u[1], u[2]).page]
             ID == {FD[m] : m \in Existing}
             IT == {FT[u] : u \in tables}
             IP == {FP[u] : u \in pages}
             U == Used(vm)
  <1>1. vm \in Memory /\ Exact(U, vm.free)
    BY DEF VInv, StateInv, MemInv
  <1>2. vm \in Memory /\ None \notin Frames
    BY <1>1, NoneIs
  <1>3. ASSUME NEW m \in Existing
        PROVE  /\ m \in MMs /\ vm.mm[m] # None /\ Dir(m) \in Places
               /\ U[Dir(m)] = vm.mm[m].pgdir /\ vm.mm[m].pgdir \in Frames
    <2>1. m \in MMs /\ vm.mm[m] # None
      BY DEF Existing
    <2>2. vm.mm[m].pgdir \in Frames
      BY <1>2, <2>1 DEF Memory, MemMap_t
    <2> QED
      BY <1>2, <2>1, <2>2, UsedDir
  <1>4. ASSUME NEW u \in tables
        PROVE  /\ u[1] \in MMs /\ u[2] \in Tables /\ u = <<u[1], u[2]>>
               /\ TableOf(u[1], u[2]) \in Places
               /\ U[TableOf(u[1], u[2])] = FT[u] /\ FT[u] \in Frames
    <2>1. u[1] \in Existing /\ u[2] \in Tables /\ u = <<u[1], u[2]>>
      BY Pair
    <2>2. u[1] \in MMs /\ vm.mm[u[1]] # None /\ FT[u] = vm.mm[u[1]].table[u[2]] /\ FT[u] # None
      BY <2>1 DEF Existing
    <2>3. FT[u] \in Frames
      BY <1>2, <2>1, <2>2 DEF Memory, MemMap_t
    <2> HIDE DEF tables, FT
    <2> QED
      BY <1>2, <2>1, <2>2, <2>3, UsedTable
  <1>5. ASSUME NEW u \in pages
        PROVE  /\ u[1] \in MMs /\ u[2] \in Pages /\ u = <<u[1], u[2]>>
               /\ PageOf(u[1], u[2]) \in Places
               /\ U[PageOf(u[1], u[2])] = FP[u] /\ FP[u] \in Frames
    <2>1. u[1] \in Existing /\ u[2] \in Pages /\ u = <<u[1], u[2]>>
      BY Pair
    <2>2. /\ u[1] \in MMs /\ vm.mm[u[1]] # None /\ FP[u] = pte(vm, u[1], u[2]).page
          /\ pte(vm, u[1], u[2]) # None
      BY <2>1 DEF Existing
    <2>3. FP[u] \in Frames
      BY <1>2, <2>1, <2>2, PteType DEF PTE_t
    <2> HIDE DEF pages, FP
    <2> QED
      BY <1>2, <2>1, <2>2, <2>3, UsedPage
  <1>6. \A x, y \in Places : U[x] \in Frames /\ U[x] = U[y] => x = y
    BY <1>1, <1>2 DEF Exact
  <1>7. ID = {vm.mm[m].pgdir : m \in Existing} /\ \A m \in Existing : FD[m] = vm.mm[m].pgdir
    OBVIOUS
  <1>8. IT = {vm.mm[u[1]].table[u[2]] : u \in tables}
    OBVIOUS
  <1>9. IP = {pte(vm, u[1], u[2]).page : u \in pages}
    OBVIOUS
  <1>10. IsFiniteSet(Existing) /\ IsFiniteSet(tables) /\ IsFiniteSet(pages)
    <2>1. IsFiniteSet(Existing)
      BY NamesAssumption, FS_Subset DEF Existing
    <2>2. IsFiniteSet(Pages)
      BY PagesAssumption, FS_Interval DEF Pages
    <2>3. IsFiniteSet(Tables)
      <3>1. (NPages - 1) \div PT \in Int
        BY PagesAssumption
      <3> QED
        BY <3>1, FS_Interval DEF Tables
    <2>4. IsFiniteSet(Existing \X Tables) /\ IsFiniteSet(Existing \X Pages)
      BY <2>1, <2>2, <2>3, FS_Product
    <2> QED
      BY <2>1, <2>4, FS_Subset
  <1>11. FD = [m \in Existing |-> FD[m]] /\ FT = [u \in tables |-> FT[u]] /\ FP = [u \in pages |-> FP[u]]
    OBVIOUS
  <1> HIDE DEF tables, pages, FD, FT, FP, U
  <1>23. ASSUME NEW m \in Existing
         PROVE  Dir(m) \in Places /\ U[Dir(m)] = FD[m] /\ FD[m] \in Frames
    <2>1. FD[m] = vm.mm[m].pgdir
      BY <1>7
    <2> QED
      BY <1>3, <2>1
  <1>12. \A m, n \in Existing : FD[m] = FD[n] => m = n
    <2>1. SUFFICES ASSUME NEW m \in Existing, NEW n \in Existing, FD[m] = FD[n] PROVE m = n
      OBVIOUS
    <2>2. Dir(m) = Dir(n)
      BY <1>6, <1>23, <2>1
    <2> QED
      BY <2>2, PlacesDiffer
  <1>13. \A u, w \in tables : FT[u] = FT[w] => u = w
    <2>1. SUFFICES ASSUME NEW u \in tables, NEW w \in tables, FT[u] = FT[w] PROVE u = w
      OBVIOUS
    <2>2. TableOf(u[1], u[2]) = TableOf(w[1], w[2])
      BY <1>4, <1>6, <2>1
    <2>3. u[1] = w[1] /\ u[2] = w[2]
      BY <2>2, PlacesDiffer
    <2> QED
      BY <1>4, <2>3
  <1>14. \A u, w \in pages : FP[u] = FP[w] => u = w
    <2>1. SUFFICES ASSUME NEW u \in pages, NEW w \in pages, FP[u] = FP[w] PROVE u = w
      OBVIOUS
    <2>2. PageOf(u[1], u[2]) = PageOf(w[1], w[2])
      BY <1>5, <1>6, <2>1
    <2>3. u[1] = w[1] /\ u[2] = w[2]
      BY <2>2, PlacesDiffer
    <2> QED
      BY <1>5, <2>3
  <1>15. IsFiniteSet(ID) /\ Cardinality(ID) = Cardinality(Existing)
    BY <1>10, <1>11, <1>12, OneToOne
  <1>16. IsFiniteSet(IT) /\ Cardinality(IT) = Cardinality(tables)
    BY <1>10, <1>11, <1>13, OneToOne
  <1>17. IsFiniteSet(IP) /\ Cardinality(IP) = Cardinality(pages)
    BY <1>10, <1>11, <1>14, OneToOne
  <1>18. ID \cap IT = {} /\ ID \cap IP = {} /\ IT \cap IP = {}
    <2>1. ASSUME NEW m \in Existing, NEW u \in tables PROVE FD[m] # FT[u]
      BY <1>4, <1>6, <1>23, PlacesDiffer
    <2>2. ASSUME NEW m \in Existing, NEW u \in pages PROVE FD[m] # FP[u]
      <3>1. Dir(m) # PageOf(u[1], u[2])
        BY PlacesDiffer
      <3> QED
        BY <1>5, <1>6, <1>23, <3>1
    <2>3. ASSUME NEW u \in tables, NEW w \in pages PROVE FT[u] # FP[w]
      BY <1>4, <1>5, <1>6, PlacesDiffer
    <2> QED
      BY <2>1, <2>2, <2>3
  <1>19. ID \cup IT \cup IP \subseteq Frames \ vm.free
    <2>1. \A x \in Places : U[x] \in Frames => U[x] \notin vm.free
      BY <1>1 DEF Exact
    <2>2. \A m \in Existing : FD[m] \in Frames \ vm.free
      BY <1>3, <1>7, <2>1
    <2>3. \A u \in tables : FT[u] \in Frames \ vm.free
      BY <1>4, <2>1
    <2>4. \A u \in pages : FP[u] \in Frames \ vm.free
      BY <1>5, <2>1
    <2> QED
      BY <2>2, <2>3, <2>4
  <1>20. ASSUME NEW f \in Frames \ vm.free PROVE f \in ID \cup IT \cup IP
    <2>1. PICK x \in Places : U[x] = f
      BY <1>1 DEF Exact
    <2>2. f \in Frames /\ f # None
      BY <1>2
    <2>3. ASSUME NEW m \in MMs, x = Dir(m) PROVE f \in ID
      <3>1. vm.mm[m] # None /\ vm.mm[m].pgdir = f
        BY <1>2, <2>1, <2>2, <2>3, UsedDir DEF U
      <3> QED
        BY <1>7, <3>1 DEF Existing
    <2>4. ASSUME NEW m \in MMs, NEW i \in Tables, x = TableOf(m, i) PROVE f \in IT
      <3>1. vm.mm[m] # None /\ vm.mm[m].table[i] = f
        BY <1>2, <2>1, <2>2, <2>4, UsedTable DEF U
      <3> DEFINE u == <<m, i>>
      <3>2. u \in tables
        BY <2>2, <3>1 DEF tables, Existing
      <3>3. vm.mm[u[1]].table[u[2]] = f
        BY <3>1
      <3> QED
        BY <1>8, <3>2, <3>3
    <2>5. ASSUME NEW m \in MMs, NEW v \in Pages, x = PageOf(m, v) PROVE f \in IP
      <3>1. vm.mm[m] # None /\ pte(vm, m, v) # None /\ pte(vm, m, v).page = f
        BY <1>2, <2>1, <2>2, <2>5, UsedPage DEF U
      <3> DEFINE u == <<m, v>>
      <3>2. u \in pages
        BY <3>1 DEF pages, Existing
      <3>3. pte(vm, u[1], u[2]).page = f
        BY <3>1
      <3> QED
        BY <1>9, <3>2, <3>3
    <2> QED
      BY <2>3, <2>4, <2>5, PlacesAre
  <1>21. ID \cup IT \cup IP = Frames \ vm.free
    BY <1>19, <1>20
  <1> HIDE DEF ID, IT, IP
  <1>22. Cardinality(ID \cup IT \cup IP) =
            Cardinality(Existing) + Cardinality(tables) + Cardinality(pages)
    BY <1>15, <1>16, <1>17, <1>18, ThreeSets
  <1> DEFINE inUse == {vm.mm[m].pgdir : m \in Existing}
                      \cup {vm.mm[u[1]].table[u[2]] : u \in tables}
                      \cup {pte(vm, u[1], u[2]).page : u \in pages}
  <1>24. inUse = ID \cup IT \cup IP
    BY <1>7, <1>8, <1>9
  <1>25. /\ inUse = Frames \ vm.free
         /\ Cardinality(inUse) = Cardinality(Existing) + Cardinality(tables) + Cardinality(pages)
    <2> HIDE DEF inUse
    <2> QED
      BY <1>21, <1>22, <1>24
  <1> QED
    BY <1>25 DEF FramesExact, tables, pages

LEMMA LoadedAre == VInv => LoadedExactly
  <1> SUFFICES ASSUME VInv, call # None, call.op = "stack", call.err # "elf",
                      NEW i \in DOMAIN call.prog, call.prog[i].filesz > 0,
                      call.err = "read" => i < Len(call.prog),
                      NEW k \in 0 .. call.prog[i].memsz - 1
               PROVE  /\ pte(vm, call.m, (call.prog[i].va + k) \div PG) # None
                      /\ ByteAt(call.m, call.prog[i].va + k) =
                            IF k < call.prog[i].filesz THEN <<call.prog[i].va, k>> ELSE Zero
    BY DEF LoadedExactly
  <1>1. call \in Stacking /\ StackInv(vm, call)
    BY CallTypes DEF VInv, StateInv, CallInv
  <1>2. call.prog \in Seq(Segment)
    BY <1>1, ProgramsAssumption DEF Stacking
  <1>3. i \in InFile(call.prog) /\ i <= Sure(Len(call.prog), call.err)
    <2>1. i \in 1 .. Len(call.prog) /\ Len(call.prog) \in Nat /\ call.err \in {"no", "read"}
      BY <1>1, <1>2 DEF Stacking, Errors
    <2> QED
      BY <2>1 DEF InFile, Sure
  <1>4. ByteOK(vm, call.m, call.prog[i], k, "no")
    BY <1>1, <1>3 DEF StackInv, LoadedTo
  <1> QED
    BY <1>4 DEF ByteOK, ByteAt

LEMMA CopyIs == VInv => CopyExact
  <1> SUFFICES ASSUME VInv, call # None, call.op = "dup", call.left = {}, call.pages = {}
               PROVE  LET p == owner[call.t]
                      IN  /\ vm.mm[call.m].areas = vm.mm[p].areas
                          /\ Mapped(call.m) = Mapped(p)
                          /\ \A v \in Mapped(p) :
                                /\ vm.data[pte(vm, call.m, v).page] = vm.data[pte(vm, p, v).page]
                                /\ pte(vm, call.m, v).w = pte(vm, p, v).w
    BY DEF CopyExact
  <1> DEFINE p == owner[call.t]
             m == call.m
  <1>1. /\ MemInv(vm) /\ OwnerInv(vm, owner, call) /\ ForkInv(vm, owner, call)
        /\ m \in MMs /\ call.t \in Tasks
    BY CallTypes DEF VInv, StateInv, CallInv
  <1>2. /\ p \in MMs /\ vm.mm[m].areas = vm.mm[p].areas
        /\ \A v \in Pages : (\E a \in vm.mm[m].areas : In(a, v)) => SamePage(vm, m, p, v)
    BY <1>1 DEF ForkInv
  <1>3. vm.mm[p] # None /\ vm.mm[m] # None
    BY <1>1, <1>2 DEF OwnerInv
  <1>4. ASSUME NEW v \in Pages, pte(vm, m, v) # None \/ pte(vm, p, v) # None
        PROVE  SamePage(vm, m, p, v)
    <2>1. CASE pte(vm, m, v) # None
      BY <1>1, <1>2, <1>3, <2>1, PageArea
    <2>2. CASE pte(vm, p, v) # None
      BY <1>1, <1>2, <1>3, <2>2, PageArea
    <2> QED
      BY <1>4, <2>1, <2>2
  <1>5. Mapped(m) = Mapped(p)
    BY <1>4 DEF Mapped, SamePage
  <1>6. ASSUME NEW v \in Mapped(p)
        PROVE  /\ vm.data[pte(vm, m, v).page] = vm.data[pte(vm, p, v).page]
               /\ pte(vm, m, v).w = pte(vm, p, v).w
    BY <1>4 DEF Mapped, SamePage
  <1> QED
    BY <1>2, <1>5, <1>6

\* The kernel dies of a user address only where no area allows the access, or
\* for want of memory.
LEMMA KernelFault ==
    ASSUME VInv, NEW t \in Tasks, NEW v \in Pages, NEW write \in BOOLEAN,
           do_pgfault(t, v, write, TRUE), halted' = "kernel_fault"
    PROVE  ~Accessible(owner[t], v, write) \/ Cardinality(vm.free) <= 1
  <1> DEFINE m == owner[t]
             as == find_vma(vm, m, v)
             e == pte(vm, m, v)
             ok == as # {} /\ \A a \in as : allowed(a, e, write)
             g == get_pte(vm, m, v)
  <1>1. Idle /\ m \in MMs /\ e = None
    BY DEF do_pgfault, Faults
  <1>2. MemInv(vm) /\ OwnerInv(vm, owner, None) /\ halted = "no"
    BY <1>1, IdleIs
  <1>3. vm.mm[m] # None
    BY <1>1, <1>2 DEF OwnerInv
  <1>4. ~ok \/ (ok /\ ~canGet(vm, m, v)) \/ (ok /\ canGet(vm, m, v) /\ ~canAlloc(g, m, v))
    <2>1. halted' # halted
      BY <1>2
    <2> HIDE DEF as, g, e, ok
    <2> QED
      BY <1>1, <2>1 DEF do_pgfault, as, g, e, ok
  <1>5. \A a \in vm.mm[m].areas : a \in as <=> In(a, v)
    BY <1>1, <1>2, <1>3, AreaTypes, TableOfPage DEF find_vma
  <1>6. as \subseteq vm.mm[m].areas
    BY DEF find_vma
  <1>7. ASSUME ~ok, Accessible(m, v, write) PROVE FALSE
    <2>1. PICK a \in vm.mm[m].areas :
              v \in a.start .. a.end - 1 /\ (IF write THEN "W" ELSE "R") \in a.flags
      BY <1>7 DEF Accessible
    <2>2. a \in as /\ In(a, v)
      BY <1>5, <2>1 DEF find_vma
    <2>3. \A b \in as : b = a
      BY <1>1, <1>2, <1>3, <1>5, <1>6, <2>2, OneArea
    <2>4. allowed(a, e, write)
      BY <1>1, <2>1 DEF allowed
    <2> HIDE DEF as, e
    <2> QED
      BY <1>7, <2>2, <2>3, <2>4
  <1>8. CASE ok /\ ~canGet(vm, m, v)
    <2>1. vm.free \subseteq {first(vm)}
      BY <1>8 DEF canGet
    <2> QED
      BY <2>1, FewFree
  <1>9. CASE ok /\ canGet(vm, m, v) /\ ~canAlloc(g, m, v)
    <2>1. \E a \in vm.mm[m].areas : In(a, v)
      BY <1>5, <1>6, <1>9
    <2>2. Gets(vm, g, m, v)
      BY <1>1, <1>2, <1>3, <1>9, <2>1, GetMem
    <2> HIDE DEF g
    <2>3. hasTable(g, m, v) /\ g \in Memory /\ g.free = IF hasTable(vm, m, v) THEN vm.free
                                                     ELSE vm.free \ {first(vm)}
      BY <2>2 DEF Gets
    <2>4. hasTable(allocPhyPages(g), m, v)
      BY <2>3 DEF hasTable, allocPhyPages, Memory
    <2>5. g.free = {}
      BY <1>9, <2>4 DEF canAlloc, canGet
    <2>6. vm.free \subseteq {first(vm)}
      BY <2>3, <2>5
    <2> QED
      BY <2>6, FewFree
  <1> QED
    BY <1>4, <1>7, <1>8, <1>9

\* Address spaces stay in order: ref counts the tasks of each, areas do not overlap,
\* and every page lies in one and has its rights, in the middle of fork and exec and
\* after their failures too.
THEOREM SpacesCorrect == Spec => []SpacesOK
  BY VMMInvariant, SpacesAre, PTL

\* Every frame is free or has exactly one use, at every step.
THEOREM FramesCorrect == Spec => []FramesExact
  BY VMMInvariant, FramesAre, PTL

\* load_icode() brings every segment into memory as it is in the file, with zeros up
\* to memsz, whatever the alignment and the order of the segments: a read that fails
\* unnoticed was that of the ELF header or of the last segment.
THEOREM LoadingCorrect == Spec => []LoadedExactly
  BY VMMInvariant, LoadedAre, PTL

\* A completed fork has copied the areas and the pages of the parent.
THEOREM CopyCorrect == Spec => []CopyExact
  BY VMMInvariant, CopyIs, PTL

\* The kernel panics for want of memory only when at most one page is left, for
\* areas that overlap only in an exec of tangled segments or of a header that could
\* not be read, and never because a page that faults is there.
THEOREM PanicsCorrect == Spec => []PanicsExplained
  <1>1. VInv => PanicsExplained
    BY DEF VInv
  <1> QED
    BY <1>1, VMMInvariant, PTL

\* The kernel dies of a user address only where the test that checkUserMem()
\* announces would have refused it, or for want of memory: do_pgfault() brings in
\* every other page.
THEOREM KernelFaultsCorrect == Spec => KernelFaultsRefused
  <1> DEFINE Refused ==
               \A t \in Tasks, v \in Pages, write \in BOOLEAN :
                  do_pgfault(t, v, write, TRUE) /\ halted' = "kernel_fault" =>
                      ~Accessible(owner[t], v, write) \/ Cardinality(vm.free) <= 1
  <1>1. VInv => [Refused]_vars
    BY KernelFault
  <1>2. KernelFaultsRefused <=> [][Refused]_vars
    BY DEF KernelFaultsRefused
  <1> HIDE DEF Refused
  <1> QED
    BY <1>1, <1>2, VMMInvariant, PTL

=============================================================================
