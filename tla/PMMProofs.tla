----------------------------- MODULE PMMProofs ------------------------------
(***************************************************************************)
(* For every number of page frames and every size of the requests: the     *)
(* first-fit allocator of ff_mmanager.c keeps memory partitioned, its      *)
(* books exact and its free blocks merged, and it refuses a request only   *)
(* when no run of free pages is long enough.                               *)
(***************************************************************************)
EXTENDS PMM, FiniteSetTheorems, SequenceTheorems, WellFoundedInduction, TLAPS

----------------------------------------------------------------------------
(* Numbers.                                                                *)

\* Induction, for a set of numbers.
LEMMA NatSet ==
    ASSUME NEW T \in SUBSET Nat, 0 \in T, \A n \in T : n + 1 \in T
    PROVE  \A n \in Nat : n \in T
  <1> SUFFICES ASSUME Nat \ T # {} PROVE FALSE
    OBVIOUS
  <1> DEFINE R == OpToRel(<, Nat)
  <1>1. IsWellFoundedOn(R, Nat)
    BY NatLessThanWellFounded
  <1>2. \A x, y \in Nat : <<x, y>> \in R <=> x < y
    BY DEF OpToRel
  <1> HIDE DEF R
  <1>3. PICK x \in Nat \ T : \A y \in Nat \ T : ~(<<y, x>> \in R)
    BY <1>1, WFMin
  <1>4. x # 0 /\ x - 1 \in Nat
    OBVIOUS
  <1>5. <<x - 1, x>> \in R
    BY <1>2, <1>4
  <1>6. x - 1 \in T
    BY <1>3, <1>4, <1>5
  <1> QED
    BY <1>4, <1>6

\* A set of numbers that is not empty has a least element.
LEMMA LeastOf ==
    ASSUME NEW T \in SUBSET Nat, T # {}
    PROVE  \E x \in T : \A y \in T : x <= y
  <1> DEFINE R == OpToRel(<, Nat)
  <1>1. IsWellFoundedOn(R, Nat)
    BY NatLessThanWellFounded
  <1>2. \A x, y \in Nat : <<x, y>> \in R <=> x < y
    BY DEF OpToRel
  <1> HIDE DEF R
  <1>3. PICK x \in T : \A y \in T : ~(<<y, x>> \in R)
    BY <1>1, WFMin
  <1>4. \A y \in T : ~(y < x)
    BY <1>2, <1>3
  <1> QED
    BY <1>4

\* A request is for at least one page; PGSIZE bytes are one page.
LEMMA PagenType ==
    /\ \A bytes \in Nat : bytes >= 1 => pagen(bytes) \in Nat /\ pagen(bytes) >= 1
    /\ pagen(PgSize) = 1
  BY SizeAssumption DEF pagen

----------------------------------------------------------------------------
(* Blocks of pages.  H are the first pages of the free blocks, f gives     *)
(* their sizes, L are the allocations.                                     *)

Size(a) == pagen(a.bytes)

Fits(b, n) == b \in UsablePages /\ n \in Nat /\ n >= 1 /\ b + n <= PageCount

Apart(b, n, c, m) == b + n <= c \/ c + m <= b

In(p, b, n) == b <= p /\ p < b + n

FreeFits(H, f) ==
    /\ \A b \in H : Fits(b, f[b])
    /\ \A b, c \in H : b # c => Apart(b, f[b], c, f[c])

LiveFits(L) ==
    /\ \A a \in L : Fits(a.base, Size(a))
    /\ \A a, d \in L : a # d => Apart(a.base, Size(a), d.base, Size(d))

FreeNotLive(H, f, L) == \A b \in H, a \in L : Apart(b, f[b], a.base, Size(a))

Covered(H, f, L) ==
    \A p \in UsablePages : \/ \E b \in H : In(p, b, f[b])
                           \/ \E a \in L : In(p, a.base, Size(a))

Partition(H, f, L) ==
    FreeFits(H, f) /\ LiveFits(L) /\ FreeNotLive(H, f, L) /\ Covered(H, f, L)

Pages(H, f) == UNION {Block(b, f[b]) : b \in H}

LEMMA UsableInt == \A p \in UsablePages : p \in Nat /\ p >= FirstFree /\ p < PageCount
  BY PageAssumption DEF UsablePages

LEMMA InPages ==
    ASSUME NEW H, NEW f, FreeFits(H, f)
    PROVE  /\ \A p : p \in Pages(H, f) <=> p \in Int /\ \E b \in H : In(p, b, f[b])
           /\ Pages(H, f) \subseteq UsablePages
  <1>1. \A b \in H : b \in Nat /\ f[b] \in Nat /\ b >= FirstFree /\ b + f[b] <= PageCount
    BY UsableInt DEF FreeFits, Fits
  <1>2. \A b \in H : \A p : p \in Block(b, f[b]) <=> p \in Int /\ In(p, b, f[b])
    BY <1>1 DEF Block, In
  <1>3. \A p : p \in Pages(H, f) <=> \E b \in H : p \in Block(b, f[b])
    BY DEF Pages
  <1>4. \A b \in H : Block(b, f[b]) \subseteq UsablePages
    BY <1>1, PageAssumption DEF Block, UsablePages
  <1> QED
    BY <1>2, <1>3, <1>4

SamePages(H, f, K, g) == Pages(K, g) = Pages(H, f)

\* Two free blocks that touch become one.
Joins(H, f, x, y, K, g) ==
    /\ x \in H /\ y \in H /\ x + f[x] = y /\ K = H \ {y}
    /\ g[x] = f[x] + f[y] /\ \A b \in H \ {x, y} : g[b] = f[b]

LEMMA MergeBlocks ==
    ASSUME NEW H, NEW f, NEW L, Partition(H, f, L),
           NEW x, NEW y, NEW K, NEW g, Joins(H, f, x, y, K, g)
    PROVE  Partition(K, g, L) /\ SamePages(H, f, K, g)
  <1>0. /\ x \in H /\ y \in H /\ x + f[x] = y /\ K = H \ {y}
        /\ g[x] = f[x] + f[y] /\ \A b \in H \ {x, y} : g[b] = f[b]
    BY DEF Joins
  <1> USE <1>0
  <1>1. /\ \A b \in H : b \in Nat /\ f[b] \in Nat /\ f[b] >= 1 /\ b \in UsablePages
                        /\ b + f[b] <= PageCount
        /\ PageCount \in Nat /\ x # y
    BY UsableInt, PageAssumption DEF Partition, FreeFits, Fits
  <1>2. \A b, c \in H : b # c => Apart(b, f[b], c, f[c])
    BY DEF Partition, FreeFits
  <1>3. \A b \in H \ {y} : Fits(b, g[b])
    BY <1>1 DEF Fits
  <1>4. ASSUME NEW b \in H \ {y}, NEW c \in H \ {y}, b # c PROVE Apart(b, g[b], c, g[c])
    <2>1. CASE b # x /\ c # x
      BY <1>2, <1>4, <2>1
    <2>2. CASE b = x
      <3>1. Apart(x, f[x], c, f[c]) /\ Apart(y, f[y], c, f[c]) /\ g[c] = f[c]
        BY <1>2, <1>4, <2>2
      <3> QED
        BY <1>1, <1>4, <2>2, <3>1 DEF Apart
    <2>3. CASE c = x
      <3>1. Apart(x, f[x], b, f[b]) /\ Apart(y, f[y], b, f[b]) /\ g[b] = f[b]
        BY <1>2, <1>4, <2>3
      <3> QED
        BY <1>1, <1>4, <2>3, <3>1 DEF Apart
    <2> QED
      BY <2>1, <2>2, <2>3
  <1>5. FreeFits(H \ {y}, g)
    BY <1>3, <1>4 DEF FreeFits
  <1>6. FreeNotLive(H \ {y}, g, L)
    <2> SUFFICES ASSUME NEW b \in H \ {y}, NEW a \in L
                 PROVE  Apart(b, g[b], a.base, Size(a))
      BY DEF FreeNotLive
    <2>1. \A c \in H : Apart(c, f[c], a.base, Size(a))
      BY DEF Partition, FreeNotLive
    <2>2. a.base \in Nat /\ Size(a) \in Nat /\ Size(a) >= 1
      BY UsableInt DEF Partition, LiveFits, Fits
    <2>3. CASE b = x
      BY <1>1, <2>1, <2>2, <2>3 DEF Apart
    <2>4. CASE b # x
      BY <2>1, <2>4
    <2> QED
      BY <2>3, <2>4
  <1>7. \A p \in Int : (\E b \in H \ {y} : In(p, b, g[b])) <=> (\E b \in H : In(p, b, f[b]))
    <2> SUFFICES ASSUME NEW p \in Int
                 PROVE  (\E b \in H \ {y} : In(p, b, g[b])) <=> (\E b \in H : In(p, b, f[b]))
      OBVIOUS
    <2>1. In(p, x, g[x]) <=> In(p, x, f[x]) \/ In(p, y, f[y])
      BY <1>1 DEF In
    <2> QED
      BY <1>1, <2>1
  <1>8. Covered(H \ {y}, g, L)
    <2>1. UsablePages \subseteq Int
      BY UsableInt
    <2> QED
      BY <1>7, <2>1 DEF Partition, Covered
  <1>9. Pages(H \ {y}, g) = Pages(H, f)
    <2>1. FreeFits(H, f)
      BY DEF Partition
    <2>2. \A p : p \in Pages(H \ {y}, g) <=> p \in Pages(H, f)
      BY <1>5, <1>7, <2>1, InPages
    <2> QED
      BY <2>2
  <1> QED
    BY <1>5, <1>6, <1>8, <1>9 DEF Partition, SamePages

\* The first n pages of free block x become allocation e; what is left of the
\* block, if anything, is free block x + n.
Takes(H, f, x, n, e, K, g) ==
    /\ x \in H /\ n \in Nat /\ n >= 1 /\ n <= f[x]
    /\ e.base = x /\ Size(e) = n
    /\ K = (H \ {x}) \cup (IF f[x] > n THEN {x + n} ELSE {})
    /\ \A b \in H \ {x} : g[b] = f[b]
    /\ f[x] > n => g[x + n] = f[x] - n

Taken(H, f, x, n, K, g) ==
    /\ Pages(K, g) = Pages(H, f) \ Block(x, n)
    /\ Block(x, n) \subseteq Pages(H, f)

LEMMA TakeBlock ==
    ASSUME NEW H, NEW f, NEW L, Partition(H, f, L), NEW x, NEW n,
           NEW e, NEW K, NEW g, Takes(H, f, x, n, e, K, g)
    PROVE  Partition(K, g, L \cup {e}) /\ Taken(H, f, x, n, K, g)
  <1>0. /\ x \in H /\ n \in Nat /\ n >= 1 /\ n <= f[x]
        /\ e.base = x /\ Size(e) = n
        /\ K = (H \ {x}) \cup (IF f[x] > n THEN {x + n} ELSE {})
        /\ \A b \in H \ {x} : g[b] = f[b]
        /\ f[x] > n => g[x + n] = f[x] - n
    BY DEF Takes
  <1> USE <1>0
  <1>1. /\ \A b \in H : b \in Nat /\ f[b] \in Nat /\ f[b] >= 1 /\ b \in UsablePages
                        /\ b + f[b] <= PageCount
        /\ PageCount \in Nat
    BY UsableInt, PageAssumption DEF Partition, FreeFits, Fits
  <1>2. \A b, c \in H : b # c => Apart(b, f[b], c, f[c])
    BY DEF Partition, FreeFits
  <1>3. /\ \A a \in L : a.base \in Nat /\ Size(a) \in Nat /\ Size(a) >= 1
                        /\ Fits(a.base, Size(a))
        /\ \A a, d \in L : a # d => Apart(a.base, Size(a), d.base, Size(d))
        /\ \A b \in H, a \in L : Apart(b, f[b], a.base, Size(a))
    BY UsableInt DEF Partition, LiveFits, Fits, FreeNotLive
  <1>4. f[x] > n => x + n \notin H \ {x} /\ x + n # x
    BY <1>1, <1>2 DEF Apart
  <1>5. /\ \A b \in K : b \in H \ {x} \/ (f[x] > n /\ b = x + n)
        /\ \A b \in H \ {x} : b \in K
        /\ f[x] > n => x + n \in K
    OBVIOUS
  <1>6. f[x] > n => Fits(x + n, g[x + n])
    BY <1>1, PageAssumption DEF Fits, UsablePages
  <1>7. ASSUME NEW b \in K, NEW c \in K, b # c PROVE Apart(b, g[b], c, g[c])
    <2>1. CASE b \in H \ {x} /\ c \in H \ {x}
      BY <1>2, <1>7, <2>1
    <2>2. CASE f[x] > n /\ b = x + n /\ c \in H \ {x}
      <3>1. Apart(x, f[x], c, f[c]) /\ g[c] = f[c] /\ g[b] = f[x] - n
        BY <1>2, <2>2
      <3> QED
        BY <1>1, <2>2, <3>1 DEF Apart
    <2>3. CASE f[x] > n /\ c = x + n /\ b \in H \ {x}
      <3>1. Apart(x, f[x], b, f[b]) /\ g[b] = f[b] /\ g[c] = f[x] - n
        BY <1>2, <2>3
      <3> QED
        BY <1>1, <2>3, <3>1 DEF Apart
    <2> QED
      BY <1>5, <1>7, <2>1, <2>2, <2>3
  <1>8. FreeFits(K, g)
    <2>1. \A b \in K : Fits(b, g[b])
      BY <1>5, <1>6 DEF Partition, FreeFits
    <2> QED
      BY <1>7, <2>1 DEF FreeFits
  <1>9. LiveFits(L \cup {e})
    <2>1. Fits(e.base, Size(e))
      BY <1>1 DEF Fits
    <2>2. \A a \in L : Apart(e.base, Size(e), a.base, Size(a)) /\ Apart(a.base, Size(a), e.base, Size(e))
      <3> SUFFICES ASSUME NEW a \in L
                   PROVE  /\ Apart(e.base, Size(e), a.base, Size(a))
                          /\ Apart(a.base, Size(a), e.base, Size(e))
        OBVIOUS
      <3>1. Apart(x, f[x], a.base, Size(a))
        BY <1>3
      <3> QED
        BY <1>1, <1>3, <3>1 DEF Apart
    <2> QED
      BY <1>3, <2>1, <2>2 DEF LiveFits
  <1>10. FreeNotLive(K, g, L \cup {e})
    <2> SUFFICES ASSUME NEW b \in K, NEW a \in L \cup {e}
                 PROVE  Apart(b, g[b], a.base, Size(a))
      BY DEF FreeNotLive
    <2>1. CASE b \in H \ {x} /\ a \in L
      BY <1>3, <2>1
    <2>2. CASE b \in H \ {x} /\ a = e
      <3>1. Apart(x, f[x], b, f[b]) /\ g[b] = f[b]
        BY <1>2, <2>2
      <3> QED
        BY <1>1, <2>2, <3>1 DEF Apart
    <2>3. CASE f[x] > n /\ b = x + n /\ a \in L
      <3>1. Apart(x, f[x], a.base, Size(a)) /\ g[b] = f[x] - n
        BY <1>3, <2>3
      <3> QED
        BY <1>1, <1>3, <2>3, <3>1 DEF Apart
    <2>4. CASE f[x] > n /\ b = x + n /\ a = e
      BY <1>1, <2>4 DEF Apart
    <2> QED
      BY <1>5, <2>1, <2>2, <2>3, <2>4
  <1>11. ASSUME NEW p \in Int
         PROVE  (\E b \in K : In(p, b, g[b])) <=> (\E b \in H : In(p, b, f[b])) /\ ~In(p, x, n)
    <2>1. ASSUME NEW b \in K, In(p, b, g[b])
          PROVE  (\E c \in H : In(p, c, f[c])) /\ ~In(p, x, n)
      <3>1. CASE b \in H \ {x}
        <4>1. Apart(x, f[x], b, f[b]) /\ g[b] = f[b]
          BY <1>2, <3>1
        <4> QED
          BY <1>1, <2>1, <3>1, <4>1 DEF Apart, In
      <3>2. CASE f[x] > n /\ b = x + n
        <4>1. In(p, x, f[x]) /\ ~In(p, x, n)
          BY <1>1, <2>1, <3>2 DEF In
        <4> QED
          BY <4>1
      <3> QED
        BY <1>5, <3>1, <3>2
    <2>2. ASSUME NEW c \in H, In(p, c, f[c]), ~In(p, x, n)
          PROVE  \E b \in K : In(p, b, g[b])
      <3>1. CASE c # x
        BY <1>5, <2>2, <3>1
      <3>2. CASE c = x
        <4>1. f[x] > n /\ In(p, x + n, g[x + n])
          BY <1>1, <2>2, <3>2 DEF In
        <4> QED
          BY <1>5, <4>1
      <3> QED
        BY <3>1, <3>2
    <2> QED
      BY <2>1, <2>2
  <1>12. Covered(K, g, L \cup {e})
    <2> SUFFICES ASSUME NEW p \in UsablePages
                 PROVE  \/ \E b \in K : In(p, b, g[b])
                        \/ \E a \in L \cup {e} : In(p, a.base, Size(a))
      BY DEF Covered
    <2>1. p \in Int
      BY UsableInt
    <2>2. \/ \E b \in H : In(p, b, f[b])
          \/ \E a \in L : In(p, a.base, Size(a))
      BY DEF Partition, Covered
    <2>3. In(p, x, n) => In(p, e.base, Size(e))
      OBVIOUS
    <2> QED
      BY <1>11, <2>1, <2>2, <2>3
  <1>13. \A p : p \in Block(x, n) <=> p \in Int /\ In(p, x, n)
    BY <1>1 DEF Block, In
  <1>14. /\ Pages(K, g) = Pages(H, f) \ Block(x, n)
         /\ Block(x, n) \subseteq Pages(H, f)
    <2>1. FreeFits(H, f)
      BY DEF Partition
    <2>2. \A p : p \in Pages(K, g) <=> p \in Pages(H, f) /\ p \notin Block(x, n)
      BY <1>8, <1>11, <1>13, <2>1, InPages
    <2>3. \A p \in Int : In(p, x, n) => In(p, x, f[x])
      BY <1>1 DEF In
    <2>4. \A p \in Block(x, n) : p \in Pages(H, f)
      BY <1>13, <2>1, <2>3, InPages
    <2> QED
      BY <2>2, <2>4
  <1> QED
    BY <1>8, <1>9, <1>10, <1>12, <1>14, Zenon DEF Partition, Taken

\* Allocation e becomes a free block.
Given(H, f, e, g) ==
    /\ Pages(H \cup {e.base}, g) = Pages(H, f) \cup Block(e.base, Size(e))
    /\ Pages(H, f) \cap Block(e.base, Size(e)) = {}
    /\ e.base \notin H
    /\ \A b \in H : ~In(b, e.base, Size(e))

LEMMA GiveBlock ==
    ASSUME NEW H, NEW f, NEW L, Partition(H, f, L), NEW e \in L,
           NEW g, \A b \in H : b # e.base => g[b] = f[b], g[e.base] = Size(e)
    PROVE  Partition(H \cup {e.base}, g, L \ {e}) /\ Given(H, f, e, g)
  <1> DEFINE x == e.base
             n == Size(e)
             K == H \cup {x}
  <1>1. /\ \A b \in H : b \in Nat /\ f[b] \in Nat /\ f[b] >= 1
        /\ \A b \in H : Fits(b, f[b])
        /\ \A b, c \in H : b # c => Apart(b, f[b], c, f[c])
    BY UsableInt DEF Partition, FreeFits, Fits
  <1>2. /\ x \in Nat /\ n \in Nat /\ n >= 1 /\ Fits(x, n)
        /\ \A b \in H, a \in L : Apart(b, f[b], a.base, Size(a))
        /\ \A b \in H : Apart(b, f[b], x, n)
        /\ \A a \in L : Fits(a.base, Size(a)) /\ a.base \in Nat /\ Size(a) \in Nat
        /\ \A a, d \in L : a # d => Apart(a.base, Size(a), d.base, Size(d))
    BY UsableInt DEF Partition, LiveFits, Fits, FreeNotLive
  <1>3. /\ \A b \in H : ~In(b, x, n)
        /\ x \notin H
    BY <1>1, <1>2 DEF Apart, In
  <1>4. g[x] = n /\ \A b \in H : g[b] = f[b]
    BY <1>3
  <1>5. LiveFits(L \ {e})
    BY <1>2 DEF LiveFits
  <1>6. \A a \in L \ {e} : Apart(x, n, a.base, Size(a))
    BY <1>2
  <1>7. \A b \in H : Apart(b, f[b], x, n) /\ Apart(x, n, b, f[b])
    BY <1>2 DEF Apart
  <1> HIDE DEF x, n
  <1>8. FreeFits(K, g)
    BY <1>1, <1>2, <1>4, <1>7 DEF FreeFits
  <1>9. FreeNotLive(K, g, L \ {e})
    BY <1>2, <1>4, <1>6 DEF FreeNotLive
  <1>10. \A p : (\E b \in K : In(p, b, g[b])) <=> (\E b \in H : In(p, b, f[b])) \/ In(p, x, n)
    BY <1>4
  <1>11. Covered(K, g, L \ {e})
    <2> SUFFICES ASSUME NEW p \in UsablePages
                 PROVE  \/ \E b \in K : In(p, b, g[b])
                        \/ \E a \in L \ {e} : In(p, a.base, Size(a))
      BY DEF Covered
    <2>1. \/ \E b \in H : In(p, b, f[b])
          \/ \E a \in L : In(p, a.base, Size(a))
      BY DEF Partition, Covered
    <2>2. In(p, e.base, Size(e)) => In(p, x, n)
      BY DEF x, n
    <2> QED
      BY <1>10, <2>1, <2>2
  <1>12. \A p : p \in Block(x, n) <=> p \in Int /\ In(p, x, n)
    BY <1>2 DEF Block, In
  <1>13. FreeFits(H, f)
    BY DEF Partition
  <1>14. Pages(K, g) = Pages(H, f) \cup Block(x, n)
    <2>1. \A p : p \in Pages(K, g) <=> p \in Pages(H, f) \/ p \in Block(x, n)
      BY <1>8, <1>10, <1>12, <1>13, InPages
    <2> QED
      BY <2>1
  <1>15. Pages(H, f) \cap Block(x, n) = {}
    <2>1. \A b \in H : \A p \in Int : ~(In(p, b, f[b]) /\ In(p, x, n))
      BY <1>1, <1>2, <1>7 DEF Apart, In
    <2> QED
      BY <1>12, <1>13, <2>1, InPages
  <1> QED
    BY <1>3, <1>5, <1>8, <1>9, <1>11, <1>14, <1>15 DEF Partition, Given, x, n

----------------------------------------------------------------------------
(* The free list.                                                          *)

Elems(q) == {q[i] : i \in 1 .. Len(q)}

\* listDel() of the k-th element.
Deleted(q, k, r) ==
    /\ Elems(r) = Elems(q) \ {q[k]}
    /\ Len(r) = Len(q) - 1
    /\ \A j \in 1 .. Len(q) : j < k => r[j] = q[j]

LEMMA ListDel ==
    ASSUME NEW S, NEW q \in Seq(S), IsInjective(q), NEW k \in 1 .. Len(q)
    PROVE  /\ RemoveAt(q, k) \in Seq(S)
           /\ IsInjective(RemoveAt(q, k))
           /\ Deleted(q, k, RemoveAt(q, k))
  <1> DEFINE a == SubSeq(q, 1, k - 1)
             b == SubSeq(q, k + 1, Len(q))
             r == a \o b
             old(j) == IF j < k THEN j ELSE j + 1
  <1>0. Len(q) \in Nat /\ DOMAIN q = 1 .. Len(q)
    OBVIOUS
  <1>1. /\ a \in Seq(S) /\ Len(a) = k - 1
        /\ \A j \in 1 .. k - 1 : a[j] = q[j]
    BY SubSeqProperties
  <1>2. /\ b \in Seq(S) /\ Len(b) = Len(q) - k
        /\ \A j \in 1 .. Len(q) - k : b[j] = q[k + j]
    BY SubSeqProperties
  <1>3. RemoveAt(q, k) = r
    BY DEF RemoveAt
  <1> HIDE DEF a, b
  <1>4. /\ r \in Seq(S) /\ Len(r) = Len(a) + Len(b)
        /\ \A j \in 1 .. Len(a) + Len(b) : r[j] = IF j <= Len(a) THEN a[j] ELSE b[j - Len(a)]
    BY <1>1, <1>2, ConcatProperties
  <1> HIDE DEF r
  <1>5. Len(r) = Len(q) - 1 /\ DOMAIN r = 1 .. Len(q) - 1
    BY <1>0, <1>1, <1>2, <1>4
  <1>6. ASSUME NEW j \in 1 .. Len(q) - 1 PROVE r[j] = q[old(j)]
    <2>1. CASE j < k
      <3>1. j \in 1 .. k - 1 /\ j \in 1 .. Len(a) + Len(b) /\ j <= Len(a)
        BY <1>1, <1>2, <2>1
      <3>2. r[j] = a[j]
        BY <1>4, <3>1
      <3> QED
        BY <1>1, <2>1, <3>1, <3>2
    <2>2. CASE ~(j < k)
      <3>1. /\ j - (k - 1) \in 1 .. Len(q) - k /\ k + (j - (k - 1)) = j + 1
            /\ j \in 1 .. Len(a) + Len(b) /\ ~(j <= Len(a))
        BY <1>1, <1>2, <2>2
      <3>2. r[j] = b[j - (k - 1)]
        BY <1>1, <1>4, <3>1
      <3>3. b[j - (k - 1)] = q[k + (j - (k - 1))]
        BY <1>2, <3>1
      <3> QED
        BY <2>2, <3>1, <3>2, <3>3
    <2> QED
      BY <2>1, <2>2
  <1>7. /\ \A j \in 1 .. Len(q) - 1 : old(j) \in 1 .. Len(q) /\ old(j) # k
        /\ \A i, j \in 1 .. Len(q) - 1 : old(i) = old(j) => i = j
        /\ \A i \in 1 .. Len(q) : i # k => \E j \in 1 .. Len(q) - 1 : old(j) = i
    <2>1. ASSUME NEW i \in 1 .. Len(q), i # k PROVE \E j \in 1 .. Len(q) - 1 : old(j) = i
      <3>1. CASE i < k
        <4>1. i \in 1 .. Len(q) - 1 /\ old(i) = i
          BY <1>0, <3>1
        <4> QED
          BY <4>1
      <3>2. CASE i > k
        <4>1. i - 1 \in 1 .. Len(q) - 1 /\ old(i - 1) = i
          BY <1>0, <3>2
        <4> QED
          BY <4>1
      <3> QED
        BY <1>0, <2>1, <3>1, <3>2
    <2> QED
      BY <1>0, <2>1
  <1>8. \A j \in 1 .. Len(q) : j < k => r[j] = q[j]
    BY <1>0, <1>6
  <1> HIDE DEF old
  <1>9. IsInjective(r)
    BY <1>0, <1>5, <1>6, <1>7 DEF IsInjective
  <1>10. Elems(r) = Elems(q) \ {q[k]}
    <2>1. ASSUME NEW x \in Elems(r) PROVE x \in Elems(q) /\ x # q[k]
      <3>1. PICK j \in 1 .. Len(q) - 1 : x = r[j]
        BY <1>5 DEF Elems
      <3>2. old(j) \in 1 .. Len(q) /\ old(j) # k /\ x = q[old(j)]
        BY <1>6, <1>7, <3>1
      <3> QED
        BY <1>0, <3>2 DEF Elems, IsInjective
    <2>2. ASSUME NEW x \in Elems(q), x # q[k] PROVE x \in Elems(r)
      <3>1. PICK i \in 1 .. Len(q) : x = q[i]
        BY DEF Elems
      <3>2. PICK j \in 1 .. Len(q) - 1 : old(j) = i
        BY <1>7, <2>2, <3>1
      <3>3. r[j] = x /\ j \in 1 .. Len(r)
        BY <1>5, <1>6, <3>1, <3>2
      <3> QED
        BY <3>3 DEF Elems
    <2> QED
      BY <2>1, <2>2
  <1> QED
    BY <1>3, <1>4, <1>5, <1>8, <1>9, <1>10 DEF Deleted

\* The k-th element is replaced by a new one.
Replaced(q, k, y, r) == Elems(r) = (Elems(q) \ {q[k]}) \cup {y}

LEMMA ListReplace ==
    ASSUME NEW S, NEW q \in Seq(S), IsInjective(q), NEW k \in 1 .. Len(q),
           NEW y \in S, y \notin Elems(q), NEW r, r = [q EXCEPT ![k] = y]
    PROVE  r \in Seq(S) /\ IsInjective(r) /\ Replaced(q, k, y, r)
  <1>1. /\ r \in Seq(S) /\ Len(r) = Len(q) /\ Len(q) \in Nat
        /\ DOMAIN q = 1 .. Len(q) /\ DOMAIN r = 1 .. Len(q)
        /\ r[k] = y /\ \A j \in 1 .. Len(q) : j # k => r[j] = q[j]
    BY ExceptSeq
  <1>2. IsInjective(r)
    BY <1>1 DEF IsInjective, Elems
  <1>3. Elems(r) = (Elems(q) \ {q[k]}) \cup {y}
    BY <1>1 DEF IsInjective, Elems
  <1> QED
    BY <1>1, <1>2, <1>3 DEF Replaced

\* listAdd() puts an element in front.
LEMMA ListAdd ==
    ASSUME NEW S, NEW q \in Seq(S), IsInjective(q), NEW y \in S, y \notin Elems(q)
    PROVE  /\ <<y>> \o q \in Seq(S)
           /\ IsInjective(<<y>> \o q)
           /\ Elems(<<y>> \o q) = Elems(q) \cup {y}
  <1> DEFINE r == <<y>> \o q
  <1>1. /\ r \in Seq(S) /\ Len(q) \in Nat /\ Len(r) = Len(q) + 1 /\ r[1] = y
        /\ \A i \in 2 .. Len(q) + 1 : r[i] = q[i - 1]
        /\ DOMAIN q = 1 .. Len(q) /\ DOMAIN r = 1 .. Len(q) + 1
    OBVIOUS
  <1> HIDE DEF r
  <1>2. IsInjective(r)
    <2>1. \A i \in 2 .. Len(q) + 1 : i - 1 \in 1 .. Len(q) /\ r[i] = q[i - 1] /\ r[i] \in Elems(q)
      BY <1>1 DEF Elems
    <2>2. ASSUME NEW i \in 1 .. Len(q) + 1, NEW j \in 1 .. Len(q) + 1, r[i] = r[j]
          PROVE  i = j
      <3>1. CASE i = 1 \/ j = 1
        BY <1>1, <2>1, <2>2, <3>1
      <3>2. CASE i # 1 /\ j # 1
        <4>1. i \in 2 .. Len(q) + 1 /\ j \in 2 .. Len(q) + 1
          BY <1>1, <3>2
        <4>2. /\ i - 1 \in 1 .. Len(q) /\ j - 1 \in 1 .. Len(q)
              /\ q[i - 1] = q[j - 1]
          BY <2>1, <2>2, <4>1
        <4>3. i - 1 = j - 1
          BY <4>2 DEF IsInjective
        <4> QED
          BY <4>1, <4>3
      <3> QED
        BY <3>1, <3>2
    <2> QED
      BY <1>1, <2>2 DEF IsInjective
  <1>3. ASSUME NEW x PROVE x \in Elems(r) <=> x \in Elems(q) \/ x = y
    <2>1. ASSUME NEW i \in 1 .. Len(q), x = q[i] PROVE x \in Elems(r)
      <3>1. i + 1 \in 2 .. Len(q) + 1 /\ i + 1 \in 1 .. Len(r) /\ (i + 1) - 1 = i
        BY <1>1
      <3> QED
        BY <1>1, <2>1, <3>1 DEF Elems
    <2>2. x = y => x \in Elems(r)
      BY <1>1 DEF Elems
    <2>3. ASSUME NEW i \in 1 .. Len(r), x = r[i] PROVE x \in Elems(q) \/ x = y
      <3>1. i = 1 \/ (i \in 2 .. Len(q) + 1 /\ i - 1 \in 1 .. Len(q))
        BY <1>1
      <3> QED
        BY <1>1, <2>3, <3>1 DEF Elems
    <2> QED
      BY <2>1, <2>2, <2>3 DEF Elems
  <1>4. Elems(r) = Elems(q) \cup {y}
    BY <1>3
  <1> QED
    BY <1>1, <1>2, <1>4 DEF r

----------------------------------------------------------------------------
(* The invariant.                                                          *)

\* No block of the list ends where another begins, and in the middle of a free
\* none of those that have been visited touches the block outside the list.
Merged ==
    /\ \A b, c \in Elems(free_list) : b + property[b] # c
    /\ freeing # NULL =>
          \A j \in 1 .. Len(free_list) : j < freeing.lp =>
             /\ free_list[j] + property[free_list[j]] # freeing.base
             /\ freeing.base + property[freeing.base] # free_list[j]

\* The list has no block twice, and not the one that is being freed.
ListOK ==
    /\ IsInjective(free_list)
    /\ freeing # NULL => freeing.base \notin Elems(free_list) /\ freeing.lp >= 1

Counted ==
    free_page_count + (IF freeing = NULL THEN 0 ELSE freeing.n) = Cardinality(FreePages)

PMMInv ==
    /\ TypeOK /\ FlagsExact /\ ListOK /\ Merged /\ Counted
    /\ Partition(FreeHeads, property, live)

LEMMA HeadsAre ==
    FreeHeads = Elems(free_list) \cup (IF freeing = NULL THEN {} ELSE {freeing.base})
  BY DEF FreeHeads, Elems

LEMMA PagesAre == FreePages = Pages(FreeHeads, property)
  BY DEF FreePages, FreeBlock, Pages

LEMMA UsableAll == UsablePages \subseteq AllPages
  BY PageAssumption DEF UsablePages, AllPages

\* A set of pages and a run of pages can be counted.
LEMMA PagesFinite ==
    ASSUME PMMInv
    PROVE  /\ FreePages \subseteq UsablePages
           /\ IsFiniteSet(FreePages) /\ Cardinality(FreePages) \in Nat
  <1>1. FreePages \subseteq UsablePages
    BY PagesAre, InPages DEF PMMInv, Partition
  <1>2. IsFiniteSet(UsablePages)
    BY FS_Interval, PageAssumption DEF UsablePages
  <1> QED
    BY <1>1, <1>2, FS_Subset, FS_CardinalityType

LEMMA BlockCard ==
    ASSUME NEW b \in Nat, NEW n \in Nat, n >= 1
    PROVE  IsFiniteSet(Block(b, n)) /\ Cardinality(Block(b, n)) = n
  <1>1. b \in Int /\ b + n - 1 \in Int /\ ~(b > b + n - 1) /\ (b + n - 1) - b + 1 = n
    OBVIOUS
  <1> QED
    BY <1>1, FS_Interval DEF Block

\* What is left of a block is in the memory.
LEMMA RestUsable ==
    ASSUME NEW x \in UsablePages, NEW m \in Nat, x + m <= PageCount,
           NEW n \in Nat, n >= 1, n < m
    PROVE  x + n \in UsablePages /\ x + n \in AllPages /\ x + n # x
  BY PageAssumption DEF UsablePages, AllPages

\* An allocation that finds a block.
Found(n, i, bytes) ==
    /\ n \in Nat /\ n >= 1 /\ i \in 1 .. Len(free_list)
    /\ bytes \in 1 .. MaxBytes \cup {PgSize} /\ pagen(bytes) = n
    /\ firstFit(i, n) /\ splitBlock(i, n)
    /\ free_page_count' = free_page_count - n /\ page' = free_list[i] /\ asked' = n
    /\ live' = live \cup {[base |-> page', bytes |-> bytes]}
    /\ freeing = NULL /\ freeing' = NULL /\ panic' = panic
    /\ vaddr' \in UsablePages \cup {NULL, Garbage}

LEMMA AllocTakes ==
    ASSUME PMMInv, NEW n, NEW i, NEW bytes, Found(n, i, bytes)
    PROVE  /\ PMMInv'
           /\ page' \in UsablePages
           /\ Block(page', n) \subseteq FreePages
           /\ FreePages' = FreePages \ Block(page', n)
  <1>0. PICK x : x = free_list[i]
    OBVIOUS
  <1>a. n \in Nat /\ n >= 1 /\ i \in 1 .. Len(free_list)
    BY DEF Found
  <1> DEFINE H == FreeHeads
             e == [base |-> x, bytes |-> bytes]
             larger == property[x] > n
  <1>1. /\ free_list \in Seq(UsablePages) /\ IsInjective(free_list)
        /\ x \in UsablePages /\ x \in Nat /\ property \in [AllPages -> Nat]
        /\ x \in AllPages /\ property[x] \in Nat /\ property[x] >= n
    BY <1>0, <1>a, UsableInt, UsableAll DEF Found, PMMInv, TypeOK, ListOK, firstFit
  <1>2. H = Elems(free_list) /\ x \in H /\ Partition(H, property, live)
    BY <1>0, <1>a, HeadsAre DEF Elems, PMMInv, Found
  <1>3. /\ free_list' = IF larger THEN [free_list EXCEPT ![i] = x + n] ELSE RemoveAt(free_list, i)
        /\ property' = [q \in AllPages |-> IF q = x THEN n
                                           ELSE IF larger /\ q = x + n THEN property[x] - n
                                           ELSE property[q]]
        /\ PGP_property' = (PGP_property \ {x}) \cup (IF larger THEN {x + n} ELSE {})
    BY <1>0 DEF splitBlock, Found
  <1>4. H \subseteq AllPages /\ H \subseteq UsablePages
    BY UsableAll DEF PMMInv, Partition, FreeFits, Fits
  <1>5. larger => x + n \in UsablePages /\ x + n \in AllPages /\ x + n # x
    <2>1. x + property[x] <= PageCount
      BY <1>2 DEF Partition, FreeFits, Fits
    <2> QED
      BY <1>1, <1>a, <2>1, RestUsable
  <1>6. larger => x + n \notin H
    <2> SUFFICES ASSUME larger, x + n \in H PROVE FALSE
      OBVIOUS
    <2>1. Apart(x, property[x], x + n, property[x + n]) /\ property[x + n] \in Nat /\ property[x + n] >= 1
      BY <1>2, <1>5 DEF Partition, FreeFits, Fits
    <2> QED
      BY <1>1, <1>a, <2>1 DEF Apart
  <1>7. /\ \A b \in H \ {x} : property'[b] = property[b]
        /\ property[x] > n => property'[x + n] = property[x] - n
        /\ property' \in [AllPages -> Nat]
    <2>1. \A b \in H \ {x} : property'[b] = property[b]
      BY <1>3, <1>4, <1>6
    <2>2. larger => property'[x + n] = property[x] - n
      BY <1>3, <1>5
    <2>3. larger => property[x] - n \in Nat
      BY <1>1, <1>a
    <2>4. property' \in [AllPages -> Nat]
      BY <1>1, <1>3, <1>a, <2>3
    <2> QED
      BY <2>1, <2>2, <2>4
  <1>8. e.base = x /\ Size(e) = n
    BY DEF Size, Found
  <1>9. PICK K : K = (H \ {x}) \cup (IF property[x] > n THEN {x + n} ELSE {})
    OBVIOUS
  <1>10. page' = x /\ live' = live \cup {e}
    BY <1>0 DEF Found
  <1> HIDE DEF e, H, larger
  <1>11. /\ Partition(K, property', live \cup {e})
         /\ Pages(K, property') = Pages(H, property) \ Block(x, n)
         /\ Block(x, n) \subseteq Pages(H, property)
    <2>1. Takes(H, property, x, n, e, K, property')
      BY <1>1, <1>2, <1>7, <1>8, <1>9, <1>a DEF Takes
    <2>2. Partition(K, property', live \cup {e}) /\ Taken(H, property, x, n, K, property')
      BY <1>2, <2>1, TakeBlock
    <2> QED
      BY <2>2 DEF Taken
  <1>12. /\ free_list' \in Seq(UsablePages) /\ IsInjective(free_list')
         /\ Elems(free_list') = K
    <2>1. CASE larger
      <3>1. PICK y : y = x + n
        OBVIOUS
      <3>2. y \in UsablePages /\ y \notin Elems(free_list)
        BY <1>2, <1>5, <1>6, <2>1, <3>1
      <3>3. free_list' = [free_list EXCEPT ![i] = y]
        BY <1>3, <2>1, <3>1
      <3>4. K = (H \ {x}) \cup {y}
        BY <1>9, <2>1, <3>1 DEF larger
      <3> QED
        <4>1. /\ free_list' \in Seq(UsablePages) /\ IsInjective(free_list')
              /\ Replaced(free_list, i, y, free_list')
          BY <1>1, <1>a, <3>2, <3>3, ListReplace, Zenon
        <4> QED
          BY <1>0, <1>2, <3>4, <4>1 DEF Replaced
    <2>2. CASE ~larger
      BY <1>0, <1>1, <1>2, <1>3, <1>9, <1>a, <2>2, ListDel DEF larger, Deleted
    <2> QED
      BY <2>1, <2>2
  <1>13. FreeHeads' = K
    <2>1. FreeHeads' = Elems(free_list')
      BY DEF FreeHeads, Elems, Found
    <2> QED
      BY <1>12, <2>1
  <1>14. FreePages' = Pages(K, property') /\ FreePages = Pages(H, property)
    <2>1. FreePages' = Pages(FreeHeads', property')
      BY DEF FreePages, FreeBlock, Pages
    <2> QED
      BY <1>13, <2>1, PagesAre DEF H
  <1>15. FlagsExact'
    BY <1>3, <1>9, <1>13 DEF PMMInv, FlagsExact, H, larger, Found
  <1>16. ListOK' /\ page' \in UsablePages
    BY <1>1, <1>10, <1>12 DEF ListOK, Found
  <1>17. Merged'
    <2> SUFFICES ASSUME NEW b \in K, NEW c \in K PROVE b + property'[b] # c
      BY <1>12 DEF Merged, Found
    <2>1. /\ \A d \in H : d \in Nat /\ property[d] \in Nat /\ property[d] >= 1
          /\ \A d \in H \ {x} : Apart(x, property[x], d, property[d])
          /\ \A d, h \in H : d + property[d] # h
      BY <1>2, UsableInt DEF PMMInv, Partition, FreeFits, Fits, Merged
    <2>2. CASE b \in H \ {x} /\ c \in H \ {x}
      BY <1>7, <2>1, <2>2
    <2>3. CASE larger /\ b = x + n /\ c \in H \ {x}
      BY <1>1, <1>2, <1>7, <1>a, <2>1, <2>3 DEF larger
    <2>4. CASE larger /\ c = x + n /\ b \in H \ {x}
      <3>1. property'[b] = property[b] /\ Apart(x, property[x], b, property[b])
        BY <1>7, <2>1, <2>4
      <3> QED
        BY <1>1, <1>a, <2>1, <2>4, <3>1 DEF Apart, larger
    <2>5. CASE larger /\ b = x + n /\ c = x + n
      BY <1>1, <1>7, <1>a, <2>5 DEF larger
    <2> QED
      BY <1>9, <2>2, <2>3, <2>4, <2>5 DEF larger
  <1>18. Counted' /\ free_page_count' \in Nat
    <2>1. IsFiniteSet(FreePages) /\ Cardinality(FreePages) \in Nat
      BY PagesFinite
    <2>2. IsFiniteSet(Block(x, n)) /\ Cardinality(Block(x, n)) = n
      BY <1>1, <1>a, BlockCard
    <2>3. /\ FreePages \cap Block(x, n) = Block(x, n)
          /\ FreePages' = FreePages \ Block(x, n)
      BY <1>11, <1>14
    <2>4. /\ IsFiniteSet(FreePages') /\ Cardinality(FreePages') \in Nat
          /\ Cardinality(FreePages') = Cardinality(FreePages) - n
      <3>1. /\ IsFiniteSet(FreePages \ Block(x, n))
            /\ Cardinality(FreePages \ Block(x, n)) =
                 Cardinality(FreePages) - Cardinality(FreePages \cap Block(x, n))
        BY <2>1, FS_Difference, Zenon
      <3>2. Cardinality(FreePages \ Block(x, n)) \in Nat
        BY <3>1, FS_CardinalityType, Zenon
      <3> QED
        BY <2>2, <2>3, <3>1, <3>2
    <2>5. free_page_count = Cardinality(FreePages)
      BY <2>1 DEF PMMInv, Counted, TypeOK, Found
    <2> QED
      BY <2>1, <2>4, <2>5 DEF Counted, Found
  <1>19. TypeOK'
    <2>1. e \in [base : UsablePages, bytes : 1 .. MaxBytes \cup {PgSize}]
      BY <1>1 DEF e, Found
    <2>2. live' \subseteq [base : UsablePages, bytes : 1 .. MaxBytes \cup {PgSize}]
      BY <1>10, <2>1 DEF PMMInv, TypeOK
    <2>3. PGP_property' \subseteq UsablePages
      BY <1>3, <1>5 DEF PMMInv, TypeOK
    <2> QED
      BY <1>7, <1>12, <1>16, <1>18, <2>2, <2>3 DEF PMMInv, TypeOK, Found
  <1>20. Partition(FreeHeads', property', live')
    BY <1>10, <1>11, <1>13
  <1>21. PMMInv'
    BY <1>15, <1>16, <1>17, <1>18, <1>19, <1>20 DEF PMMInv
  <1> QED
    BY <1>10, <1>11, <1>14, <1>16, <1>21


\* A free that begins: the pages of the allocation become a free block outside
\* the list, and none of their flags was set.
LEMMA BeginFrees ==
    ASSUME PMMInv, NEW a \in live, FreeBegins(a)
    PROVE  /\ PMMInv' /\ freeing = NULL /\ Ready
           /\ FreePages' = FreePages \cup Block(a.base, Size(a))
  <1>1. PICK H, x, n : H = FreeHeads /\ x = a.base /\ n = Size(a)
    OBVIOUS
  <1>2. freeing = NULL /\ live' = live \ {a} /\ UNCHANGED <<asked, page, vaddr>>
    BY DEF FreeBegins, Ready
  <1>3. H = Elems(free_list) /\ H = PGP_property /\ Partition(H, property, live) /\ ~panic
    BY <1>1, <1>2, HeadsAre DEF PMMInv, FlagsExact
  <1>4. /\ x \in UsablePages /\ x \in AllPages /\ x \in Nat /\ x >= FirstFree
        /\ n \in Nat /\ n >= 1 /\ x + n <= PageCount /\ FirstFree \in Nat
    <2>1. Fits(x, n)
      BY <1>1, <1>3, Zenon DEF Partition, LiveFits
    <2> QED
      BY <2>1, UsableInt, UsableAll, PageAssumption DEF Fits
  <1>5. property \in [AllPages -> Nat] /\ H \subseteq UsablePages /\ H \subseteq AllPages
    BY <1>3, UsableAll DEF PMMInv, TypeOK
  <1>6. PICK g : g = [property EXCEPT ![x] = n]
    OBVIOUS
  <1>7. /\ g[x] = n /\ g \in [AllPages -> Nat]
        /\ \A b \in H : b # x => g[b] = property[b]
    BY <1>4, <1>5, <1>6
  <1>8. Partition(H \cup {x}, g, live \ {a}) /\ Given(H, property, a, g)
    BY <1>1, <1>3, <1>7, GiveBlock, Zenon
  <1>9. /\ Pages(H \cup {x}, g) = Pages(H, property) \cup Block(x, n)
        /\ Pages(H, property) \cap Block(x, n) = {}
        /\ x \notin H
        /\ \A b \in H : ~In(b, x, n)
    BY <1>1, <1>8 DEF Given
  <1>10. ~ \E p \in Block(x, n) : p < FirstFree \/ p \in PGP_property
    <2>1. \A p \in Block(x, n) : p \in Int /\ In(p, x, n) /\ p >= FirstFree
      BY <1>4 DEF Block, In
    <2>2. \A p \in Block(x, n) : ~(p < FirstFree)
      BY <1>4, <2>1
    <2> QED
      BY <1>3, <1>9, <2>1, <2>2
  <1>11. /\ property' = g /\ PGP_property' = PGP_property \cup {x}
         /\ freeing' = [base |-> x, n |-> n, lp |-> 1]
         /\ free_list' = free_list /\ free_page_count' = free_page_count /\ panic' = panic
    BY <1>1, <1>6, <1>10 DEF FreeBegins, Size
  <1>12. /\ freeing' \in Frees /\ freeing' # NULL
         /\ freeing'.base = x /\ freeing'.n = n /\ freeing'.lp = 1
    BY <1>4, <1>11, FreesAssumption DEF Frees
  <1>13. FreeHeads' = H \cup {x}
    <2>1. FreeHeads' = Elems(free_list') \cup (IF freeing' = NULL THEN {} ELSE {freeing'.base})
      BY DEF FreeHeads, Elems
    <2> QED
      BY <1>3, <1>11, <1>12, <2>1
  <1>14. FreePages' = Pages(H \cup {x}, g) /\ FreePages = Pages(H, property)
    <2>1. FreePages' = Pages(FreeHeads', property')
      BY DEF FreePages, FreeBlock, Pages
    <2> QED
      BY <1>1, <1>11, <1>13, <2>1, PagesAre
  <1>15. FlagsExact' /\ ListOK'
    <2>1. FlagsExact'
      BY <1>3, <1>11, <1>13 DEF FlagsExact
    <2>2. x \notin Elems(free_list') /\ IsInjective(free_list')
      BY <1>3, <1>9, <1>11 DEF PMMInv, ListOK
    <2> QED
      BY <1>12, <2>1, <2>2 DEF ListOK
  <1>16. Merged'
    <2>1. \A b \in Elems(free_list) : property'[b] = property[b]
      BY <1>3, <1>7, <1>9, <1>11
    <2>2. \A b, c \in Elems(free_list') : b + property'[b] # c
      BY <1>11, <2>1 DEF PMMInv, Merged
    <2>3. \A j \in 1 .. Len(free_list') : ~(j < freeing'.lp)
      BY <1>12
    <2> QED
      BY <2>2, <2>3 DEF Merged
  <1>17. Counted'
    <2>1. IsFiniteSet(FreePages) /\ Cardinality(FreePages) \in Nat
      BY PagesFinite
    <2>2. IsFiniteSet(Block(x, n)) /\ Cardinality(Block(x, n)) = n
      BY <1>4, BlockCard
    <2>3. Cardinality(FreePages \cup Block(x, n)) =
             Cardinality(FreePages) + Cardinality(Block(x, n)) - Cardinality(FreePages \cap Block(x, n))
      BY <2>1, <2>2, FS_Union, Zenon
    <2>4. Cardinality(FreePages \cap Block(x, n)) = 0
      BY <1>9, <1>14, FS_EmptySet
    <2>5. free_page_count = Cardinality(FreePages)
      BY <1>2, <2>1 DEF PMMInv, Counted, TypeOK
    <2> QED
      BY <1>4, <1>9, <1>11, <1>12, <1>14, <2>1, <2>2, <2>3, <2>4, <2>5 DEF Counted
  <1>18. TypeOK'
    <2>2. live' \subseteq [base : UsablePages, bytes : 1 .. MaxBytes \cup {PgSize}]
      BY <1>2 DEF PMMInv, TypeOK
    <2>3. PGP_property' \subseteq UsablePages
      BY <1>4, <1>11 DEF PMMInv, TypeOK
    <2> QED
      BY <1>2, <1>7, <1>11, <1>12, <2>2, <2>3 DEF PMMInv, TypeOK
  <1>19. Partition(FreeHeads', property', live')
    BY <1>2, <1>8, <1>11, <1>13
  <1>20. PMMInv'
    BY <1>15, <1>16, <1>17, <1>18, <1>19 DEF PMMInv
  <1> QED
    BY <1>1, <1>2, <1>3, <1>9, <1>14, <1>20 DEF Ready


\* What holds in the middle of a free, about the block outside the list.
LEMMA DuringFree ==
    ASSUME PMMInv, freeing # NULL
    PROVE  /\ freeing \in Frees /\ freeing.base \in UsablePages /\ freeing.base \in AllPages
           /\ freeing.n \in Nat /\ freeing.lp \in Nat /\ freeing.lp >= 1
           /\ FreeHeads = Elems(free_list) \cup {freeing.base}
           /\ freeing.base \notin Elems(free_list)
           /\ free_list \in Seq(UsablePages) /\ IsInjective(free_list)
           /\ property \in [AllPages -> Nat]
           /\ \A b \in FreeHeads : b \in Nat /\ b \in AllPages /\ property[b] \in Nat /\ property[b] >= 1
           /\ \A b, c \in Elems(free_list) : b + property[b] # c
  <1>1. freeing \in Frees /\ free_list \in Seq(UsablePages) /\ property \in [AllPages -> Nat]
    BY DEF PMMInv, TypeOK
  <1>2. /\ freeing.base \in UsablePages /\ freeing.base \in AllPages
        /\ freeing.n \in Nat /\ freeing.lp \in Nat
    BY <1>1, UsableAll DEF Frees
  <1>3. /\ freeing.lp >= 1 /\ freeing.base \notin Elems(free_list) /\ IsInjective(free_list)
        /\ \A b, c \in Elems(free_list) : b + property[b] # c
    BY DEF PMMInv, ListOK, Merged
  <1>4. FreeHeads = Elems(free_list) \cup {freeing.base}
    BY HeadsAre
  <1>5. \A b \in FreeHeads : Fits(b, property[b])
    BY DEF PMMInv, Partition, FreeFits
  <1>6. \A b \in FreeHeads : b \in Nat /\ b \in AllPages /\ property[b] \in Nat /\ property[b] >= 1
    BY <1>5, UsableInt, UsableAll DEF Fits
  <1> QED
    BY <1>1, <1>2, <1>3, <1>4, <1>6, Zenon


\* The block outside the list and the one that is visited are x and y, and y
\* begins where x ends: x becomes the block outside the list.
Merges(x, y) ==
    /\ freeing # NULL /\ freeing.lp <= Len(free_list)
    /\ \/ x = freeing.base /\ y = free_list[freeing.lp]
       \/ y = freeing.base /\ x = free_list[freeing.lp]
    /\ x + property[x] = y
    /\ property' = [property EXCEPT ![x] = property[x] + property[y]]
    /\ PGP_property' = PGP_property \ {y}
    /\ freeing' \in Frees /\ freeing'.base = x
    /\ freeing'.n = freeing.n /\ freeing'.lp = freeing.lp
    /\ free_list' = RemoveAt(free_list, freeing.lp)
    /\ UNCHANGED <<free_page_count, panic, live, asked, page, vaddr>>

LEMMA MergeStep ==
    ASSUME PMMInv, NEW x, NEW y, Merges(x, y)
    PROVE  PMMInv' /\ FreePages' = FreePages
  <1>1. PICK H, base, k, p : /\ H = FreeHeads /\ base = freeing.base /\ k = freeing.lp
                             /\ p = free_list[k]
    OBVIOUS
  <1>2. /\ freeing # NULL /\ k <= Len(free_list)
        /\ (x = base /\ y = p) \/ (x = p /\ y = base)
        /\ x + property[x] = y
        /\ property' = [property EXCEPT ![x] = property[x] + property[y]]
        /\ PGP_property' = PGP_property \ {y}
        /\ freeing' \in Frees /\ freeing'.base = x /\ freeing'.n = freeing.n /\ freeing'.lp = k
        /\ free_list' = RemoveAt(free_list, k)
        /\ UNCHANGED <<free_page_count, panic, live, asked, page, vaddr>>
    BY <1>1 DEF Merges
  <1>3. /\ k \in 1 .. Len(free_list) /\ p = free_list[k] /\ p \in Elems(free_list) /\ Len(free_list) \in Nat
    <2>1. k \in Nat /\ k >= 1 /\ free_list \in Seq(UsablePages)
      BY <1>1, <1>2, DuringFree
    <2> QED
      BY <1>1, <1>2, <2>1 DEF Elems
  <1>4. /\ H = Elems(free_list) \cup {base} /\ base \notin Elems(free_list) /\ free_list \in Seq(UsablePages)
        /\ IsInjective(free_list) /\ property \in [AllPages -> Nat]
        /\ \A b \in H : b \in Nat /\ b \in AllPages /\ property[b] \in Nat /\ property[b] >= 1
        /\ \A b, c \in Elems(free_list) : b + property[b] # c
    BY <1>1, <1>2, DuringFree
  <1>5. x \in H /\ y \in H /\ x # y
    BY <1>2, <1>3, <1>4
  <1>6. /\ property' \in [AllPages -> Nat]
        /\ property'[x] = property[x] + property[y]
        /\ \A b \in H \ {x, y} : property'[b] = property[b]
    <2>1. property[x] + property[y] \in Nat /\ x \in AllPages
      BY <1>4, <1>5
    <2> QED
      BY <1>2, <1>4, <1>5, <2>1
  <1>7. Partition(H \ {y}, property', live) /\ Pages(H \ {y}, property') = Pages(H, property)
    <2>1. Partition(H, property, live)
      BY <1>1 DEF PMMInv
    <2>2. PICK K : K = H \ {y}
      OBVIOUS
    <2>3. Joins(H, property, x, y, K, property')
      BY <1>2, <1>5, <1>6, <2>2 DEF Joins
    <2>4. Partition(K, property', live) /\ SamePages(H, property, K, property')
      BY <2>1, <2>3, MergeBlocks, Zenon
    <2> QED
      BY <2>2, <2>4 DEF SamePages
  <1>8. /\ free_list' \in Seq(UsablePages) /\ IsInjective(free_list')
        /\ Deleted(free_list, k, free_list')
    BY <1>2, <1>3, <1>4, ListDel, Zenon
  <1>9. /\ Elems(free_list') = Elems(free_list) \ {p} /\ Len(free_list') = Len(free_list) - 1
        /\ \A j \in 1 .. Len(free_list) : j < k => free_list'[j] = free_list[j]
    BY <1>3, <1>8 DEF Deleted
  <1>10. freeing' # NULL
    BY <1>2, FreesAssumption
  <1>11. FreeHeads' = H \ {y}
    <2>1. FreeHeads' = Elems(free_list') \cup (IF freeing' = NULL THEN {} ELSE {freeing'.base})
      BY DEF FreeHeads, Elems
    <2>2. FreeHeads' = (Elems(free_list) \ {p}) \cup {x}
      BY <1>2, <1>9, <1>10, <2>1
    <2> QED
      BY <1>2, <1>3, <1>4, <2>2
  <1>12. FreePages' = FreePages
    <2>1. FreePages' = Pages(FreeHeads', property')
      BY DEF FreePages, FreeBlock, Pages
    <2> QED
      BY <1>1, <1>7, <1>11, <2>1, PagesAre
  <1>13. FlagsExact'
    BY <1>1, <1>2, <1>11 DEF PMMInv, FlagsExact
  <1>14. ListOK'
    <2>1. x \notin Elems(free_list')
      BY <1>2, <1>4, <1>9
    <2>2. k >= 1
      BY <1>3
    <2> QED
      BY <1>2, <1>8, <2>1, <2>2 DEF ListOK
  <1>15. Merged'
    <2>1. \A b \in Elems(free_list') : b \in Elems(free_list) /\ b \in H \ {x, y} /\ property'[b] = property[b]
      BY <1>2, <1>4, <1>6, <1>9
    <2>2. \A b, c \in Elems(free_list') : b + property'[b] # c
      BY <1>4, <2>1
    <2>3. ASSUME NEW j \in 1 .. Len(free_list'), j < k
          PROVE  /\ free_list'[j] + property'[free_list'[j]] # x
                 /\ x + property'[x] # free_list'[j]
      <3>1. PICK c : c = free_list'[j]
        OBVIOUS
      <3>2. /\ j \in 1 .. Len(free_list) /\ c = free_list[j] /\ c \in Elems(free_list)
            /\ c \in Elems(free_list') /\ property'[c] = property[c]
        BY <1>3, <1>9, <2>1, <2>3, <3>1 DEF Elems
      <3>3. c + property[c] # base /\ base + property[base] # c
        <4>1. \A m \in 1 .. Len(free_list) : m < k =>
                 free_list[m] + property[free_list[m]] # base /\ base + property[base] # free_list[m]
          BY <1>1, <1>2 DEF PMMInv, Merged
        <4> QED
          BY <2>3, <3>2, <4>1
      <3>4. c + property[c] # p /\ p + property[p] # c
        BY <1>3, <1>4, <3>2
      <3>5. property[x] \in Nat /\ property[y] \in Nat /\ x \in Nat /\ y \in Nat /\ c \in Nat
        BY <1>4, <1>5, <3>2
      <3>6. c + property'[c] # x
        BY <1>2, <3>2, <3>3, <3>4
      <3>7. y + property[y] # c
        BY <1>2, <3>3, <3>4
      <3>8. x + property'[x] # c
        BY <1>2, <1>6, <3>5, <3>7
      <3> QED
        BY <3>1, <3>6, <3>8
    <2> QED
      BY <1>2, <2>2, <2>3 DEF Merged
  <1>16. Counted'
    <2>1. free_page_count + freeing.n = Cardinality(FreePages)
      BY <1>2 DEF PMMInv, Counted
    <2> QED
      BY <1>2, <1>10, <1>12, <2>1 DEF Counted
  <1>17. TypeOK'
    BY <1>2, <1>6, <1>8 DEF PMMInv, TypeOK
  <1>18. Partition(FreeHeads', property', live')
    BY <1>2, <1>7, <1>11
  <1> QED
    BY <1>12, <1>13, <1>14, <1>15, <1>16, <1>17, <1>18 DEF PMMInv


\* One turn of the loop of ff_free_pages().
LEMMA VisitKeeps ==
    ASSUME PMMInv, FreeVisits
    PROVE  PMMInv' /\ FreePages' = FreePages /\ UNCHANGED <<live, asked, page>>
  <1>1. PICK p : p = free_list[freeing.lp]
    OBVIOUS
  <1>2. /\ freeing # NULL /\ freeing.lp <= Len(free_list)
        /\ UNCHANGED <<free_page_count, panic, live, asked, page, vaddr>>
    BY DEF FreeVisits
  <1>3. /\ freeing \in Frees /\ freeing.base \in UsablePages
        /\ freeing.lp \in Nat /\ freeing.lp >= 1 /\ free_list \in Seq(UsablePages)
    BY <1>2, DuringFree
  <1>4. p \in UsablePages
    BY <1>1, <1>2, <1>3
  <1>5. CASE isBehind(p) /\ mergeBehind(p) /\ free_list' = RemoveAt(free_list, freeing.lp)
    <2>1. Merges(freeing.base, p)
      BY <1>1, <1>2, <1>3, <1>5 DEF Merges, isBehind, mergeBehind
    <2> QED
      BY <1>2, <2>1, MergeStep
  <1>6. CASE isBefore(p) /\ mergeBefore(p) /\ free_list' = RemoveAt(free_list, freeing.lp)
    <2>1. freeing' = [freeing EXCEPT !.base = p]
      BY <1>6 DEF mergeBefore
    <2>2. /\ freeing' \in Frees /\ freeing'.base = p
          /\ freeing'.n = freeing.n /\ freeing'.lp = freeing.lp
      BY <1>3, <1>4, <2>1 DEF Frees
    <2>3. Merges(p, freeing.base)
      BY <1>1, <1>2, <1>6, <2>2 DEF Merges, isBefore, mergeBefore
    <2> QED
      BY <1>2, <2>3, MergeStep
  <1>7. CASE /\ ~isBehind(p) /\ ~isBefore(p)
             /\ freeing' = [freeing EXCEPT !.lp = @ + 1]
             /\ UNCHANGED <<property, PGP_property, free_list>>
    <2>1. /\ freeing' \in Frees /\ freeing'.base = freeing.base
          /\ freeing'.n = freeing.n /\ freeing'.lp = freeing.lp + 1
      BY <1>3, <1>7 DEF Frees
    <2>2. freeing' # NULL
      BY <2>1, FreesAssumption
    <2>3. FreeHeads' = FreeHeads
      <3>1. FreeHeads' = Elems(free_list') \cup (IF freeing' = NULL THEN {} ELSE {freeing'.base})
        BY DEF FreeHeads, Elems
      <3> QED
        BY <1>2, <1>7, <2>1, <2>2, <3>1, DuringFree
    <2>4. FreePages' = FreePages
      BY <1>7, <2>3 DEF FreePages, FreeBlock
    <2>5. FlagsExact'
      BY <1>2, <1>7, <2>3 DEF PMMInv, FlagsExact
    <2>6. ListOK'
      <3>1. /\ freeing.base \notin Elems(free_list') /\ IsInjective(free_list')
            /\ freeing'.lp >= 1
        BY <1>2, <1>3, <1>7, <2>1, DuringFree
      <3> QED
        BY <2>1, <3>1 DEF ListOK
    <2>7. Merged'
      <3>1. ASSUME NEW j \in 1 .. Len(free_list), j < freeing.lp + 1
            PROVE  /\ free_list[j] + property[free_list[j]] # freeing.base
                   /\ freeing.base + property[freeing.base] # free_list[j]
        <4>1. CASE j < freeing.lp
          BY <1>2, <4>1 DEF PMMInv, Merged
        <4>2. CASE j = freeing.lp
          BY <1>1, <1>7, <4>2 DEF isBehind, isBefore
        <4> QED
          BY <1>3, <3>1, <4>1, <4>2
      <3>2. \A b, c \in Elems(free_list') : b + property'[b] # c
        BY <1>7 DEF PMMInv, Merged
      <3>3. \A j \in 1 .. Len(free_list') : j < freeing'.lp =>
               /\ free_list'[j] + property'[free_list'[j]] # freeing'.base
               /\ freeing'.base + property'[freeing'.base] # free_list'[j]
        BY <1>7, <2>1, <3>1
      <3> QED
        BY <3>2, <3>3 DEF Merged
    <2>8. Counted'
      <3>1. free_page_count + freeing.n = Cardinality(FreePages)
        BY <1>2 DEF PMMInv, Counted
      <3> QED
        BY <1>2, <2>1, <2>2, <2>4, <3>1 DEF Counted
    <2>9. TypeOK'
      BY <1>2, <1>7, <2>1 DEF PMMInv, TypeOK
    <2>10. Partition(FreeHeads', property', live')
      BY <1>2, <1>7, <2>3 DEF PMMInv
    <2> QED
      BY <1>2, <2>4, <2>5, <2>6, <2>7, <2>8, <2>9, <2>10 DEF PMMInv
  <1> QED
    BY <1>1, <1>5, <1>6, <1>7 DEF FreeVisits

\* The end of a free: the block goes into the list, none of whose blocks
\* touches it.
LEMMA EndKeeps ==
    ASSUME PMMInv, FreeEnds
    PROVE  PMMInv' /\ FreePages' = FreePages /\ UNCHANGED <<live, asked, page>>
  <1>1. PICK base : base = freeing.base
    OBVIOUS
  <1>2. /\ freeing # NULL /\ freeing.lp > Len(free_list)
        /\ free_page_count' = free_page_count + freeing.n
        /\ free_list' = <<base>> \o free_list /\ freeing' = NULL
        /\ UNCHANGED <<property, PGP_property, panic, live, asked, page, vaddr>>
    BY <1>1 DEF FreeEnds
  <1>3. /\ base \in UsablePages /\ freeing.n \in Nat /\ freeing.lp \in Nat
        /\ FreeHeads = Elems(free_list) \cup {base} /\ base \notin Elems(free_list)
        /\ free_list \in Seq(UsablePages) /\ IsInjective(free_list)
        /\ \A b \in FreeHeads : b \in Nat /\ property[b] \in Nat /\ property[b] >= 1
        /\ \A b, c \in Elems(free_list) : b + property[b] # c
    BY <1>1, <1>2, DuringFree
  <1>4. /\ free_list' \in Seq(UsablePages) /\ IsInjective(free_list')
        /\ Elems(free_list') = Elems(free_list) \cup {base}
    BY <1>2, <1>3, ListAdd
  <1>5. FreeHeads' = FreeHeads
    <2>1. FreeHeads' = Elems(free_list')
      BY <1>2 DEF FreeHeads, Elems
    <2> QED
      BY <1>3, <1>4, <2>1
  <1>6. FreePages' = FreePages
    BY <1>2, <1>5 DEF FreePages, FreeBlock
  <1>7. FlagsExact' /\ ListOK'
    BY <1>2, <1>4, <1>5 DEF PMMInv, FlagsExact, ListOK
  <1>8. Merged'
    <2>1. \A c \in Elems(free_list) : c + property[c] # base /\ base + property[base] # c
      <3> SUFFICES ASSUME NEW j \in 1 .. Len(free_list)
                   PROVE  /\ free_list[j] + property[free_list[j]] # base
                          /\ base + property[base] # free_list[j]
        BY DEF Elems
      <3>1. j < freeing.lp
        BY <1>2, <1>3
      <3> QED
        BY <1>1, <1>2, <3>1 DEF PMMInv, Merged
    <2>2. base + property[base] # base
      BY <1>3
    <2>3. \A b, c \in Elems(free_list) \cup {base} : b + property[b] # c
      BY <1>3, <2>1, <2>2
    <2> QED
      BY <1>2, <1>4, <2>3 DEF Merged
  <1>9. Counted' /\ free_page_count' \in Nat
    <2>1. free_page_count + freeing.n = Cardinality(FreePages) /\ free_page_count \in Nat
      BY <1>2 DEF PMMInv, Counted, TypeOK
    <2> QED
      BY <1>2, <1>3, <1>6, <2>1 DEF Counted
  <1>10. TypeOK'
    BY <1>2, <1>4, <1>9 DEF PMMInv, TypeOK
  <1>11. Partition(FreeHeads', property', live')
    BY <1>2, <1>5 DEF PMMInv
  <1> QED
    BY <1>2, <1>6, <1>7, <1>8, <1>9, <1>10, <1>11 DEF PMMInv


\* A step that changes nothing but the answers.
LEMMA FrameKeeps ==
    ASSUME PMMInv, UNCHANGED <<area, freeing, panic, live>>, asked' \in Nat,
           page' \in UsablePages \cup {NULL}, vaddr' \in UsablePages \cup {NULL, Garbage}
    PROVE  PMMInv' /\ FreePages' = FreePages
  <1>1. /\ free_list' = free_list /\ free_page_count' = free_page_count
        /\ property' = property /\ PGP_property' = PGP_property
        /\ freeing' = freeing /\ panic' = panic /\ live' = live
    BY DEF area
  <1>2. FreeHeads' = FreeHeads
    BY <1>1 DEF FreeHeads
  <1>3. FreePages' = FreePages
    BY <1>1, <1>2 DEF FreePages, FreeBlock
  <1>4. FlagsExact' /\ ListOK' /\ Merged'
    BY <1>1, <1>2 DEF PMMInv, FlagsExact, ListOK, Merged
  <1>5. Counted'
    BY <1>1, <1>3 DEF PMMInv, Counted
  <1>6. TypeOK'
    BY <1>1 DEF PMMInv, TypeOK
  <1>7. Partition(FreeHeads', property', live')
    BY <1>1, <1>2 DEF PMMInv
  <1> QED
    BY <1>3, <1>4, <1>5, <1>6, <1>7 DEF PMMInv

\* All the memory behind the Pages array is one free block at the start.
LEMMA InitKeeps ==
    ASSUME Init PROVE PMMInv /\ FreePages = UsablePages
  <1>1. /\ free_list = <<FirstFree>> /\ freeing = NULL /\ panic = FALSE
        /\ free_page_count = PageCount - FirstFree /\ PGP_property = {FirstFree}
        /\ live = {} /\ asked = 0 /\ page = NULL /\ vaddr = NULL
        /\ property = [p \in AllPages |-> IF p = FirstFree THEN PageCount - FirstFree ELSE 0]
    BY DEF Init, initPMM
  <1>2. /\ FirstFree \in UsablePages /\ FirstFree \in AllPages
        /\ PageCount - FirstFree \in Nat /\ PageCount - FirstFree >= 1
        /\ FirstFree \in Nat /\ PageCount \in Nat
    BY PageAssumption DEF UsablePages, AllPages
  <1>3. /\ free_list \in Seq(UsablePages) /\ Len(free_list) = 1 /\ free_list[1] = FirstFree
        /\ DOMAIN free_list = 1 .. 1
    BY <1>1, <1>2
  <1>4. property[FirstFree] = PageCount - FirstFree /\ property \in [AllPages -> Nat]
    BY <1>1, <1>2
  <1>5. Elems(free_list) = {FirstFree} /\ FreeHeads = {FirstFree}
    BY <1>1, <1>3, HeadsAre DEF Elems
  <1>6. FlagsExact /\ ListOK
    <2>1. IsInjective(free_list)
      BY <1>3 DEF IsInjective
    <2> QED
      BY <1>1, <1>5, <2>1 DEF FlagsExact, ListOK
  <1>7. Merged
    BY <1>1, <1>2, <1>4, <1>5 DEF Merged
  <1>8. FreePages = UsablePages
    <2>1. FreePages = Block(FirstFree, property[FirstFree])
      BY <1>5 DEF FreePages, FreeBlock
    <2>2. FirstFree + (PageCount - FirstFree) - 1 = PageCount - 1
      BY <1>2
    <2> QED
      BY <1>4, <2>1, <2>2 DEF Block, UsablePages
  <1>9. Counted
    <2>1. Cardinality(Block(FirstFree, PageCount - FirstFree)) = PageCount - FirstFree
      BY <1>2, BlockCard
    <2>2. FreePages = Block(FirstFree, PageCount - FirstFree)
      BY <1>4, <1>5 DEF FreePages, FreeBlock
    <2> QED
      BY <1>1, <1>2, <2>1, <2>2 DEF Counted
  <1>10. TypeOK
    BY <1>1, <1>2, <1>3, <1>4 DEF TypeOK
  <1>11. Partition(FreeHeads, property, live)
    <2>1. FirstFree + property[FirstFree] = PageCount /\ property[FirstFree] >= 1 /\ property[FirstFree] \in Nat
      BY <1>2, <1>4
    <2>2. FreeFits(FreeHeads, property)
      BY <1>2, <1>5, <2>1 DEF FreeFits, Fits
    <2>3. LiveFits(live) /\ FreeNotLive(FreeHeads, property, live)
      BY <1>1 DEF LiveFits, FreeNotLive
    <2>4. Covered(FreeHeads, property, live)
      BY <1>5, <2>1, UsableInt DEF Covered, In
    <2> QED
      BY <2>2, <2>3, <2>4 DEF Partition
  <1> QED
    BY <1>6, <1>7, <1>8, <1>9, <1>10, <1>11 DEF PMMInv

\* What an allocation of n pages for a request of so many bytes does.
Allocates(n, bytes) ==
    /\ freeing = NULL /\ freeing' = NULL /\ panic' = panic
    /\ n \in Nat /\ n >= 1 /\ bytes \in 1 .. MaxBytes \cup {PgSize} /\ pagen(bytes) = n
    /\ ff_alloc_pages(n) /\ Gets(bytes)
    /\ vaddr' \in {vaddr, page', NULL, Garbage}

Refused(n) ==
    /\ n \in Nat /\ n >= 1 /\ freeing = NULL
    /\ asked' = n /\ page' = NULL /\ live' = live /\ FreePages' = FreePages
    /\ ~(n <= free_page_count /\ \E i \in 1 .. Len(free_list) : firstFit(i, n))

Granted(n, bytes) ==
    /\ n \in Nat /\ n >= 1 /\ pagen(bytes) = n
    /\ asked' = n /\ page' \in UsablePages
    /\ live' = live \cup {[base |-> page', bytes |-> bytes]}
    /\ Block(page', n) \subseteq FreePages
    /\ FreePages' = FreePages \ Block(page', n)

LEMMA AllocKeeps ==
    ASSUME PMMInv, NEW n, NEW bytes, Allocates(n, bytes)
    PROVE  PMMInv' /\ (Granted(n, bytes) \/ Refused(n))
  <1>1. /\ freeing = NULL /\ freeing' = NULL /\ panic' = panic
        /\ n \in Nat /\ n >= 1 /\ bytes \in 1 .. MaxBytes \cup {PgSize} /\ pagen(bytes) = n
        /\ ff_alloc_pages(n) /\ asked' = n
        /\ live' = IF page' = NULL THEN live ELSE live \cup {[base |-> page', bytes |-> bytes]}
        /\ vaddr' \in {vaddr, page', NULL, Garbage}
    BY DEF Allocates, Gets, ff_alloc_pages
  <1>2. vaddr \in UsablePages \cup {NULL, Garbage} /\ free_list \in Seq(UsablePages)
    BY DEF PMMInv, TypeOK
  <1>3. CASE ~(n <= free_page_count /\ \E i \in 1 .. Len(free_list) : firstFit(i, n))
    <2>1. page' = NULL /\ UNCHANGED area
      BY <1>1, <1>3 DEF ff_alloc_pages
    <2>2. live' = live /\ vaddr' \in UsablePages \cup {NULL, Garbage}
      BY <1>1, <1>2, <2>1
    <2>3. PMMInv' /\ FreePages' = FreePages
      BY <1>1, <2>1, <2>2, FrameKeeps
    <2>4. Refused(n)
      BY <1>1, <1>3, <2>1, <2>2, <2>3 DEF Refused
    <2> QED
      BY <2>3, <2>4
  <1>4. CASE n <= free_page_count /\ \E i \in 1 .. Len(free_list) : firstFit(i, n)
    <2>1. PICK i \in 1 .. Len(free_list) :
             /\ firstFit(i, n) /\ splitBlock(i, n)
             /\ free_page_count' = free_page_count - n /\ page' = free_list[i]
      BY <1>1, <1>4 DEF ff_alloc_pages
    <2>2. page' \in UsablePages /\ page' # NULL
      BY <1>2, <2>1, UsableInt, AddressAssumption
    <2>3. /\ live' = live \cup {[base |-> page', bytes |-> bytes]}
          /\ vaddr' \in UsablePages \cup {NULL, Garbage}
      BY <1>1, <1>2, <2>2
    <2>4. Found(n, i, bytes)
      BY <1>1, <2>1, <2>3 DEF Found
    <2>5. /\ PMMInv' /\ Block(page', n) \subseteq FreePages
          /\ FreePages' = FreePages \ Block(page', n)
      BY <2>4, AllocTakes
    <2>6. Granted(n, bytes)
      BY <1>1, <2>2, <2>3, <2>5 DEF Granted
    <2> QED
      BY <2>5, <2>6
  <1> QED
    BY <1>3, <1>4

LEMMA AllocActions ==
    ASSUME PMMInv
    PROVE  /\ allocPhyPages => Allocates(1, PgSize)
           /\ \A bytes \in 1 .. MaxBytes : kmalloc(bytes) => Allocates(pagen(bytes), bytes)
  <1>1. ASSUME allocPhyPages PROVE Allocates(1, PgSize)
    BY <1>1, PagenType DEF allocPhyPages, Ready, Allocates
  <1>2. ASSUME NEW bytes \in 1 .. MaxBytes, kmalloc(bytes) PROVE Allocates(pagen(bytes), bytes)
    <2>1. pagen(bytes) \in Nat /\ pagen(bytes) >= 1
      BY PagenType
    <2> QED
      BY <1>2, <2>1 DEF kmalloc, Ready, Allocates
  <1> QED
    BY <1>1, <1>2

LEMMA NextKeeps ==
    ASSUME PMMInv, [Next]_vars
    PROVE  PMMInv'
  <1>1. CASE allocPhyPages
    BY <1>1, AllocActions, AllocKeeps
  <1>2. ASSUME NEW bytes \in 1 .. MaxBytes, kmalloc(bytes) PROVE PMMInv'
    BY <1>2, AllocActions, AllocKeeps
  <1>3. ASSUME NEW a \in live, FreeBegins(a) PROVE PMMInv'
    BY <1>3, BeginFrees
  <1>4. CASE FreeVisits
    BY <1>4, VisitKeeps
  <1>5. CASE FreeEnds
    BY <1>5, EndKeeps
  <1>6. CASE UNCHANGED vars
    <2>1. asked \in Nat /\ page \in UsablePages \cup {NULL} /\ vaddr \in UsablePages \cup {NULL, Garbage}
      BY DEF PMMInv, TypeOK
    <2> QED
      BY <1>6, <2>1, FrameKeeps DEF vars
  <1> QED
    BY <1>1, <1>2, <1>3, <1>4, <1>5, <1>6 DEF Next

\* The books of ff_mmanager.c, with the order of the merges in a free that is
\* half done, are kept by every step.
THEOREM PMMInvariant == Spec => []PMMInv
  <1>1. Init => PMMInv
    BY InitKeeps
  <1>2. PMMInv /\ [Next]_vars => PMMInv'
    BY NextKeeps
  <1> QED
    BY <1>1, <1>2, PTL DEF Spec


----------------------------------------------------------------------------
(* What the runs check follows from the invariant.                         *)

\* The blocks as sets of pages.
LEMMA BlocksApart ==
    ASSUME NEW b, NEW n, NEW c, NEW m, b \in Nat, n \in Nat, c \in Nat, m \in Nat,
           Apart(b, n, c, m)
    PROVE  Block(b, n) \cap Block(c, m) = {}
  BY DEF Apart, Block

LEMMA InBlock ==
    ASSUME NEW b \in Nat, NEW n \in Nat
    PROVE  \A p : p \in Block(b, n) <=> p \in Int /\ In(p, b, n)
  BY DEF Block, In

LEMMA PartitionOK ==
    ASSUME PMMInv PROVE MemoryPartitioned
  <1>1. /\ \A b \in FreeHeads : b \in Nat /\ property[b] \in Nat
        /\ \A b, c \in FreeHeads : b # c => Apart(b, property[b], c, property[c])
    BY UsableInt DEF PMMInv, Partition, FreeFits, Fits
  <1>2. /\ \A a \in live : a.base \in Nat /\ Size(a) \in Nat /\ Fits(a.base, Size(a))
        /\ \A a, d \in live : a # d => Apart(a.base, Size(a), d.base, Size(d))
        /\ \A b \in FreeHeads, a \in live : Apart(b, property[b], a.base, Size(a))
    BY UsableInt DEF PMMInv, Partition, LiveFits, FreeNotLive, Fits
  <1>3. \A a : LiveBlock(a) = Block(a.base, Size(a))
    BY DEF LiveBlock, Size
  <1>4. \A b, c \in FreeHeads : b # c => FreeBlock(b) \cap FreeBlock(c) = {}
    BY <1>1, BlocksApart DEF FreeBlock
  <1>5. \A a, d \in live : a # d => LiveBlock(a) \cap LiveBlock(d) = {}
    BY <1>2, <1>3, BlocksApart
  <1>6. \A b \in FreeHeads, a \in live : FreeBlock(b) \cap LiveBlock(a) = {}
    BY <1>1, <1>2, <1>3, BlocksApart DEF FreeBlock
  <1>7. FreePages \cap UNION {LiveBlock(a) : a \in live} = {}
    BY <1>6 DEF FreePages
  <1>8. FreePages \subseteq UsablePages
    BY PagesFinite
  <1>9. ASSUME NEW a \in live PROVE LiveBlock(a) \subseteq UsablePages
    <2>1. Fits(a.base, Size(a)) /\ a.base \in Nat /\ Size(a) \in Nat
      BY <1>2
    <2>2. a.base >= FirstFree /\ a.base + Size(a) <= PageCount
      BY <2>1, UsableInt DEF Fits
    <2>3. Block(a.base, Size(a)) \subseteq UsablePages
      BY <2>1, <2>2, PageAssumption DEF Block, UsablePages
    <2> QED
      BY <1>3, <2>3
  <1>10. ASSUME NEW p \in UsablePages
         PROVE  p \in FreePages \cup UNION {LiveBlock(a) : a \in live}
    <2>1. p \in Int
      BY UsableInt
    <2>2. CASE \E b \in FreeHeads : In(p, b, property[b])
      <3>1. PICK b \in FreeHeads : In(p, b, property[b])
        BY <2>2
      <3>2. p \in FreeBlock(b)
        BY <1>1, <2>1, <3>1, InBlock DEF FreeBlock
      <3> QED
        BY <3>2 DEF FreePages
    <2>3. CASE \E a \in live : In(p, a.base, Size(a))
      <3>1. PICK a \in live : In(p, a.base, Size(a))
        BY <2>3
      <3>2. p \in LiveBlock(a)
        BY <1>2, <1>3, <2>1, <3>1, InBlock
      <3> QED
        BY <3>2
    <2> QED
      BY <2>2, <2>3 DEF PMMInv, Partition, Covered
  <1>11. FreePages \cup UNION {LiveBlock(a) : a \in live} = UsablePages
    BY <1>8, <1>9, <1>10
  <1>12. IsInjective(free_list)
    BY DEF PMMInv, ListOK
  <1> QED
    BY <1>4, <1>5, <1>7, <1>11, <1>12 DEF MemoryPartitioned

\* getFreeMem() counts every free page once.
LEMMA SumIsCount ==
    ASSUME PMMInv, freeing = NULL
    PROVE  sumTo[Len(free_list)] = Cardinality(FreePages)
  <1> DEFINE N == Len(free_list)
             U(i) == UNION {FreeBlock(free_list[j]) : j \in 1 .. i}
             g == [i \in 0 .. N |-> Cardinality(U(i))]
  <1>1. N \in Nat /\ free_list \in Seq(UsablePages) /\ IsInjective(free_list) /\ DOMAIN free_list = 1 .. N
    BY DEF PMMInv, TypeOK, ListOK
  <1>2. FreeHeads = Elems(free_list)
    BY HeadsAre
  <1>3. FreePages = U(N)
    BY <1>2 DEF FreePages, Elems
  <1>4. \A i \in 1 .. N : /\ free_list[i] \in FreeHeads
                          /\ free_list[i] \in Nat
                          /\ property[free_list[i]] \in Nat /\ property[free_list[i]] >= 1
    <2>1. \A b \in FreeHeads : b \in Nat /\ property[b] \in Nat /\ property[b] >= 1
      BY UsableInt DEF PMMInv, Partition, FreeFits, Fits
    <2> QED
      BY <1>2, <2>1 DEF Elems
  <1>5. U(0) = {}
    BY <1>1
  <1>6. ASSUME NEW i \in 1 .. N
        PROVE  U(i) = U(i - 1) \cup FreeBlock(free_list[i])
    <2>1. 1 .. i = (1 .. i - 1) \cup {i}
      OBVIOUS
    <2> QED
      BY <2>1
  <1>7. ASSUME NEW i \in 1 .. N
        PROVE  U(i - 1) \cap FreeBlock(free_list[i]) = {}
    <2> SUFFICES ASSUME NEW j \in 1 .. i - 1
                 PROVE  FreeBlock(free_list[j]) \cap FreeBlock(free_list[i]) = {}
      OBVIOUS
    <2>1. j \in 1 .. N /\ j # i
      BY <1>1
    <2>2. free_list[j] # free_list[i]
      BY <1>1, <2>1 DEF IsInjective
    <2> QED
      BY <1>4, <2>1, <2>2, PartitionOK DEF MemoryPartitioned
  <1>8. ASSUME NEW i \in 0 .. N PROVE U(i) \subseteq FreePages
    BY <1>1, <1>3
  <1> HIDE DEF U
  <1>9. ASSUME NEW i \in 0 .. N PROVE IsFiniteSet(U(i)) /\ Cardinality(U(i)) \in Nat
    <2>1. U(i) \subseteq FreePages
      BY <1>8
    <2>2. IsFiniteSet(U(i))
      BY <2>1, PagesFinite, FS_Subset
    <2> QED
      BY <2>2, FS_CardinalityType
  <1>10. ASSUME NEW i \in 1 .. N
         PROVE  Cardinality(U(i)) = Cardinality(U(i - 1)) + property[free_list[i]]
    <2>1. PICK V, B, k : V = U(i - 1) /\ B = FreeBlock(free_list[i]) /\ k = property[free_list[i]]
      OBVIOUS
    <2>2. i - 1 \in 0 .. N
      BY <1>1
    <2>3. IsFiniteSet(V) /\ Cardinality(V) \in Nat
      BY <1>9, <2>1, <2>2
    <2>4. IsFiniteSet(B) /\ Cardinality(B) = k /\ k \in Nat
      BY <1>4, <2>1, BlockCard DEF FreeBlock
    <2>5. Cardinality(V \cup B) = Cardinality(V) + Cardinality(B) - Cardinality(V \cap B)
      BY <2>3, <2>4, FS_Union, Zenon
    <2>6. Cardinality(V \cap B) = 0
      BY <1>7, <2>1, FS_EmptySet
    <2>7. U(i) = V \cup B
      BY <1>6, <2>1
    <2> QED
      BY <2>1, <2>3, <2>4, <2>5, <2>6, <2>7
  <1>11. Cardinality(U(0)) = 0
    BY <1>5, FS_EmptySet
  <1>12. g = [i \in 0 .. N |-> IF i = 0 THEN 0 ELSE g[i - 1] + property[free_list[i]]]
    <2> SUFFICES ASSUME NEW i \in 0 .. N
                 PROVE  Cardinality(U(i)) = IF i = 0 THEN 0 ELSE g[i - 1] + property[free_list[i]]
      OBVIOUS
    <2>1. CASE i = 0
      BY <1>11, <2>1
    <2>2. CASE i # 0
      <3>1. i \in 1 .. N /\ i - 1 \in 0 .. N
        BY <1>1, <2>2
      <3>2. g[i - 1] = Cardinality(U(i - 1))
        BY <3>1
      <3> QED
        BY <1>10, <2>2, <3>1, <3>2
    <2> QED
      BY <2>1, <2>2
  <1>13. \A i \in 0 .. N : g[i] = Cardinality(U(i))
    OBVIOUS
  <1> HIDE DEF g
  <1>14. sumTo = [i \in 0 .. N |-> IF i = 0 THEN 0 ELSE sumTo[i - 1] + property[free_list[i]]]
    <2>1. \E h : h = [i \in 0 .. N |-> IF i = 0 THEN 0 ELSE h[i - 1] + property[free_list[i]]]
      BY <1>12
    <2> QED
      BY <2>1, Zenon DEF sumTo
  <1>15. \A i \in Nat : i \in {k \in Nat : k <= N => sumTo[k] = g[k]}
    <2> DEFINE T == {k \in Nat : k <= N => sumTo[k] = g[k]}
    <2>1. 0 \in T
      BY <1>1, <1>12, <1>14
    <2>2. ASSUME NEW k \in T PROVE k + 1 \in T
      <3> SUFFICES ASSUME k + 1 <= N PROVE sumTo[k + 1] = g[k + 1]
        OBVIOUS
      <3>1. k + 1 \in 0 .. N /\ k + 1 # 0 /\ (k + 1) - 1 = k /\ k <= N
        BY <1>1
      <3>2. sumTo[k] = g[k]
        BY <3>1
      <3>3. sumTo[k + 1] = sumTo[k] + property[free_list[k + 1]]
        BY <1>14, <3>1
      <3>4. g[k + 1] = g[k] + property[free_list[k + 1]]
        BY <1>12, <3>1
      <3> QED
        BY <3>2, <3>3, <3>4
    <2>3. T \in SUBSET Nat
      OBVIOUS
    <2> HIDE DEF T
    <2>4. \A n \in Nat : n \in T
      BY <2>1, <2>2, <2>3, NatSet
    <2> QED
      BY <2>4 DEF T
  <1> QED
    BY <1>1, <1>3, <1>13, <1>15


LEMMA CountOK ==
    ASSUME PMMInv PROVE CountExact
  <1>1. CASE freeing = NULL
    <2>1. free_page_count = Cardinality(FreePages)
      BY <1>1 DEF PMMInv, Counted, TypeOK
    <2>2. getFreeMem = free_page_count * PgSize
      BY <1>1, <2>1, SumIsCount DEF getFreeMem
    <2> QED
      BY <1>1, <2>1, <2>2 DEF CountExact
  <1>2. CASE freeing # NULL
    BY <1>2 DEF PMMInv, Counted, CountExact
  <1> QED
    BY <1>1, <1>2

\* For every memory and every sequence of requests and frees: list, sizes,
\* flags and count of ff_mmanager.c agree with each other and with what the
\* callers hold, in the middle of a free too; no free of what was allocated
\* panics, and getFreeMem() tells the free memory.
THEOREM BooksCorrect == Spec => []BooksExact
  <1>1. PMMInv => BooksExact
    BY PartitionOK, CountOK DEF PMMInv, BooksExact
  <1> QED
    BY <1>1, PMMInvariant, PTL

\* One pass of ff_free_pages() over a list in any order leaves no two free
\* blocks that touch.
THEOREM MergingComplete == Spec => []Coalesced
  <1>1. ASSUME PMMInv PROVE Coalesced
    BY <1>1, HeadsAre DEF PMMInv, Merged, Coalesced
  <1> QED
    BY <1>1, PMMInvariant, PTL

----------------------------------------------------------------------------
(* The refinement of PageAlloc.                                            *)

\* A run of free pages lies in one block, so that a request that is refused
\* fits nowhere.
LEMMA RunInOneBlock ==
    ASSUME PMMInv, freeing = NULL, NEW b \in UsablePages, NEW n \in Nat, n >= 1,
           Block(b, n) \subseteq FreePages
    PROVE  \E h \in FreeHeads : property[h] >= n
  <1>1. /\ FreeHeads = Elems(free_list)
        /\ \A h \in FreeHeads : h \in Nat /\ property[h] \in Nat /\ property[h] >= 1
        /\ \A h, c \in FreeHeads : h # c => Apart(h, property[h], c, property[c])
        /\ \A h, c \in FreeHeads : h + property[h] # c
    BY HeadsAre, UsableInt DEF PMMInv, Partition, FreeFits, Fits, Merged
  <1>2. \A p : p \in FreePages <=> p \in Int /\ \E h \in FreeHeads : In(p, h, property[h])
    BY PagesAre, InPages DEF PMMInv, Partition
  <1>3. b \in Nat /\ \A p : p \in Block(b, n) <=> p \in Int /\ In(p, b, n)
    BY UsableInt, InBlock
  <1>4. In(b, b, n)
    BY <1>3 DEF In
  <1>5. PICK h \in FreeHeads : In(b, h, property[h])
    BY <1>2, <1>3, <1>4
  <1>6. b + n <= h + property[h]
    <2> SUFFICES ASSUME ~(b + n <= h + property[h]) PROVE FALSE
      OBVIOUS
    <2>1. PICK q : q = h + property[h]
      OBVIOUS
    <2>2. q \in Int /\ In(q, b, n)
      BY <1>1, <1>3, <1>5, <2>1 DEF In
    <2>3. PICK c \in FreeHeads : In(q, c, property[c])
      BY <1>2, <1>3, <2>2
    <2>4. c # q
      BY <1>1, <2>1
    <2>5. CASE c = h
      BY <1>1, <2>1, <2>3, <2>5 DEF In
    <2>6. CASE c # h
      <3>1. Apart(h, property[h], c, property[c])
        BY <1>1, <2>6
      <3> QED
        BY <1>1, <2>1, <2>3, <2>4, <3>1 DEF Apart, In
    <2> QED
      BY <2>5, <2>6
  <1>7. property[h] >= n
    BY <1>1, <1>3, <1>5, <1>6 DEF In
  <1> QED
    BY <1>7

LEMMA RefusedFitsNowhere ==
    ASSUME PMMInv, NEW n, Refused(n)
    PROVE  \A b \in UsablePages : ~(Block(b, n) \subseteq FreePages)
  <1>1. n \in Nat /\ n >= 1 /\ freeing = NULL
    BY DEF Refused
  <1> SUFFICES ASSUME NEW b \in UsablePages, Block(b, n) \subseteq FreePages
               PROVE  n <= free_page_count /\ \E i \in 1 .. Len(free_list) : firstFit(i, n)
    BY DEF Refused
  <1>2. n <= free_page_count
    <2>1. IsFiniteSet(FreePages)
      BY PagesFinite
    <2>2. Cardinality(Block(b, n)) <= Cardinality(FreePages)
      BY <2>1, FS_Subset
    <2>3. Cardinality(Block(b, n)) = n
      BY <1>1, UsableInt, BlockCard
    <2>4. free_page_count = Cardinality(FreePages)
      BY <1>1 DEF PMMInv, Counted, TypeOK
    <2> QED
      BY <2>2, <2>3, <2>4
  <1>3. PICK h \in FreeHeads : property[h] >= n
    BY <1>1, RunInOneBlock
  <1>4. free_list \in Seq(UsablePages) /\ Len(free_list) \in Nat
        /\ \A i \in 1 .. Len(free_list) : property[free_list[i]] \in Nat
    BY UsableAll DEF PMMInv, TypeOK
  <1>5. \E i \in 1 .. Len(free_list) : firstFit(i, n)
    <2> DEFINE T == {i \in 1 .. Len(free_list) : property[free_list[i]] >= n}
    <2>1. T \in SUBSET Nat /\ T # {}
      BY <1>1, <1>3, HeadsAre DEF Elems
    <2>2. PICK i \in T : \A j \in T : i <= j
      BY <2>1, LeastOf
    <2>3. i \in 1 .. Len(free_list) /\ property[free_list[i]] >= n
      BY <2>2
    <2>4. ASSUME NEW j \in 1 .. i - 1 PROVE property[free_list[j]] < n
      <3>1. j \in 1 .. Len(free_list) /\ ~(i <= j)
        BY <1>4, <2>3
      <3>2. ~(property[free_list[j]] >= n)
        BY <2>2, <3>1
      <3> QED
        BY <1>1, <1>4, <3>1, <3>2
    <2>5. firstFit(i, n)
      BY <2>3, <2>4 DEF firstFit
    <2> QED
      BY <2>3, <2>5
  <1> QED
    BY <1>2, <1>5

\* The allocations as PageAlloc sees them.
rec(a) == [base |-> a.base, n |-> pagen(a.bytes)]
LiveRecs == {rec(a) : a \in live}
AskSizes == {pagen(b) : b \in 1 .. MaxBytes} \cup {1}

LEMMA AllocRefines ==
    ASSUME PMMInv, NEW n \in AskSizes, NEW bytes, Granted(n, bytes) \/ Refused(n)
    PROVE  Abs!ANext
  <1>1. CASE Granted(n, bytes)
    <2>1. /\ asked' = n /\ page' \in UsablePages /\ Block(page', n) \subseteq FreePages
          /\ FreePages' = FreePages \ Block(page', n)
          /\ live' = live \cup {[base |-> page', bytes |-> bytes]} /\ pagen(bytes) = n
      BY <1>1 DEF Granted
    <2>2. LiveRecs' = LiveRecs \cup {[base |-> page', n |-> n]}
      <3>1. rec([base |-> page', bytes |-> bytes]) = [base |-> page', n |-> n]
        BY <2>1 DEF rec
      <3>2. LiveRecs' = {rec(a) : a \in live'}
        BY DEF LiveRecs, rec
      <3> QED
        BY <2>1, <3>1, <3>2 DEF LiveRecs
    <2>3. Abs!Allocate(n)
      BY <2>1, <2>2 DEF Abs!Allocate, Abs!Run, Block, LiveRecs, rec
    <2> QED
      BY <2>3 DEF Abs!ANext, AskSizes
  <1>2. CASE Refused(n)
    <2>1. asked' = n /\ page' = NULL /\ live' = live /\ FreePages' = FreePages
      BY <1>2 DEF Refused
    <2>2. \A b \in UsablePages : ~(Block(b, n) \subseteq FreePages)
      BY <1>2, RefusedFitsNowhere
    <2>3. Abs!Refuse(n)
      BY <2>1, <2>2 DEF Abs!Refuse, Abs!Run, Block
    <2> QED
      BY <2>3 DEF Abs!ANext, AskSizes
  <1> QED
    BY <1>1, <1>2

LEMMA FreeRefines ==
    ASSUME PMMInv, NEW a \in live, FreeBegins(a)
    PROVE  Abs!ANext
  <1>1. FreePages' = FreePages \cup Block(a.base, Size(a))
    BY BeginFrees
  <1>2. live' = live \ {a} /\ page' = page /\ asked' = asked
    BY DEF FreeBegins
  <1>3. ASSUME NEW d \in live, d # a PROVE rec(d) # rec(a)
    <2>1. /\ Fits(a.base, Size(a)) /\ Fits(d.base, Size(d))
          /\ Apart(a.base, Size(a), d.base, Size(d))
      BY <1>3 DEF PMMInv, Partition, LiveFits
    <2>2. d.base # a.base
      BY <2>1, UsableInt DEF Fits, Apart
    <2> QED
      BY <2>2 DEF rec
  <1>4. LiveRecs' = LiveRecs \ {rec(a)}
    <2>1. LiveRecs' = {rec(d) : d \in live'}
      BY DEF LiveRecs, rec
    <2> QED
      BY <1>2, <1>3, <2>1 DEF LiveRecs
  <1>5. rec(a) \in LiveRecs /\ rec(a).base = a.base /\ rec(a).n = Size(a)
    BY DEF LiveRecs, rec, Size
  <1>6. Abs!Release(rec(a))
    BY <1>1, <1>2, <1>4, <1>5 DEF Abs!Release, Abs!Run, Block, LiveRecs, rec
  <1> QED
    BY <1>5, <1>6 DEF Abs!ANext, LiveRecs, rec

\* The allocator does what PageAlloc promises: it hands out pages that nobody
\* has, refuses a request only when no run of free pages is long enough, and
\* takes back what was allocated; the turns of the loop of a free do not show.
THEOREM AllocatorIsPageAlloc == Spec => ImplementsPageAlloc
  <1>1. ASSUME Init PROVE Abs!AInit
    <2>1. FreePages = UsablePages /\ live = {} /\ asked = 0 /\ page = NULL
      BY <1>1, InitKeeps DEF Init
    <2> QED
      BY <2>1 DEF Abs!AInit
  <1>2. ASSUME PMMInv, [Next]_vars PROVE [Abs!ANext]_(Abs!avars)
    <2>1. CASE allocPhyPages
      <3>1. Granted(1, PgSize) \/ Refused(1)
        BY <1>2, <2>1, AllocActions, AllocKeeps
      <3> QED
        BY <1>2, <3>1, AllocRefines DEF AskSizes
    <2>2. ASSUME NEW bytes \in 1 .. MaxBytes, kmalloc(bytes) PROVE Abs!ANext
      <3>1. Granted(pagen(bytes), bytes) \/ Refused(pagen(bytes))
        BY <1>2, <2>2, AllocActions, AllocKeeps
      <3>2. pagen(bytes) \in AskSizes
        BY DEF AskSizes
      <3> QED
        BY <1>2, <3>1, <3>2, AllocRefines
    <2>3. ASSUME NEW a \in live, FreeBegins(a) PROVE Abs!ANext
      BY <1>2, <2>3, FreeRefines
    <2>4. CASE FreeVisits \/ FreeEnds
      <3>1. FreePages' = FreePages /\ live' = live /\ asked' = asked /\ page' = page
        BY <1>2, <2>4, VisitKeeps, EndKeeps
      <3> QED
        BY <3>1 DEF Abs!avars
    <2>5. CASE UNCHANGED vars
      <3>1. /\ free_list' = free_list /\ property' = property /\ freeing' = freeing
            /\ live' = live /\ asked' = asked /\ page' = page
        BY <2>5 DEF vars, area
      <3>2. FreePages' = FreePages
        BY <3>1 DEF FreePages, FreeBlock, FreeHeads
      <3> QED
        BY <3>1, <3>2 DEF Abs!avars
    <2> QED
      BY <1>2, <2>1, <2>2, <2>3, <2>4, <2>5 DEF Next
  <1> QED
    BY <1>1, <1>2, PMMInvariant, PTL DEF Spec, ImplementsPageAlloc, Abs!ASpec

=============================================================================
