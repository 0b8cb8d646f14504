---------------------------- MODULE StdinProofs -----------------------------
(***************************************************************************)
(* For every number of readers and every length of the buffers: no reader  *)
(* sleeps beside a character, a character is left in the ring of kbd.c     *)
(* only for a keyboard interrupt that merged with another, and until a     *)
(* buffer has been full every character is delivered once and in order.    *)
(***************************************************************************)
EXTENDS Stdin, SchedProofs, FiniteSetTheorems, WellFoundedInduction

Distinct(q) == \A i, j \in 1 .. Len(q) : q[i] = q[j] => i = j

\* The readers: a reader is asleep exactly while it is in the queue, each one
\* is there once, and nobody sleeps while there is something to read.
ReadersInv ==
    /\ Distinct(wait_queue.list)
    /\ \A t \in Tasks :
          /\ sch.state[t] \in {"RUNNABLE", "SLEEPING"}
          /\ Contains(wait_queue.list, t) <=> sch.state[t] = "SLEEPING"
          /\ sch.state[t] = "SLEEPING" => p_rpos = p_wpos
    /\ sch.state[Cur] = "RUNNABLE"
    /\ p_rpos <= p_wpos /\ p_wpos - p_rpos <= BufLen

\* The number of characters in the ring, and the place of the j-th.
Behind(r, w) == IF w >= r THEN w - r ELSE w - r + KbdLen
Beyond(r, j) == IF r + j >= KbdLen THEN r + j - KbdLen ELSE r + j
Held(b) == Behind(b.rpos, b.wpos)
Place(b, j) == Beyond(b.rpos, j - 1)

Ring == [buffer : [0 .. KbdLen - 1 -> 0 .. MaxKeys],
         rpos : 0 .. KbdLen - 1, wpos : 0 .. KbdLen - 1]

\* The characters in the ring are the numbers after n.
RingFrom(b, n) == \A j \in 1 .. Held(b) : b.buffer[Place(b, j)] = n + j

\* A latched request is for the bytes in the controller, if there are any: only
\* without them it takes another character out of the ring.
RingInv ==
    /\ controller # << >> => irq
    /\ Held(KBDbuffer) <= merged + (IF irq /\ controller = << >> THEN 1 ELSE 0)

\* The characters in the controller are the numbers from n + 1 up to m: g counts
\* them byte by byte.
ControllerFrom(q, n, m) ==
    \E g \in [0 .. Len(q) -> Nat] :
       /\ g[0] = n /\ g[Len(q)] = m
       /\ \A i \in 1 .. Len(q) : \/ q[i] = 0 /\ g[i] = g[i - 1]
                                 \/ q[i] = g[i - 1] + 1 /\ g[i] = g[i - 1] + 1

\* 1 for a byte that is a character.
One(c) == IF c = 0 THEN 0 ELSE 1

\* x counts from a + 1 to b.
Counts(x, a, b) ==
    /\ x \in Seq(Nat) /\ a \in Nat /\ b \in Nat /\ Len(x) = b - a
    /\ \A i \in 1 .. b - a : x[i] = a + i

\* Where the characters are, as long as none has been lost: the positions of
\* the device buffer count those delivered and those that went through the ring.
PlacesInv ==
    /\ Counts(delivered, 0, p_rpos)
    /\ \A i \in p_rpos .. p_wpos - 1 : stdin_buffer[i % BufLen] = i + 1
    /\ RingFrom(KBDbuffer, p_wpos)
    /\ ControllerFrom(controller, p_wpos + Held(KBDbuffer), typed)

StdinInv ==
    /\ TypeOK /\ SchedInv(sch) /\ ~sch.panic
    /\ ReadersInv /\ RingInv
    /\ ~overrun => PlacesInv

----------------------------------------------------------------------------
(* Numbers and sequences.                                                  *)

\* Induction, for a set of numbers.
LEMMA NatSet ==
    ASSUME NEW T \in SUBSET Nat, 0 \in T, \A n \in T : n + 1 \in T
    PROVE  \A n \in Nat : n \in T
  <1> SUFFICES ASSUME Nat \ T # {} PROVE FALSE
    OBVIOUS
  <1> DEFINE R == OpToRel(<, Nat)
  <1>1. IsWellFoundedOn(R, Nat)
    BY NatLessThanWellFounded
  <1>2. \A x, y \in Nat : <<x, y>> \in R <=> x < y
    BY DEF OpToRel
  <1> HIDE DEF R
  <1>3. PICK x \in Nat \ T : \A y \in Nat \ T : ~(<<y, x>> \in R)
    BY <1>1, WFMin
  <1>4. x # 0 /\ x - 1 \in Nat
    OBVIOUS
  <1>5. <<x - 1, x>> \in R
    BY <1>2, <1>4
  <1>6. x - 1 \in T
    BY <1>3, <1>4, <1>5
  <1> QED
    BY <1>4, <1>6

\* f starts with a, and each value comes from the one before it by G.
Iterates(f, S, a, N, G) ==
    f \in [0 .. N -> S] /\ f[0] = a /\ \A n \in 1 .. N : f[n] = G[<<f[n - 1], n>>]

\* A recursive function on 0 .. N exists.
LEMMA Recursion ==
    ASSUME NEW S, NEW a \in S, NEW N \in Nat, NEW G \in [S \X (1 .. N) -> S]
    PROVE  \E f : Iterates(f, S, a, N, G)
  <1> DEFINE Fits(h, k) == /\ h \in [0 .. k -> S] /\ h[0] = a
                           /\ \A n \in 1 .. k : h[n] = G[<<h[n - 1], n>>]
             T == {k \in Nat : k <= N => \E h : Fits(h, k)}
  <1>1. 0 \in T
    <2> DEFINE h == [n \in {0} |-> a]
    <2>1. h[0] = a /\ h \in [0 .. 0 -> S] /\ 1 .. 0 = {}
      OBVIOUS
    <2> HIDE DEF h
    <2>2. Fits(h, 0)
      BY <2>1
    <2> HIDE DEF Fits
    <2> QED
      BY <2>2
  <1>2. ASSUME NEW k \in T PROVE k + 1 \in T
    <2> SUFFICES ASSUME k + 1 <= N PROVE \E h : Fits(h, k + 1)
      OBVIOUS
    <2>1. k \in Nat /\ k <= N /\ k + 1 \in 1 .. N
      OBVIOUS
    <2>2. PICK h : Fits(h, k)
      BY <2>1
    <2> HIDE DEF T
    <2> DEFINE g == [n \in 0 .. k + 1 |-> IF n <= k THEN h[n] ELSE G[<<h[k], k + 1>>]]
    <2>3. h[k] \in S /\ G[<<h[k], k + 1>>] \in S
      BY <2>1, <2>2
    <2>4. /\ g \in [0 .. k + 1 -> S]
          /\ \A n \in 0 .. k : g[n] = h[n]
          /\ g[k + 1] = G[<<h[k], k + 1>>]
      BY <2>1, <2>2, <2>3
    <2> HIDE DEF g
    <2>5. ASSUME NEW n \in 1 .. k + 1 PROVE g[n] = G[<<g[n - 1], n>>]
      <3>1. CASE n <= k
        <4>1. n \in 0 .. k /\ n - 1 \in 0 .. k /\ n \in 1 .. k
          BY <2>1, <3>1
        <4> QED
          BY <2>2, <2>4, <4>1
      <3>2. CASE ~(n <= k)
        <4>1. n = k + 1 /\ n - 1 = k /\ k \in 0 .. k
          BY <2>1, <3>2
        <4> QED
          BY <2>4, <4>1
      <3> QED
        BY <3>1, <3>2
    <2>6. g[0] = a
      <3>1. 0 \in 0 .. k
        BY <2>1
      <3> QED
        BY <2>2, <2>4, <3>1
    <2>7. Fits(g, k + 1)
      BY <2>4, <2>5, <2>6
    <2> HIDE DEF Fits
    <2> QED
      BY <2>7
  <1>3. \A k \in Nat : k \in T
    <2>1. T \in SUBSET Nat
      OBVIOUS
    <2> HIDE DEF T
    <2> QED
      BY <1>1, <1>2, <2>1, NatSet
  <1>4. N \in T
    BY <1>3
  <1>5. PICK h : Fits(h, N)
    BY <1>4
  <1>6. Iterates(h, S, a, N, G)
    BY <1>5 DEF Iterates
  <1> QED
    BY <1>6

\* A new element at the end of a sequence without repetition.
LEMMA AppendDistinct ==
    ASSUME NEW S, NEW q \in Seq(S), NEW e \in S, Distinct(q), ~Contains(q, e)
    PROVE  /\ Append(q, e) \in Seq(S) /\ Distinct(Append(q, e))
           /\ \A x : Contains(Append(q, e), x) <=> Contains(q, x) \/ x = e
  <1> DEFINE r == Append(q, e)
  <1>1. /\ r \in Seq(S) /\ Len(q) \in Nat
        /\ Len(r) = Len(q) + 1
        /\ \A i \in 1 .. Len(q) : r[i] = q[i]
        /\ r[Len(q) + 1] = e
    BY AppendElements
  <1> HIDE DEF r
  <1>2. Distinct(r)
    BY <1>1 DEF Distinct, Contains
  <1>3. \A x : Contains(r, x) <=> Contains(q, x) \/ x = e
    BY <1>1 DEF Contains
  <1> QED
    BY <1>1, <1>2, <1>3 DEF r

\* A sequence of Cardinality(S) different elements of S holds all of S.
LEMMA OrderOf ==
    ASSUME NEW S, IsFiniteSet(S), NEW q \in SetToSeqs(S)
    PROVE  /\ q \in Seq(S) /\ Distinct(q)
           /\ \A x \in S : \E i \in 1 .. Len(q) : q[i] = x
  <1> DEFINE n == Cardinality(S)
  <1>1. n \in Nat
    BY FS_CardinalityType
  <1>2. q \in [1 .. n -> S] /\ \A i, j \in 1 .. n : i # j => q[i] # q[j]
    BY DEF SetToSeqs
  <1> HIDE DEF n
  <1>3. q \in Seq(S) /\ Len(q) = n
    BY <1>1, <1>2
  <1>4. q \in Injection(1 .. n, S)
    BY <1>2 DEF Injection, IsInjective
  <1>5. Cardinality(1 .. n) = n
    BY <1>1, FS_Interval
  <1>6. q \in Surjection(1 .. n, S)
    BY <1>4, <1>5, FS_Injection DEF n
  <1> QED
    BY <1>2, <1>3, <1>6 DEF Surjection, Distinct

\* Positions that are less than n apart have different remainders.
LEMMA ModDistinct ==
    ASSUME NEW n \in Nat \ {0}, NEW p \in Nat, NEW q \in Nat, p < q, q < p + n
    PROVE  p % n # q % n
  <1>1. /\ p = n * (p \div n) + (p % n) /\ q = n * (q \div n) + (q % n)
        /\ p \div n \in Int /\ q \div n \in Int
        /\ p % n \in Int /\ q % n \in Int
    OBVIOUS
  <1>2. SUFFICES ASSUME NEW a \in Int, NEW b \in Int, NEW r \in Int,
                        p = n * a + r, q = n * b + r
                 PROVE  FALSE
    BY <1>1
  <1>3. n * b - n * a = n * (b - a)
    OBVIOUS
  <1>4. n * (b - a) > 0 /\ n * (b - a) < n
    BY <1>2, <1>3
  <1> QED
    BY <1>4

\* Remainders of small numbers.
LEMMA ModSmall ==
    ASSUME NEW n \in Nat \ {0}, NEW x \in 0 .. n - 1
    PROVE  x % n = x /\ (x + n) % n = x
  OBVIOUS

\* Counting up to b and on from there.
LEMMA CountsOn ==
    ASSUME NEW x, NEW y, NEW a, NEW b, NEW c, Counts(x, a, b), Counts(y, b, c)
    PROVE  Counts(x \o y, a, c)
  <1>1. /\ x \in Seq(Nat) /\ y \in Seq(Nat) /\ a \in Nat /\ b \in Nat /\ c \in Nat
        /\ Len(x) = b - a /\ Len(y) = c - b
    BY DEF Counts
  <1> DEFINE z == x \o y
  <1>2. /\ z \in Seq(Nat) /\ Len(z) = Len(x) + Len(y)
        /\ \A i \in 1 .. Len(x) + Len(y) : z[i] = IF i <= Len(x) THEN x[i] ELSE y[i - Len(x)]
    BY <1>1, ConcatProperties
  <1> HIDE DEF z
  <1>3. ASSUME NEW i \in 1 .. c - a PROVE z[i] = a + i
    <2>1. CASE i <= Len(x)
      BY <1>1, <1>2, <2>1 DEF Counts
    <2>2. CASE ~(i <= Len(x))
      <3>1. i - Len(x) \in 1 .. c - b
        BY <1>1, <2>2
      <3>2. z[i] = y[i - Len(x)]
        BY <1>1, <1>2, <2>2
      <3>3. y[i - Len(x)] = b + (i - Len(x))
        BY <3>1 DEF Counts
      <3> QED
        BY <1>1, <3>2, <3>3
    <2> QED
      BY <2>1, <2>2
  <1> QED
    BY <1>1, <1>2, <1>3 DEF Counts, z

----------------------------------------------------------------------------
(* The ring of kbd.c.                                                      *)

\* The positions of the ring: w is behind r by as much as it has gone beyond it.
LEMMA RingPlaces ==
    ASSUME NEW r \in 0 .. KbdLen - 1, NEW w \in 0 .. KbdLen - 1
    PROVE  /\ Behind(r, w) \in Nat /\ Behind(r, w) < KbdLen
           /\ Behind(r, w) = 0 <=> w = r
           /\ Beyond(r, Behind(r, w)) = w
           /\ Beyond(w, 1) \in 0 .. KbdLen - 1
           /\ Behind(r, Beyond(w, 1)) = IF Beyond(w, 1) = r THEN 0 ELSE Behind(r, w) + 1
           /\ w # r => Behind(Beyond(r, 1), w) = Behind(r, w) - 1
  BY KbdLenAssumption DEF Behind, Beyond

LEMMA BeyondPlaces ==
    ASSUME NEW r \in 0 .. KbdLen - 1, NEW w \in 0 .. KbdLen - 1, NEW j \in 0 .. KbdLen - 1
    PROVE  /\ Beyond(r, j) \in 0 .. KbdLen - 1
           /\ j < Behind(r, w) => Beyond(r, j) # w
           /\ j > 0 => Beyond(r, j) = Beyond(Beyond(r, 1), j - 1)
  BY KbdLenAssumption DEF Behind, Beyond

\* The place of the j-th character is in the ring.
LEMMA PlaceInRing ==
    ASSUME NEW b \in Ring, NEW j \in 1 .. KbdLen
    PROVE  Place(b, j) \in 0 .. KbdLen - 1
  <1>1. b.rpos \in 0 .. KbdLen - 1
    BY DEF Ring
  <1>2. j - 1 \in 0 .. KbdLen - 1
    BY KbdLenAssumption
  <1> QED
    BY <1>1, <1>2, BeyondPlaces DEF Place

LEMMA HeldInRing ==
    ASSUME NEW b \in Ring
    PROVE  /\ Held(b) \in Nat /\ Held(b) < KbdLen
           /\ Held(b) = 0 <=> b.wpos = b.rpos
  <1>1. b.rpos \in 0 .. KbdLen - 1 /\ b.wpos \in 0 .. KbdLen - 1
    BY DEF Ring
  <1> QED
    BY <1>1, RingPlaces DEF Held

\* A character goes to the end of what the ring holds, unless it makes the
\* write position meet the read position.
LEMMA PutRing ==
    ASSUME NEW b \in Ring, NEW c \in 1 .. MaxKeys
    PROVE  /\ putChar(b, c) \in Ring /\ putChar(b, c).rpos = b.rpos
           /\ Held(putChar(b, c)) <= Held(b) + 1
           /\ putChar(b, c).wpos # b.rpos => Held(putChar(b, c)) = Held(b) + 1
           /\ \A n \in Nat : RingFrom(b, n) /\ c = n + Held(b) + 1 /\ putChar(b, c).wpos # b.rpos
                             => RingFrom(putChar(b, c), n)
  <1> DEFINE r == putChar(b, c)
             w == Beyond(b.wpos, 1)
             f == [b.buffer EXCEPT ![b.wpos] = c]
  <1>1. /\ b.rpos \in 0 .. KbdLen - 1 /\ b.wpos \in 0 .. KbdLen - 1
        /\ b.buffer \in [0 .. KbdLen - 1 -> 0 .. MaxKeys]
    BY DEF Ring
  <1>2. r = [b EXCEPT !.buffer = f, !.wpos = w]
    <2>1. w = IF b.wpos + 1 >= KbdLen THEN 0 ELSE b.wpos + 1
      BY <1>1, KbdLenAssumption DEF Beyond
    <2>2. c # 0
      BY BoundsAssumption
    <2> HIDE DEF w
    <2> QED
      BY <2>1, <2>2 DEF putChar
  <1>3. f \in [0 .. KbdLen - 1 -> 0 .. MaxKeys] /\ w \in 0 .. KbdLen - 1
    <2>1. c \in 0 .. MaxKeys
      BY BoundsAssumption
    <2> QED
      BY <1>1, <2>1, RingPlaces
  <1>4. f[b.wpos] = c /\ \A k \in 0 .. KbdLen - 1 : k # b.wpos => f[k] = b.buffer[k]
    BY <1>1
  <1>4a. /\ Behind(b.rpos, b.wpos) \in Nat
         /\ Behind(b.rpos, w) = IF w = b.rpos THEN 0 ELSE Behind(b.rpos, b.wpos) + 1
    BY <1>1, RingPlaces
  <1> HIDE DEF r, f, w
  <1>5. r \in Ring /\ r.rpos = b.rpos /\ r.wpos = w /\ r.buffer = f
    BY <1>2, <1>3 DEF Ring
  <1>6. Held(r) <= Held(b) + 1 /\ (w # b.rpos => Held(r) = Held(b) + 1)
    BY <1>4a, <1>5 DEF Held
  <1>7. ASSUME NEW n \in Nat, RingFrom(b, n), c = n + Held(b) + 1, w # b.rpos
        PROVE  RingFrom(r, n)
    <2> SUFFICES ASSUME NEW j \in 1 .. Held(r) PROVE r.buffer[Place(r, j)] = n + j
      BY DEF RingFrom
    <2>1. Held(b) \in Nat /\ Held(b) < KbdLen /\ Held(r) = Held(b) + 1 /\ Held(r) < KbdLen
      BY <1>5, <1>6, <1>7, HeldInRing, KbdLenAssumption
    <2>2. Place(r, j) = Place(b, j)
      BY <1>5 DEF Place
    <2>3. CASE j = Held(b) + 1
      <3>1. j - 1 = Held(b)
        BY <2>1, <2>3
      <3>2. Place(b, j) = b.wpos
        BY <1>1, <3>1, RingPlaces DEF Place, Held
      <3> QED
        BY <1>4, <1>5, <1>7, <2>1, <2>2, <2>3, <3>2
    <2>4. CASE j # Held(b) + 1
      <3>1. /\ j \in 1 .. Held(b) /\ j \in 1 .. KbdLen
            /\ j - 1 \in 0 .. KbdLen - 1 /\ j - 1 < Held(b)
        BY <2>1, <2>4, KbdLenAssumption
      <3>2. Place(b, j) # b.wpos
        BY <1>1, <3>1, BeyondPlaces DEF Place, Held
      <3>3. Place(b, j) \in 0 .. KbdLen - 1
        BY <3>1, PlaceInRing
      <3> QED
        BY <1>4, <1>5, <1>7, <2>2, <3>1, <3>2, <3>3 DEF RingFrom
    <2> QED
      BY <2>3, <2>4
  <1> QED
    BY <1>5, <1>6, <1>7 DEF r

\* The oldest character leaves the ring.
LEMMA TakeRing ==
    ASSUME NEW b \in Ring
    PROVE  /\ kbdAdvance(b) \in Ring /\ kbdGetCharFromBuffer(b) \in 0 .. MaxKeys
           /\ Held(b) = 0 => kbdGetCharFromBuffer(b) = 0 /\ kbdAdvance(b) = b
           /\ Held(b) > 0 => Held(kbdAdvance(b)) = Held(b) - 1
           /\ \A n \in Nat : RingFrom(b, n) /\ Held(b) > 0 =>
                 kbdGetCharFromBuffer(b) = n + 1 /\ RingFrom(kbdAdvance(b), n + 1)
  <1> DEFINE r == kbdAdvance(b)
             i == Beyond(b.rpos, 1)
  <1>1. /\ b.rpos \in 0 .. KbdLen - 1 /\ b.wpos \in 0 .. KbdLen - 1
        /\ b.buffer \in [0 .. KbdLen - 1 -> 0 .. MaxKeys]
    BY DEF Ring
  <1>2. kbdGetCharFromBuffer(b) \in 0 .. MaxKeys
    <2>1. b.buffer[b.rpos] \in 0 .. MaxKeys
      BY <1>1
    <2>2. 0 \in 0 .. MaxKeys
      BY BoundsAssumption
    <2> QED
      BY <2>1, <2>2 DEF kbdGetCharFromBuffer
  <1>3. CASE b.wpos = b.rpos
    <2>1. Held(b) = 0 /\ kbdGetCharFromBuffer(b) = 0 /\ kbdAdvance(b) = b
      BY <1>3, HeldInRing DEF kbdGetCharFromBuffer, kbdAdvance
    <2> QED
      BY <1>2, <2>1
  <1>4. CASE b.wpos # b.rpos
    <2>0. i = IF b.rpos + 1 >= KbdLen THEN 0 ELSE b.rpos + 1
      BY <1>1, KbdLenAssumption DEF Beyond
    <2>2. i \in 0 .. KbdLen - 1 /\ Behind(i, b.wpos) = Behind(b.rpos, b.wpos) - 1
      BY <1>1, <1>4, RingPlaces
    <2> HIDE DEF i
    <2>1. r = [b EXCEPT !.rpos = i] /\ kbdGetCharFromBuffer(b) = b.buffer[b.rpos]
      BY <1>4, <2>0 DEF kbdAdvance, kbdGetCharFromBuffer
    <2> HIDE DEF r
    <2>3. r \in Ring /\ r.rpos = i /\ r.wpos = b.wpos /\ r.buffer = b.buffer
      BY <2>1, <2>2 DEF Ring
    <2>4. Held(b) \in Nat /\ Held(b) > 0 /\ Held(b) < KbdLen /\ Held(r) = Held(b) - 1
      <3>1. Held(b) \in Nat /\ Held(b) # 0 /\ Held(b) < KbdLen
        BY <1>4, HeldInRing
      <3>2. Held(r) = Held(b) - 1
        BY <2>2, <2>3 DEF Held
      <3> QED
        BY <3>1, <3>2
    <2>5. ASSUME NEW n \in Nat, RingFrom(b, n)
          PROVE  b.buffer[b.rpos] = n + 1 /\ RingFrom(r, n + 1)
      <3>1. 1 \in 1 .. Held(b) /\ Place(b, 1) = b.rpos
        BY <1>1, <2>4, KbdLenAssumption DEF Place, Beyond
      <3>2. ASSUME NEW j \in 1 .. Held(r) PROVE r.buffer[Place(r, j)] = (n + 1) + j
        <4>0. j \in 1 .. Held(b) - 1
          BY <2>4
        <4>1. /\ j + 1 \in 1 .. Held(b) /\ j \in Nat /\ j \in 0 .. KbdLen - 1 /\ j > 0
              /\ (j + 1) - 1 = j
          BY <2>4, <4>0, KbdLenAssumption
        <4>2. Place(r, j) = Place(b, j + 1)
          <5>1. Beyond(b.rpos, j) = Beyond(i, j - 1)
            BY <1>1, <4>1, BeyondPlaces DEF i
          <5>2. Place(r, j) = Beyond(i, j - 1) /\ Place(b, j + 1) = Beyond(b.rpos, j)
            BY <2>3, <4>1 DEF Place
          <5> QED
            BY <5>1, <5>2
        <4>3. b.buffer[Place(b, j + 1)] = n + (j + 1)
          BY <2>5, <4>1 DEF RingFrom
        <4> QED
          BY <2>3, <4>1, <4>2, <4>3
      <3> QED
        BY <2>5, <3>1, <3>2 DEF RingFrom
    <2> QED
      BY <1>2, <2>1, <2>3, <2>4, <2>5 DEF r
  <1> QED
    BY <1>3, <1>4

\* The bytes of the controller go to the ring one after the other.
LEMMA PutBytesDef ==
    ASSUME TypeOK
    PROVE  /\ putBytes \in [0 .. Len(controller) -> Ring] /\ putBytes[0] = KBDbuffer
           /\ \A n \in 1 .. Len(controller) :
                 putBytes[n] = putChar(putBytes[n - 1], controller[n])
  <1> DEFINE L == Len(controller)
  <1>1. L \in Nat /\ KBDbuffer \in Ring /\ \A i \in 1 .. L : controller[i] \in 0 .. MaxKeys
    <2>1. controller \in Seq(0 .. MaxKeys) /\ KBDbuffer \in Ring
      BY DEF TypeOK, Ring
    <2>2. \A i \in 1 .. L : controller[i] \in 0 .. MaxKeys
      BY <2>1, ElementOfSeq
    <2>3. L \in Nat
      BY <2>1
    <2> QED
      BY <2>1, <2>2, <2>3
  <1> DEFINE G == [p \in Ring \X (1 .. L) |-> putChar(p[1], controller[p[2]])]
  <1>2. ASSUME NEW r \in Ring, NEW n \in 1 .. L PROVE putChar(r, controller[n]) \in Ring
    <2>1. CASE controller[n] = 0
      BY <2>1 DEF putChar
    <2>2. CASE controller[n] # 0
      <3>1. controller[n] \in 1 .. MaxKeys
        BY <1>1, <2>2, BoundsAssumption
      <3> QED
        BY <3>1, PutRing
    <2> QED
      BY <2>1, <2>2
  <1> HIDE DEF L
  <1>3. G \in [Ring \X (1 .. L) -> Ring]
    BY <1>2
  <1>4. \A r \in Ring, n \in 1 .. L : G[<<r, n>>] = putChar(r, controller[n])
    OBVIOUS
  <1> HIDE DEF G
  <1>5. PICK f \in [0 .. L -> Ring] :
           f[0] = KBDbuffer /\ \A n \in 1 .. L : f[n] = G[<<f[n - 1], n>>]
    <2>1. \E f : Iterates(f, Ring, KBDbuffer, L, G)
      BY <1>1, <1>3, Recursion
    <2> QED
      BY <2>1 DEF Iterates
  <1>6. ASSUME NEW n \in 0 .. L
        PROVE  f[n] = IF n = 0 THEN KBDbuffer ELSE putChar(f[n - 1], controller[n])
    <2>1. CASE n = 0
      BY <1>5, <2>1
    <2>2. CASE n # 0
      <3>1. n \in 1 .. L /\ n - 1 \in 0 .. L
        BY <1>1, <2>2
      <3>2. f[n - 1] \in Ring
        BY <3>1
      <3> QED
        BY <1>4, <1>5, <2>2, <3>1, <3>2
    <2> QED
      BY <2>1, <2>2
  <1>7. f = [n \in 0 .. L |-> IF n = 0 THEN KBDbuffer ELSE putChar(f[n - 1], controller[n])]
    BY <1>6
  <1>8. \E h : h = [n \in 0 .. L |-> IF n = 0 THEN KBDbuffer ELSE putChar(h[n - 1], controller[n])]
    BY <1>7
  <1>9. putBytes = [n \in 0 .. L |-> IF n = 0 THEN KBDbuffer
                                     ELSE putChar(putBytes[n - 1], controller[n])]
    BY <1>8, Zenon DEF putBytes, L
  <1>10. 0 \in 0 .. L /\ putBytes[0] = KBDbuffer
    BY <1>1, <1>9
  <1>11. ASSUME NEW n \in 1 .. L PROVE putBytes[n] = putChar(putBytes[n - 1], controller[n])
    <2>1. n \in 0 .. L /\ n # 0
      BY <1>1
    <2> QED
      BY <1>9, <2>1
  <1> DEFINE T == {n \in Nat : n <= L => putBytes[n] \in Ring}
  <1>12. 0 \in T
    BY <1>1, <1>10
  <1>13. ASSUME NEW n \in T PROVE n + 1 \in T
    <2> SUFFICES ASSUME n + 1 <= L PROVE putBytes[n + 1] \in Ring
      OBVIOUS
    <2>1. n \in Nat /\ n + 1 \in 1 .. L /\ n <= L /\ (n + 1) - 1 = n
      BY <1>1
    <2> QED
      BY <1>2, <1>11, <2>1
  <1>14. T \in SUBSET Nat
    OBVIOUS
  <1>15. \A n \in Nat : n \in T
    <2> HIDE DEF T
    <2> QED
      BY <1>12, <1>13, <1>14, NatSet
  <1>16. \A n \in 0 .. L : putBytes[n] \in Ring
    BY <1>1, <1>15
  <1>17. putBytes \in [0 .. L -> Ring]
    BY <1>9, <1>16
  <1> QED
    BY <1>10, <1>11, <1>17 DEF L

\* What the bytes of the controller do to the ring: at most one more place for
\* each, and, unless it overflows, the characters in order.
LEMMA PutBytes ==
    ASSUME StdinInv
    PROVE  /\ kbdPutChar2Buffer \in Ring
           /\ Held(kbdPutChar2Buffer) <= Held(KBDbuffer) + Len(controller)
           /\ ~overrun /\ ~RingOverflows =>
                /\ RingFrom(kbdPutChar2Buffer, p_wpos)
                /\ p_wpos + Held(kbdPutChar2Buffer) = typed
  <1> DEFINE L == Len(controller)
             b == KBDbuffer
  <1>1. /\ TypeOK /\ L \in Nat /\ b \in Ring /\ p_wpos \in Nat
        /\ \A i \in 1 .. L : controller[i] \in 0 .. MaxKeys
    <2>1. controller \in Seq(0 .. MaxKeys) /\ TypeOK /\ b \in Ring /\ p_wpos \in Nat
      BY DEF StdinInv, TypeOK, Ring
    <2>2. \A i \in 1 .. L : controller[i] \in 0 .. MaxKeys
      BY <2>1, ElementOfSeq
    <2>3. L \in Nat
      BY <2>1
    <2> QED
      BY <2>1, <2>2, <2>3
  <1>2. /\ putBytes \in [0 .. L -> Ring] /\ putBytes[0] = b
        /\ \A n \in 1 .. L : putBytes[n] = putChar(putBytes[n - 1], controller[n])
    BY <1>1, PutBytesDef
  <1>3. kbdPutChar2Buffer = putBytes[L]
    BY DEF kbdPutChar2Buffer
  <1>3a. ~RingOverflows => \A n \in 1 .. L : controller[n] # 0 => putBytes[n].wpos # b.rpos
    BY DEF RingOverflows
  <1> HIDE DEF L, b
  <1>4. ASSUME NEW n \in Nat, n + 1 <= L
        PROVE  /\ n \in 0 .. L /\ n + 1 \in 0 .. L /\ n + 1 \in 1 .. L
               /\ putBytes[n] \in Ring /\ putBytes[n + 1] \in Ring
               /\ putBytes[n + 1] = putChar(putBytes[n], controller[n + 1])
               /\ Held(putBytes[n]) \in Nat /\ Held(putBytes[n + 1]) \in Nat
               /\ controller[n + 1] = 0 \/ controller[n + 1] \in 1 .. MaxKeys
               /\ controller[n + 1] = 0 => putBytes[n + 1] = putBytes[n]
    <2>1. n \in 0 .. L /\ n + 1 \in 0 .. L /\ n + 1 \in 1 .. L /\ (n + 1) - 1 = n
      BY <1>1, <1>4
    <2>2. putBytes[n] \in Ring /\ putBytes[n + 1] \in Ring
      BY <1>2, <2>1
    <2>3. putBytes[n + 1] = putChar(putBytes[n], controller[n + 1])
      BY <1>2, <2>1
    <2>4. controller[n + 1] = 0 \/ controller[n + 1] \in 1 .. MaxKeys
      BY <1>1, <2>1, BoundsAssumption
    <2> QED
      BY <2>1, <2>2, <2>3, <2>4, HeldInRing DEF putChar
  <1> DEFINE T == {n \in Nat : n <= L => /\ putBytes[n].rpos = b.rpos
                                         /\ Held(putBytes[n]) <= Held(b) + n}
  <1>5. 0 \in T
    BY <1>1, <1>2, HeldInRing
  <1>6. ASSUME NEW n \in T PROVE n + 1 \in T
    <2> SUFFICES ASSUME n + 1 <= L
                 PROVE  /\ putBytes[n + 1].rpos = b.rpos
                        /\ Held(putBytes[n + 1]) <= Held(b) + (n + 1)
      OBVIOUS
    <2>1. n \in Nat /\ putBytes[n].rpos = b.rpos /\ Held(putBytes[n]) <= Held(b) + n
      BY <1>1
    <2>2. Held(b) \in Nat
      BY <1>1, HeldInRing
    <2>3. CASE controller[n + 1] = 0
      BY <1>4, <2>1, <2>2, <2>3
    <2>4. CASE controller[n + 1] \in 1 .. MaxKeys
      <3>1. /\ putBytes[n + 1].rpos = putBytes[n].rpos
            /\ Held(putBytes[n + 1]) <= Held(putBytes[n]) + 1
        BY <1>4, <2>1, <2>4, PutRing
      <3> QED
        BY <1>4, <2>1, <2>2, <3>1
    <2> QED
      BY <1>4, <2>1, <2>3, <2>4
  <1>7. \A n \in Nat : n \in T
    <2>1. T \in SUBSET Nat
      OBVIOUS
    <2> HIDE DEF T
    <2> QED
      BY <1>5, <1>6, <2>1, NatSet
  <1>8. \A n \in 0 .. L : putBytes[n].rpos = b.rpos /\ Held(putBytes[n]) <= Held(b) + n
    BY <1>1, <1>7
  <1>9. ASSUME ~overrun, ~RingOverflows
        PROVE  RingFrom(putBytes[L], p_wpos) /\ p_wpos + Held(putBytes[L]) = typed
    <2>1. RingFrom(b, p_wpos) /\ ControllerFrom(controller, p_wpos + Held(b), typed)
      BY <1>9 DEF StdinInv, PlacesInv, b
    <2>2. PICK g \in [0 .. L -> Nat] :
             /\ g[0] = p_wpos + Held(b) /\ g[L] = typed
             /\ \A i \in 1 .. L : \/ controller[i] = 0 /\ g[i] = g[i - 1]
                                  \/ controller[i] = g[i - 1] + 1 /\ g[i] = g[i - 1] + 1
      BY <2>1 DEF ControllerFrom, L
    <2> DEFINE U == {n \in Nat : n <= L => /\ RingFrom(putBytes[n], p_wpos)
                                           /\ p_wpos + Held(putBytes[n]) = g[n]}
    <2>3. 0 \in U
      BY <1>2, <2>1, <2>2
    <2>4. ASSUME NEW n \in U PROVE n + 1 \in U
      <3> SUFFICES ASSUME n + 1 <= L
                   PROVE  /\ RingFrom(putBytes[n + 1], p_wpos)
                          /\ p_wpos + Held(putBytes[n + 1]) = g[n + 1]
        OBVIOUS
      <3>1. n \in Nat /\ n <= L /\ n + 1 \in 1 .. L /\ n \in 0 .. L /\ (n + 1) - 1 = n
        BY <1>1
      <3>2. RingFrom(putBytes[n], p_wpos) /\ p_wpos + Held(putBytes[n]) = g[n]
        BY <3>1
      <3>3. \/ controller[n + 1] = 0 /\ g[n + 1] = g[n]
            \/ controller[n + 1] = g[n] + 1 /\ g[n + 1] = g[n] + 1
        BY <2>2, <3>1
      <3>4. CASE controller[n + 1] = 0
        <4>1. g[n + 1] = g[n]
          <5>1. g[n] \in Nat
            BY <3>1
          <5> QED
            BY <3>3, <3>4, <5>1
        <4> QED
          BY <1>4, <3>1, <3>2, <3>4, <4>1
      <3>5. CASE controller[n + 1] # 0
        <4>1. controller[n + 1] = g[n] + 1 /\ g[n + 1] = g[n] + 1 /\ g[n] \in Nat
          BY <3>1, <3>3, <3>5
        <4>2. /\ controller[n + 1] \in 1 .. MaxKeys /\ putBytes[n] \in Ring
              /\ putBytes[n + 1] = putChar(putBytes[n], controller[n + 1])
              /\ Held(putBytes[n]) \in Nat
          BY <1>4, <3>1, <3>5
        <4>3. putBytes[n + 1].wpos # b.rpos /\ putBytes[n].rpos = b.rpos
          BY <1>3a, <1>8, <1>9, <3>1, <3>5
        <4>4. controller[n + 1] = p_wpos + Held(putBytes[n]) + 1
          BY <3>2, <4>1
        <4>5. /\ Held(putBytes[n + 1]) = Held(putBytes[n]) + 1
              /\ RingFrom(putBytes[n + 1], p_wpos)
          BY <1>1, <3>2, <4>2, <4>3, <4>4, PutRing
        <4> QED
          BY <1>1, <3>2, <4>1, <4>2, <4>5
      <3> QED
        BY <3>4, <3>5
    <2>5. \A n \in Nat : n \in U
      <3>1. U \in SUBSET Nat
        OBVIOUS
      <3> HIDE DEF U
      <3> QED
        BY <2>3, <2>4, <3>1, NatSet
    <2>6. L \in U /\ L <= L
      BY <1>1, <2>5
    <2> QED
      BY <2>2, <2>6
  <1>10. L \in 0 .. L
    BY <1>1
  <1> QED
    BY <1>2, <1>3, <1>8, <1>9, <1>10 DEF L, b

----------------------------------------------------------------------------
(* Waking the readers.                                                     *)

\* wakeupFirsts is what its definition says, for a list of any length.
LEMMA WakeupFirsts ==
    ASSUME NEW N \in Nat, N = Len(wait_queue.list)
    PROVE  wakeupFirsts = [n \in 0 .. N |->
              IF n = 0 THEN sch ELSE wakeupTask(wakeupFirsts[n - 1], wait_queue.list[n])]
  <1> DEFINE q == wait_queue.list
             Fits(h, k) == \A n \in 0 .. k :
                              h[n] = IF n = 0 THEN sch ELSE wakeupTask(h[n - 1], q[n])
             T == {k \in Nat : \E h : Fits(h, k)}
  <1>1. 0 \in T
    <2> DEFINE h == [n \in {0} |-> sch]
    <2>1. h[0] = sch
      OBVIOUS
    <2> HIDE DEF h
    <2>2. Fits(h, 0)
      BY <2>1
    <2> QED
      BY <2>2
  <1>2. ASSUME NEW k \in T PROVE k + 1 \in T
    <2>1. PICK h : Fits(h, k)
      OBVIOUS
    <2> DEFINE g == [n \in 0 .. k + 1 |->
                        IF n <= k THEN h[n] ELSE wakeupTask(h[k], q[k + 1])]
    <2>2. /\ \A n \in 0 .. k : g[n] = h[n]
          /\ g[k + 1] = wakeupTask(h[k], q[k + 1])
      <3> HIDE DEF T, q
      <3> QED
        BY DEF T
    <2> HIDE DEF g
    <2>3. ASSUME NEW n \in 0 .. k + 1
          PROVE  g[n] = IF n = 0 THEN sch ELSE wakeupTask(g[n - 1], q[n])
      <3>1. k \in Nat
        OBVIOUS
      <3> HIDE DEF T, q
      <3>2. CASE n = 0
        BY <2>1, <2>2, <3>1, <3>2
      <3>3. CASE n \in 1 .. k
        <4>1. n \in 0 .. k /\ n - 1 \in 0 .. k /\ n # 0
          BY <3>1, <3>3
        <4> QED
          BY <2>1, <2>2, <4>1
      <3>4. CASE n = k + 1
        <4>1. n - 1 = k /\ k \in 0 .. k /\ n # 0
          BY <3>1, <3>4
        <4> QED
          BY <2>2, <3>4, <4>1
      <3>5. n = 0 \/ n \in 1 .. k \/ n = k + 1
        BY <3>1
      <3> QED
        BY <3>2, <3>3, <3>4, <3>5
    <2>4. Fits(g, k + 1)
      BY <2>3
    <2>5. k + 1 \in Nat
      OBVIOUS
    <2> HIDE DEF Fits
    <2> QED
      BY <2>4, <2>5
  <1>3. T \in SUBSET Nat
    OBVIOUS
  <1>4. N \in T
    <2> HIDE DEF T
    <2> QED
      BY <1>1, <1>2, <1>3, NatSet
  <1>5. PICK h : Fits(h, N)
    BY <1>4
  <1> DEFINE f == [n \in 0 .. N |-> h[n]]
  <1>6. f = [n \in 0 .. N |-> IF n = 0 THEN sch ELSE wakeupTask(f[n - 1], q[n])]
    <2> SUFFICES ASSUME NEW n \in 0 .. N
                 PROVE  h[n] = IF n = 0 THEN sch ELSE wakeupTask(f[n - 1], q[n])
      OBVIOUS
    <2>1. CASE n = 0
      BY <1>5, <2>1
    <2>2. CASE n # 0
      <3>1. n - 1 \in 0 .. N
        BY <2>2
      <3>2. f[n - 1] = h[n - 1]
        BY <3>1
      <3> QED
        BY <1>5, <2>2, <3>2
    <2> QED
      BY <2>1, <2>2
  <1>7. \E r : r = [n \in 0 .. N |-> IF n = 0 THEN sch ELSE wakeupTask(r[n - 1], q[n])]
    BY <1>6
  <1> QED
    BY <1>7, Zenon DEF wakeupFirsts

\* The scheduler state s in which the first n waiters have been woken.
Woken(s, n) ==
    /\ SchedInv(s) /\ s.CurrentTask = sch.CurrentTask /\ s.panic = sch.panic
    /\ \A t \in Tasks :
          s.state[t] = IF \E i \in 1 .. n : wait_queue.list[i] = t
                         THEN "RUNNABLE" ELSE sch.state[t]

\* wakeupAll() makes every waiter runnable and touches nobody else.
LEMMA AllWoken ==
    ASSUME SchedInv(sch), wait_queue.list \in Seq(Tasks),
           \A t \in Tasks : sch.state[t] # "ZOMBIE"
    PROVE  Woken(wakeupFirsts[Len(wait_queue.list)], Len(wait_queue.list))
  <1> DEFINE q == wait_queue.list
  <1>1. PICK N \in Nat : N = Len(q)
    OBVIOUS
  <1>2. \A i \in 1 .. N : q[i] \in Tasks
    BY <1>1, ElementOfSeq
  <1>3. wakeupFirsts = [n \in 0 .. N |->
           IF n = 0 THEN sch ELSE wakeupTask(wakeupFirsts[n - 1], q[n])]
    BY <1>1, WakeupFirsts
  <1> DEFINE T == {n \in Nat : n <= N => Woken(wakeupFirsts[n], n)}
  <1>4. 0 \in T
    <2>1. wakeupFirsts[0] = sch
      BY <1>3
    <2>2. Woken(sch, 0)
      BY DEF Woken
    <2> QED
      BY <2>1, <2>2
  <1>5. ASSUME NEW n \in T PROVE n + 1 \in T
    <2>1. n \in Nat
      OBVIOUS
    <2> SUFFICES ASSUME n + 1 <= N PROVE Woken(wakeupFirsts[n + 1], n + 1)
      BY <2>1
    <2>2. n <= N /\ n + 1 \in 1 .. N /\ n + 1 \in 0 .. N /\ n + 1 # 0 /\ (n + 1) - 1 = n
      BY <2>1
    <2> DEFINE t == q[n + 1]
    <2>3. PICK s : s = wakeupFirsts[n]
      OBVIOUS
    <2>4. Woken(s, n)
      BY <2>2, <2>3
    <2>5. t \in Tasks
      BY <1>2, <2>2
    <2>6. wakeupFirsts[n + 1] = wakeupTask(s, t)
      <3>1. wakeupFirsts[n + 1] = wakeupTask(wakeupFirsts[(n + 1) - 1], q[n + 1])
        BY <1>3, <2>2
      <3> QED
        BY <2>2, <2>3, <3>1
    <2> HIDE DEF T
    <2>7. SchedInv(s) /\ s.state[t] # "ZOMBIE" /\ s.state \in [Tasks -> States]
      BY <2>4, <2>5 DEF Woken, SchedInv, SchedState
    <2> DEFINE r == wakeupTask(s, t)
    <2>8. /\ SchedInv(r) /\ r.CurrentTask = s.CurrentTask /\ r.panic = s.panic
          /\ r.state = [s.state EXCEPT ![t] = "RUNNABLE"]
      BY <2>5, <2>7, WakeupCorrect
    <2> HIDE DEF r
    <2>9. ASSUME NEW u \in Tasks
          PROVE  r.state[u] = IF \E i \in 1 .. n + 1 : q[i] = u
                                THEN "RUNNABLE" ELSE sch.state[u]
      <3>1. CASE u = t
        <4>1. r.state[u] = "RUNNABLE"
          BY <2>5, <2>7, <2>8, <3>1
        <4>2. n + 1 \in 1 .. n + 1
          BY <2>1
        <4> QED
          BY <3>1, <4>1, <4>2
      <3>2. CASE u # t
        <4>1. r.state[u] = s.state[u]
          BY <2>5, <2>7, <2>8, <3>2
        <4>2. (\E i \in 1 .. n + 1 : q[i] = u) <=> (\E i \in 1 .. n : q[i] = u)
          <5> HIDE DEF q
          <5>1. ASSUME NEW i \in 1 .. n + 1, q[i] = u PROVE i \in 1 .. n
            BY <2>1, <3>2, <5>1
          <5>2. \A i \in 1 .. n : i \in 1 .. n + 1
            BY <2>1
          <5> QED
            BY <5>1, <5>2
        <4> QED
          BY <2>4, <4>1, <4>2 DEF Woken
      <3> QED
        BY <3>1, <3>2
    <2> QED
      BY <2>4, <2>6, <2>8, <2>9 DEF Woken, r
  <1>6. T \in SUBSET Nat
    OBVIOUS
  <1>7. N \in T
    <2> HIDE DEF T
    <2> QED
      BY <1>4, <1>5, <1>6, NatSet
  <1> QED
    BY <1>1, <1>7

\* waitAddCurrent() puts the reader on the CPU to sleep.
LEMMA WaitSleep ==
    ASSUME NEW s, SchedInv(s), s.CurrentTask # Idle, NEW r, r = waitSleep(s, "KBD")
    PROVE  /\ SchedInv(r)
           /\ r.CurrentTask = s.CurrentTask /\ r.panic = s.panic
           /\ r.state = [s.state EXCEPT ![s.CurrentTask] = "SLEEPING"]
  <1> DEFINE c == s.CurrentTask
             v == setState(s, c, "SLEEPING")
  <1>1. s \in SchedState /\ c \in Tasks /\ "SLEEPING" \in States /\ "KBD" \in WaitStates
    BY DEF SchedInv, SchedState, States, WaitStates
  <1>2. /\ SchedInv(v) /\ v \in SchedState
        /\ v.CurrentTask = c /\ v.panic = s.panic
        /\ v.state = [s.state EXCEPT ![c] = "SLEEPING"]
    BY <1>1, SetStateKeeps, SetStateFields
  <1> DEFINE w == setWaitState(v, c, "KBD")
  <1>3. r = w
    BY DEF waitSleep
  <1> HIDE DEF v, c
  <1>4. /\ SchedInv(w)
        /\ w.CurrentTask = v.CurrentTask /\ w.panic = v.panic /\ w.state = v.state
    BY <1>1, <1>2, SetWaitStateKeeps, SetWaitStateFields DEF WaitStates
  <1> HIDE DEF w
  <1> QED
    BY <1>2, <1>3, <1>4 DEF c

----------------------------------------------------------------------------
(* The invariant, action by action.                                        *)

\* A controller without bytes.
LEMMA NoBytes == ASSUME NEW n \in Nat PROVE ControllerFrom(<< >>, n, n)
  <1> DEFINE g == [i \in 0 .. 0 |-> n]
  <1>1. g \in [0 .. 0 -> Nat] /\ g[0] = n /\ Len(<< >>) = 0 /\ 1 .. 0 = {}
    OBVIOUS
  <1> HIDE DEF g
  <1> QED
    BY <1>1 DEF ControllerFrom

\* Nothing has been typed and nobody waits.
LEMMA InitStdin == Init => StdinInv
  <1> SUFFICES ASSUME Init PROVE StdinInv
    OBVIOUS
  <1>1. PICK q \in SetToSeqs(Readers) :
           sch = [CurrentTask |-> Idle, run_list |-> q, task_num |-> Len(q),
                  state |-> [t \in Tasks |-> "RUNNABLE"],
                  wait_state |-> [t \in Tasks |-> "NOTWAIT"],
                  time_slice |-> [t \in Tasks |-> IF t = Idle THEN 0 ELSE MaxTimeSlices],
                  need_resched |-> [t \in Tasks |-> t = Idle], panic |-> FALSE]
    BY DEF Init
  <1>2. IsFiniteSet(Readers)
    BY TasksAssumption, FS_RemoveElement DEF Readers
  <1>3. /\ q \in Seq(Readers) /\ Distinct(q)
        /\ \A x \in Readers : \E i \in 1 .. Len(q) : q[i] = x
    BY <1>2, OrderOf
  <1>4. q \in Seq(Tasks) /\ Len(q) \in Nat /\ \A i \in 1 .. Len(q) : q[i] \in Readers
    BY <1>3 DEF Readers
  <1>5. sch \in SchedState
    BY <1>1, <1>4, IdleAssumption, SliceAssumption DEF SchedState, States, WaitStates
  <1>6. SchedInv(sch)
    BY <1>1, <1>3, <1>4, <1>5, IdleAssumption
       DEF SchedInv, RunQueueExact, Queued, Distinct, Readers
  <1>7. /\ controller = << >> /\ irq = FALSE /\ merged = 0 /\ typed = 0
        /\ KBDbuffer = [buffer |-> [i \in 0 .. KbdLen - 1 |-> 0], rpos |-> 0, wpos |-> 0]
        /\ stdin_buffer = [i \in 0 .. BufLen - 1 |-> 0]
        /\ p_rpos = 0 /\ p_wpos = 0 /\ wait_queue = EmptyQueue
        /\ pc = [t \in Tasks |-> "user"] /\ len = [t \in Tasks |-> 0]
        /\ delivered = << >> /\ overrun = FALSE
    BY DEF Init
  <1>8. KBDbuffer \in Ring /\ KBDbuffer.wpos = KBDbuffer.rpos
    BY <1>7, KbdLenAssumption, BoundsAssumption DEF Ring
  <1>9. TypeOK
    <2>1. EmptyQueue \in WaitQueue
      BY DEF EmptyQueue, WaitQueue, WakeupFlags
    <2>2. stdin_buffer \in [0 .. BufLen - 1 -> 0 .. MaxKeys] /\ len \in [Tasks -> 0 .. MaxLen]
      BY <1>7, BoundsAssumption, BufLenAssumption
    <2>3. << >> \in Seq(0 .. MaxKeys) /\ 0 \in 0 .. MaxKeys
      BY BoundsAssumption
    <2> QED
      BY <1>5, <1>7, <1>8, <2>1, <2>2, <2>3 DEF TypeOK, Ring
  <1>10. ReadersInv
    BY <1>1, <1>7, BufLenAssumption, IdleAssumption
       DEF ReadersInv, EmptyQueue, Distinct, Contains, Cur
  <1>11. RingInv
    BY <1>7, KbdLenAssumption DEF RingInv, Held, Behind
  <1>12. PlacesInv
    <2>1. Held(KBDbuffer) = 0
      BY <1>8, HeldInRing
    <2>2. Counts(delivered, 0, p_rpos)
      BY <1>7 DEF Counts
    <2>3. ControllerFrom(controller, 0, 0)
      BY <1>7, NoBytes
    <2> QED
      BY <1>7, <2>1, <2>2, <2>3 DEF PlacesInv, RingFrom
  <1> QED
    BY <1>1, <1>6, <1>9, <1>10, <1>11, <1>12 DEF StdinInv

LEMMA TickStdin == StdinInv /\ Tick => StdinInv'
  <1> SUFFICES ASSUME StdinInv, Tick PROVE StdinInv'
    OBVIOUS
  <1>1. /\ sch' = timerCallBack(sch)
        /\ UNCHANGED <<controller, irq, merged, typed, KBDbuffer, stdin_buffer, p_rpos, p_wpos,
                       wait_queue, pc, len, delivered, overrun>>
    BY DEF Tick, keyboard, buffers
  <1>2. /\ SchedInv(sch') /\ sch'.state = sch.state /\ sch'.panic = sch.panic
        /\ \/ sch'.CurrentTask = sch.CurrentTask
           \/ sch'.state[sch'.CurrentTask] = "RUNNABLE"
    BY <1>1, TimerCorrect DEF StdinInv
  <1>3. TypeOK'
    BY <1>1, <1>2 DEF StdinInv, TypeOK, SchedInv
  <1>4. ReadersInv'
    BY <1>1, <1>2 DEF StdinInv, ReadersInv, Cur
  <1>5. RingInv' /\ (PlacesInv' <=> PlacesInv)
    BY <1>1 DEF StdinInv, RingInv, PlacesInv
  <1> QED
    BY <1>1, <1>2, <1>3, <1>4, <1>5 DEF StdinInv

\* The byte a key sends is the last of the controller.
LEMMA KeyStdin == StdinInv /\ Key => StdinInv'
  <1> SUFFICES ASSUME StdinInv, Key PROVE StdinInv'
    OBVIOUS
  <1>1. /\ irq' = (irq \/ controller = << >>)
        /\ merged' = IF controller = << >> /\ irq THEN merged + 1 ELSE merged
        /\ UNCHANGED <<sch, KBDbuffer, stdin_buffer, p_rpos, p_wpos,
                       wait_queue, pc, len, delivered, overrun>>
    BY DEF Key, buffers
  <1>2. PICK c \in 0 .. MaxKeys :
           /\ controller' = Append(controller, c) /\ c \in {0, typed + 1}
           /\ typed' = typed + One(c) /\ typed' \in 0 .. MaxKeys
    <2>0. typed \in 0 .. MaxKeys
      BY DEF StdinInv, TypeOK
    <2>1. CASE typed < MaxKeys /\ typed' = typed + 1 /\ controller' = Append(controller, typed + 1)
      <3>1. typed + 1 \in 0 .. MaxKeys /\ One(typed + 1) = 1
        BY <2>0, <2>1, BoundsAssumption DEF One
      <3> QED
        BY <2>1, <3>1
    <2>2. CASE typed' = typed /\ controller' = Append(controller, 0)
      <3>1. 0 \in 0 .. MaxKeys /\ One(0) = 0 /\ typed + 0 = typed
        BY <2>0, BoundsAssumption DEF One
      <3> QED
        BY <2>0, <2>2, <3>1
    <2> QED
      BY <2>1, <2>2 DEF Key
  <1> DEFINE L == Len(controller)
  <1>3. controller \in Seq(0 .. MaxKeys) /\ L \in Nat
    BY DEF StdinInv, TypeOK
  <1>4. /\ controller' \in Seq(0 .. MaxKeys) /\ Len(controller') = L + 1
        /\ \A i \in 1 .. L : controller'[i] = controller[i]
        /\ controller'[L + 1] = c
    BY <1>2, <1>3, AppendElements
  <1>5. irq \in BOOLEAN /\ irq' \in BOOLEAN /\ merged \in Nat /\ merged' \in Nat
    BY <1>1 DEF StdinInv, TypeOK
  <1>6. TypeOK'
    BY <1>1, <1>2, <1>4, <1>5 DEF StdinInv, TypeOK
  <1>7. ReadersInv'
    BY <1>1 DEF StdinInv, ReadersInv, Cur
  <1>8. RingInv'
    <2>1. KBDbuffer \in Ring
      BY DEF StdinInv, TypeOK, Ring
    <2>2. Held(KBDbuffer) \in Nat
      BY <2>1, HeldInRing
    <2>3. RingInv /\ controller' # << >>
      BY <1>3, <1>4 DEF StdinInv
    <2>4. Held(KBDbuffer') = Held(KBDbuffer)
      BY <1>1
    <2>5. Held(KBDbuffer) <= merged'
      <3>1. CASE controller = << >> /\ irq
        BY <1>1, <1>5, <2>2, <2>3, <3>1 DEF RingInv
      <3>2. CASE ~(controller = << >> /\ irq)
        BY <1>1, <1>5, <2>2, <2>3, <3>2 DEF RingInv
      <3> QED
        BY <3>1, <3>2
    <2>6. irq'
      BY <1>1, <2>3 DEF RingInv
    <2> QED
      BY <1>5, <2>2, <2>3, <2>4, <2>5, <2>6 DEF RingInv
  <1>9. ASSUME PlacesInv PROVE PlacesInv'
    <2> DEFINE m == p_wpos + Held(KBDbuffer)
    <2>1. PICK g \in [0 .. L -> Nat] :
             /\ g[0] = m /\ g[L] = typed
             /\ \A i \in 1 .. L : \/ controller[i] = 0 /\ g[i] = g[i - 1]
                                  \/ controller[i] = g[i - 1] + 1 /\ g[i] = g[i - 1] + 1
      BY <1>9 DEF PlacesInv, ControllerFrom
    <2>2. typed' \in Nat /\ typed \in Nat
      BY <1>2 DEF StdinInv, TypeOK
    <2> HIDE DEF m, L
    <2> DEFINE h == [i \in 0 .. L + 1 |-> IF i <= L THEN g[i] ELSE typed']
    <2>3. /\ h \in [0 .. L + 1 -> Nat] /\ h[L + 1] = typed'
          /\ \A i \in 0 .. L : h[i] = g[i]
      BY <1>3, <2>2
    <2> HIDE DEF h
    <2>4. h[0] = m /\ h[L] = typed
      <3>1. 0 \in 0 .. L /\ L \in 0 .. L
        BY <1>3
      <3> QED
        BY <2>1, <2>3, <3>1
    <2>5. ASSUME NEW i \in 1 .. L + 1
          PROVE  \/ controller'[i] = 0 /\ h[i] = h[i - 1]
                 \/ controller'[i] = h[i - 1] + 1 /\ h[i] = h[i - 1] + 1
      <3>1. CASE i <= L
        <4>1. i \in 1 .. L /\ i \in 0 .. L /\ i - 1 \in 0 .. L
          BY <1>3, <3>1
        <4> QED
          BY <1>4, <2>1, <2>3, <4>1
      <3>2. CASE ~(i <= L)
        <4>1. i = L + 1 /\ i - 1 = L
          BY <1>3, <3>2
        <4>2. (c = 0 /\ typed' = typed) \/ (c = typed + 1 /\ typed' = typed + 1)
          <5>1. c \in {0, typed + 1} /\ typed' = typed + One(c)
            BY <1>2
          <5>2. CASE c = 0
            <6>1. One(c) = 0 /\ typed + 0 = typed
              BY <2>2, <5>2 DEF One
            <6> QED
              BY <5>1, <5>2, <6>1
          <5>3. CASE c # 0
            BY <2>2, <5>1, <5>3 DEF One
          <5> QED
            BY <5>2, <5>3
        <4> QED
          BY <1>4, <2>3, <2>4, <4>1, <4>2
      <3> QED
        BY <3>1, <3>2
    <2>6. ControllerFrom(controller', m, typed')
      BY <1>4, <2>3, <2>4, <2>5 DEF ControllerFrom
    <2> QED
      BY <1>1, <1>9, <2>6 DEF PlacesInv, m
  <1> QED
    BY <1>1, <1>6, <1>7, <1>8, <1>9 DEF StdinInv

\* The handler: all bytes go to the ring, one character from there to the
\* device, and the readers are woken.
LEMMA IntrStdin == StdinInv /\ kbdIntrCallBack => StdinInv'
  <1> SUFFICES ASSUME StdinInv, kbdIntrCallBack PROVE StdinInv'
    OBVIOUS
  <1>0. PICK b : b = kbdPutChar2Buffer
    OBVIOUS
  <1>1. PICK c : c = kbdGetCharFromBuffer(b)
    OBVIOUS
  <1>2. /\ irq /\ KBDbuffer' = kbdAdvance(b)
        /\ _stdin_do_write(c) /\ controller' = << >>
        /\ overrun' = (overrun \/ RingOverflows \/ (c # 0 /\ p_wpos - p_rpos >= BufLen))
        /\ UNCHANGED <<typed, p_rpos, pc, len, delivered>>
    BY <1>0, <1>1 DEF kbdIntrCallBack
  <1>2a. PICK again \in BOOLEAN :
            /\ again => Len(controller) > 1
            /\ irq' = again
            /\ merged' = IF KBDbuffer'.rpos = KBDbuffer'.wpos THEN 0 ELSE merged + Merges(again)
    BY DEF kbdIntrCallBack
  <1>3. /\ b \in Ring /\ Held(b) <= Held(KBDbuffer) + Len(controller)
        /\ ~overrun /\ ~RingOverflows => RingFrom(b, p_wpos) /\ p_wpos + Held(b) = typed
    BY <1>0, PutBytes
  <1>4. /\ KBDbuffer' \in Ring /\ c \in 0 .. MaxKeys
        /\ Held(b) = 0 => c = 0 /\ KBDbuffer' = b
        /\ Held(b) > 0 => Held(KBDbuffer') = Held(b) - 1
        /\ \A n \in Nat : RingFrom(b, n) /\ Held(b) > 0 =>
              c = n + 1 /\ RingFrom(KBDbuffer', n + 1)
    BY <1>1, <1>2, <1>3, TakeRing
  <1>5. /\ irq' \in BOOLEAN /\ merged \in Nat /\ p_wpos \in Nat /\ p_rpos \in Nat
        /\ typed \in 0 .. MaxKeys /\ stdin_buffer \in [0 .. BufLen - 1 -> 0 .. MaxKeys]
        /\ p_rpos <= p_wpos /\ p_wpos - p_rpos <= BufLen /\ overrun \in BOOLEAN
        /\ Held(b) \in Nat /\ KBDbuffer \in Ring /\ Held(KBDbuffer) \in Nat
        /\ controller \in Seq(0 .. MaxKeys) /\ Len(controller) \in Nat
        /\ overrun' \in BOOLEAN
    <2>1. KBDbuffer \in Ring
      BY DEF StdinInv, TypeOK, Ring
    <2> QED
      BY <1>2, <1>2a, <1>3, <2>1, HeldInRing DEF StdinInv, TypeOK, ReadersInv
  <1>6. controller' \in Seq(0 .. MaxKeys) /\ Len(controller') = 0
    BY <1>2
  <1>7. RingInv'
    <2>1. Held(KBDbuffer') \in Nat /\ (Held(KBDbuffer') = 0 <=> KBDbuffer'.wpos = KBDbuffer'.rpos)
      BY <1>4, HeldInRing
    <2>2. CASE Held(KBDbuffer') = 0
      BY <1>2, <1>2a, <2>1, <2>2 DEF RingInv
    <2>3. CASE Held(KBDbuffer') # 0
      <3>1. merged' = merged + Merges(again) /\ Held(KBDbuffer') = Held(b) - 1
        BY <1>2a, <1>4, <1>5, <2>1, <2>3
      <3>2. /\ controller # << >> => Held(KBDbuffer) <= merged
            /\ controller = << >> => Held(KBDbuffer) <= merged + 1
        BY <1>2, <1>5 DEF StdinInv, RingInv
      <3>3. CASE controller = << >>
        <4>1. Len(controller) = 0 /\ Merges(again) = 0
          BY <3>3 DEF Merges
        <4> QED
          BY <1>2, <1>2a, <1>3, <1>5, <3>1, <3>2, <3>3, <4>1 DEF RingInv
      <3>4. CASE controller # << >>
        <4>1. Merges(again) = Len(controller) - 1 - (IF again THEN 1 ELSE 0)
          BY <3>4 DEF Merges
        <4>2. Held(KBDbuffer') <= merged' + (IF again THEN 1 ELSE 0)
          BY <1>3, <1>5, <3>1, <3>2, <3>4, <4>1
        <4> QED
          BY <1>2, <1>2a, <4>2 DEF RingInv
      <3> QED
        BY <3>3, <3>4
    <2> QED
      BY <2>2, <2>3
  <1>8. KBDbuffer' \in Ring /\ merged' \in Nat
    <2>1. Merges(again) \in Nat
      <3>1. CASE controller = << >>
        BY <3>1 DEF Merges
      <3>2. CASE controller # << >>
        <4>1. Len(controller) >= 1
          BY <1>5, <3>2
        <4> QED
          BY <1>2a, <1>5, <3>2, <4>1 DEF Merges
      <3> QED
        BY <3>1, <3>2
    <2> QED
      BY <1>2a, <1>4, <1>5, <2>1
  <1>9. CASE c = 0
    <2>1. UNCHANGED <<sch, stdin_buffer, p_wpos, wait_queue>>
      BY <1>2, <1>9 DEF _stdin_do_write
    <2>2. TypeOK'
      BY <1>2, <1>5, <1>6, <1>8, <2>1 DEF StdinInv, TypeOK, Ring
    <2>3. ReadersInv'
      BY <1>2, <2>1 DEF StdinInv, ReadersInv, Cur
    <2>4. ASSUME ~overrun' PROVE PlacesInv'
      <3>0. ~overrun /\ ~RingOverflows
        BY <1>2, <2>4
      <3>1. Held(b) = 0
        BY <1>3, <1>4, <1>5, <1>9, <3>0
      <3>2. Held(KBDbuffer') = 0 /\ typed = p_wpos
        BY <1>3, <1>4, <1>5, <3>0, <3>1
      <3>3. RingFrom(KBDbuffer', p_wpos)
        BY <3>2 DEF RingFrom
      <3>4. ControllerFrom(controller', p_wpos + Held(KBDbuffer'), typed)
        BY <1>2, <1>5, <3>2, NoBytes
      <3> QED
        BY <1>2, <2>1, <3>0, <3>3, <3>4 DEF StdinInv, PlacesInv
    <2> QED
      BY <1>7, <2>1, <2>2, <2>3, <2>4 DEF StdinInv
  <1>10. CASE c # 0
    <2>1. /\ stdin_buffer' = [stdin_buffer EXCEPT ![p_wpos % BufLen] = c]
          /\ p_wpos' = IF p_wpos - p_rpos < BufLen THEN p_wpos + 1 ELSE p_wpos
          /\ wakeupAll
      BY <1>2, <1>10 DEF _stdin_do_write
    <2> DEFINE q == wait_queue.list
    <2>2. wait_queue \in WaitQueue /\ q \in Seq(Tasks) /\ wait_queue.flags \in [Tasks -> WakeupFlags]
      BY DEF StdinInv, TypeOK, WaitQueue
    <2>3. /\ wait_queue' = [list |-> << >>,
                            flags |-> [t \in Tasks |-> IF waitlistIsInList(wait_queue, t)
                                                         THEN "KBD" ELSE wait_queue.flags[t]]]
          /\ sch' = wakeupFirsts[Len(q)]
      BY <2>1 DEF wakeupAll
    <2>4. wait_queue' \in WaitQueue /\ wait_queue'.list = << >>
      BY <2>2, <2>3 DEF WaitQueue, WakeupFlags
    <2>5. Woken(sch', Len(q))
      <3>1. SchedInv(sch) /\ \A t \in Tasks : sch.state[t] # "ZOMBIE"
        BY DEF StdinInv, ReadersInv
      <3> QED
        BY <2>2, <2>3, <3>1, AllWoken
    <2>6. SchedInv(sch') /\ Cur' = Cur /\ sch'.panic = sch.panic /\ sch' \in SchedState
      BY <2>5 DEF Woken, SchedInv, Cur
    <2>7. \A t \in Tasks : sch'.state[t] = "RUNNABLE"
      BY <2>5 DEF Woken, StdinInv, ReadersInv, Contains
    <2>8. p_wpos' \in Nat /\ p_rpos <= p_wpos' /\ p_wpos' - p_rpos <= BufLen
      BY <1>5, <2>1, BufLenAssumption
    <2>9. p_wpos % BufLen \in 0 .. BufLen - 1
      BY <1>5, BufLenAssumption
    <2>10. /\ stdin_buffer' \in [0 .. BufLen - 1 -> 0 .. MaxKeys]
           /\ stdin_buffer'[p_wpos % BufLen] = c
           /\ \A k \in 0 .. BufLen - 1 : k # p_wpos % BufLen => stdin_buffer'[k] = stdin_buffer[k]
      BY <1>4, <1>5, <2>1, <2>9
    <2>11. TypeOK'
      BY <1>2, <1>5, <1>6, <1>8, <2>4, <2>6, <2>8, <2>10 DEF StdinInv, TypeOK, Ring
    <2>12. ReadersInv'
      <3>1. Cur' \in Tasks
        BY <2>6 DEF SchedState, Cur
      <3>2. Distinct(wait_queue'.list) /\ \A t : ~Contains(wait_queue'.list, t)
        BY <2>4 DEF Distinct, Contains
      <3> QED
        BY <1>2, <2>7, <2>8, <3>1, <3>2 DEF ReadersInv
    <2>13. ASSUME ~overrun' PROVE PlacesInv'
      <3>0. ~overrun /\ ~RingOverflows /\ ~(p_wpos - p_rpos >= BufLen)
        BY <1>2, <1>10, <2>13
      <3>1. ~overrun /\ p_wpos - p_rpos < BufLen /\ p_wpos' = p_wpos + 1
        BY <1>5, <2>1, <3>0, BufLenAssumption
      <3>2. Held(b) > 0
        BY <1>4, <1>5, <1>10
      <3>3. c = p_wpos + 1 /\ RingFrom(KBDbuffer', p_wpos')
        BY <1>3, <1>4, <1>5, <3>0, <3>1, <3>2
      <3>4. p_wpos' + Held(KBDbuffer') = typed
        BY <1>3, <1>4, <1>5, <3>0, <3>1, <3>2
      <3>5. ControllerFrom(controller', p_wpos' + Held(KBDbuffer'), typed')
        BY <1>2, <1>5, <3>4, NoBytes
      <3>6. Counts(delivered', 0, p_rpos')
        BY <1>2, <3>1 DEF StdinInv, PlacesInv
      <3>7. ASSUME NEW i \in p_rpos .. p_wpos PROVE stdin_buffer'[i % BufLen] = i + 1
        <4>1. CASE i = p_wpos
          BY <2>10, <3>3, <4>1
        <4>2. CASE i # p_wpos
          <5>1. i \in Nat /\ i \in p_rpos .. p_wpos - 1 /\ i < p_wpos /\ p_wpos < i + BufLen
            BY <1>5, <3>1, <4>2, BufLenAssumption
          <5>2. i % BufLen # p_wpos % BufLen
            BY <1>5, <5>1, ModDistinct, BufLenAssumption
          <5>3. i % BufLen \in 0 .. BufLen - 1
            BY <5>1, BufLenAssumption
          <5>4. stdin_buffer[i % BufLen] = i + 1
            BY <3>1, <5>1 DEF StdinInv, PlacesInv
          <5> QED
            BY <2>10, <5>2, <5>3, <5>4
        <4> QED
          BY <4>1, <4>2
      <3>8. \A i \in p_rpos' .. p_wpos' - 1 : stdin_buffer'[i % BufLen] = i + 1
        <4>1. p_wpos' - 1 = p_wpos /\ p_rpos' = p_rpos
          BY <1>2, <1>5, <3>1
        <4> QED
          BY <3>7, <4>1
      <3> QED
        BY <3>3, <3>5, <3>6, <3>8 DEF PlacesInv
    <2>14. ~sch'.panic
      BY <2>6 DEF StdinInv
    <2> QED
      BY <1>7, <2>6, <2>11, <2>12, <2>13, <2>14 DEF StdinInv
  <1> QED
    BY <1>9, <1>10

\* A function on 1 .. n is a sequence.
LEMMA SequenceOn ==
    ASSUME NEW S, NEW n \in Nat, NEW f \in [1 .. n -> S]
    PROVE  f \in Seq(S) /\ Len(f) = n
  OBVIOUS

\* The unread characters are a sequence that starts at p_rpos.
LEMMA UnreadSeq ==
    ASSUME StdinInv
    PROVE  /\ Unread \in Seq(0 .. MaxKeys) /\ Len(Unread) = p_wpos - p_rpos
           /\ PlacesInv => Counts(Unread, p_rpos, p_wpos)
  <1> DEFINE u == p_wpos - p_rpos
  <1>1. /\ p_wpos \in Nat /\ p_rpos \in Nat /\ u \in Nat
        /\ stdin_buffer \in [0 .. BufLen - 1 -> 0 .. MaxKeys]
    BY DEF StdinInv, TypeOK, ReadersInv
  <1>2. \A i \in 1 .. u : (p_rpos + i - 1) % BufLen \in 0 .. BufLen - 1
    BY <1>1, BufLenAssumption
  <1>3. Unread = [i \in 1 .. u |-> stdin_buffer[(p_rpos + i - 1) % BufLen]]
    BY DEF Unread
  <1> HIDE DEF u
  <1>4. Unread \in [1 .. u -> 0 .. MaxKeys]
    BY <1>1, <1>2, <1>3
  <1>5. Unread \in Seq(0 .. MaxKeys) /\ Len(Unread) = u
    BY <1>1, <1>4, SequenceOn
  <1>6. ASSUME PlacesInv PROVE Counts(Unread, p_rpos, p_wpos)
    <2>1. ASSUME NEW i \in 1 .. u PROVE Unread[i] = p_rpos + i
      <3>1. p_rpos + i - 1 \in p_rpos .. p_wpos - 1
        BY <1>1 DEF u
      <3>2. stdin_buffer[(p_rpos + i - 1) % BufLen] = (p_rpos + i - 1) + 1
        BY <1>6, <3>1 DEF PlacesInv
      <3> QED
        BY <1>1, <1>3, <3>2
    <2>2. Unread \in [1 .. u -> Nat]
      <3>1. \A i \in 1 .. u : Unread[i] \in Nat
        BY <1>1, <2>1
      <3> QED
        BY <1>4, <3>1
    <2>3. Unread \in Seq(Nat)
      BY <1>1, <2>2, SequenceOn
    <2> QED
      BY <1>1, <1>5, <2>1, <2>3 DEF Counts, u
  <1> QED
    BY <1>5, <1>6 DEF u

\* The front of a sequence that counts.
LEMMA CountsFront ==
    ASSUME NEW x, NEW a, NEW b, Counts(x, a, b), NEW k \in 0 .. b - a
    PROVE  Counts(SubSeq(x, 1, k), a, a + k)
  <1>1. x \in Seq(Nat) /\ Len(x) = b - a /\ a \in Nat /\ b \in Nat
    BY DEF Counts
  <1> DEFINE y == SubSeq(x, 1, k)
  <1>2. /\ y \in Seq(Nat) /\ Len(y) = k
        /\ \A i \in 1 .. k : y[i] = x[i]
    <2>1. \A i \in 1 .. k : i \in 1 .. Len(x)
      BY <1>1
    <2>2. y = [i \in 1 .. k |-> x[i]]
      BY <1>1
    <2>3. \A i \in 1 .. k : x[i] \in Nat
      BY <1>1, <2>1, ElementOfSeq
    <2>4. y \in [1 .. k -> Nat]
      BY <2>2, <2>3
    <2> HIDE DEF y
    <2>5. k \in Nat
      BY <1>1
    <2> QED
      BY <2>2, <2>4, <2>5
  <1> HIDE DEF y
  <1>3. \A i \in 1 .. k : x[i] = a + i
    BY <1>1 DEF Counts
  <1> QED
    BY <1>1, <1>2, <1>3 DEF Counts, y

\* _stdin_do_read() takes characters in order, and sleeps only when there are
\* none left.
LEMMA ReadStdin ==
    ASSUME StdinInv, NEW t \in Readers, Cur = t, NEW n \in 0 .. MaxLen, readLoop(t, n),
           UNCHANGED <<keyboard, KBDbuffer, stdin_buffer, p_wpos, overrun>>
    PROVE  StdinInv'
  <1> DEFINE u == p_wpos - p_rpos
  <1>0. PICK k : k = IF n < u THEN n ELSE u
    OBVIOUS
  <1>1. /\ p_rpos' = p_rpos + k /\ delivered' = delivered \o SubSeq(Unread, 1, k)
        /\ len' = [len EXCEPT ![t] = n - k]
        /\ \/ /\ k = n /\ pc' = [pc EXCEPT ![t] = "user"]
              /\ wait_queue' = waitDelCurrent(wait_queue, t) /\ sch' = sch
           \/ /\ k # n /\ pc' = [pc EXCEPT ![t] = "woken"]
              /\ wait_queue' = waitAdd(waitDelCurrent(wait_queue, t), t)
              /\ sch' = schedule(waitSleep(sch, "KBD"))
    BY <1>0 DEF readLoop
  <1>2. /\ UNCHANGED <<controller, irq, merged, typed, KBDbuffer, stdin_buffer, p_wpos, overrun>>
        /\ t \in Tasks /\ t # Idle
    BY DEF keyboard, Readers
  <1>3. /\ p_wpos \in Nat /\ p_rpos \in Nat /\ u \in Nat /\ p_rpos <= p_wpos
        /\ p_wpos - p_rpos <= BufLen
    BY DEF StdinInv, TypeOK, ReadersInv
  <1>4. k \in 0 .. u /\ n - k \in 0 .. MaxLen /\ (k # n => k = u)
    <2> HIDE DEF u
    <2> QED
      BY <1>0, <1>3, BoundsAssumption
  <1>5. /\ p_rpos' \in Nat /\ p_rpos' <= p_wpos /\ p_wpos - p_rpos' <= BufLen
        /\ k # n => p_rpos' = p_wpos
        /\ p_rpos = p_wpos => p_rpos' = p_wpos
    BY <1>1, <1>3, <1>4, BufLenAssumption
  <1>6. /\ Unread \in Seq(0 .. MaxKeys) /\ Len(Unread) = u
        /\ PlacesInv => Counts(Unread, p_rpos, p_wpos)
    BY UnreadSeq
  <1>7. delivered' \in Seq(0 .. MaxKeys)
    <2> DEFINE y == SubSeq(Unread, 1, k)
    <2>1. y \in Seq(0 .. MaxKeys)
      <3>1. \A i \in 1 .. k : i \in 1 .. Len(Unread)
        BY <1>3, <1>4, <1>6
      <3>2. \A i \in 1 .. k : Unread[i] \in 0 .. MaxKeys
        BY <1>6, <3>1, ElementOfSeq
      <3>3. k \in Nat /\ y = [i \in 1 .. k |-> Unread[i]]
        BY <1>3, <1>4, <1>6
      <3> HIDE DEF y
      <3>4. y \in [1 .. k -> 0 .. MaxKeys]
        BY <3>2, <3>3
      <3> QED
        BY <3>3, <3>4
    <2>2. delivered \in Seq(0 .. MaxKeys)
      BY DEF StdinInv, TypeOK
    <2> HIDE DEF y
    <2>3. delivered \o y \in Seq(0 .. MaxKeys)
      BY <2>1, <2>2, ConcatProperties
    <2> QED
      BY <1>1, <2>3 DEF y
  <1>8. len' \in [Tasks -> 0 .. MaxLen] /\ pc' \in [Tasks -> {"user", "woken"}]
    <2>1. len \in [Tasks -> 0 .. MaxLen] /\ pc \in [Tasks -> {"user", "woken"}]
      BY DEF StdinInv, TypeOK
    <2>2. len' \in [Tasks -> 0 .. MaxLen]
      BY <1>1, <1>4, <2>1
    <2>3. pc' \in [Tasks -> {"user", "woken"}]
      BY <1>1, <2>1
    <2> QED
      BY <2>2, <2>3
  <1>9. sch.state[t] = "RUNNABLE" /\ ~Contains(wait_queue.list, t)
        /\ waitDelCurrent(wait_queue, t) = wait_queue
    BY <1>2 DEF StdinInv, ReadersInv, waitDelCurrent, waitlistIsInList, Cur
  <1>10. ASSUME PlacesInv PROVE PlacesInv'
    <2>1. Counts(Unread, p_rpos, p_wpos) /\ Counts(delivered, 0, p_rpos)
      BY <1>6, <1>10 DEF PlacesInv
    <2>2. Counts(SubSeq(Unread, 1, k), p_rpos, p_rpos')
      BY <1>1, <1>4, <2>1, CountsFront
    <2>3. Counts(delivered', 0, p_rpos')
      BY <1>1, <2>1, <2>2, CountsOn
    <2>4. \A i \in p_rpos' .. p_wpos - 1 : i \in p_rpos .. p_wpos - 1
      BY <1>1, <1>3, <1>4
    <2> QED
      BY <1>2, <1>10, <2>3, <2>4 DEF PlacesInv
  <1>11. RingInv'
    BY <1>2 DEF StdinInv, RingInv
  <1>12. CASE k = n
    <2>1. wait_queue' = wait_queue /\ sch' = sch
      BY <1>1, <1>9, <1>12
    <2>2. TypeOK'
      BY <1>2, <1>5, <1>7, <1>8, <2>1 DEF StdinInv, TypeOK
    <2>3. ReadersInv'
      BY <1>2, <1>5, <2>1 DEF StdinInv, ReadersInv, Cur
    <2> QED
      BY <1>2, <1>10, <1>11, <2>1, <2>2, <2>3 DEF StdinInv
  <1>13. CASE k # n
    <2> DEFINE s == waitSleep(sch, "KBD")
    <2>1. wait_queue' = waitAdd(wait_queue, t) /\ sch' = schedule(s)
      BY <1>1, <1>9, <1>13
    <2>2. /\ SchedInv(s) /\ s.panic = sch.panic
          /\ s.state = [sch.state EXCEPT ![t] = "SLEEPING"]
      BY <1>2, WaitSleep DEF StdinInv, Cur
    <2> HIDE DEF s
    <2>3. /\ SchedInv(sch') /\ sch'.state = s.state /\ sch'.panic = s.panic
          /\ sch'.state[sch'.CurrentTask] = "RUNNABLE"
      BY <2>1, <2>2, ScheduleCorrect
    <2>4. /\ wait_queue \in WaitQueue /\ wait_queue.list \in Seq(Tasks)
          /\ wait_queue.flags \in [Tasks -> WakeupFlags]
      BY DEF StdinInv, TypeOK, WaitQueue
    <2>5. /\ wait_queue'.list = Append(wait_queue.list, t)
          /\ wait_queue'.flags = [wait_queue.flags EXCEPT ![t] = "INTERRUPTED"]
      BY <2>1, <2>4 DEF waitAdd, WaitQueue
    <2>6. /\ wait_queue'.list \in Seq(Tasks) /\ Distinct(wait_queue'.list)
          /\ \A x : Contains(wait_queue'.list, x) <=> Contains(wait_queue.list, x) \/ x = t
      <3>1. Distinct(wait_queue.list)
        BY DEF StdinInv, ReadersInv
      <3> QED
        BY <1>2, <1>9, <2>4, <2>5, <3>1, AppendDistinct
    <2>7. wait_queue' \in WaitQueue
      <3>1. wait_queue' = [wait_queue EXCEPT !.list = wait_queue'.list,
                                             !.flags = wait_queue'.flags]
        BY <2>1, <2>4 DEF waitAdd, WaitQueue
      <3>2. wait_queue'.flags \in [Tasks -> WakeupFlags]
        BY <2>4, <2>5 DEF WakeupFlags
      <3> QED
        BY <2>4, <2>6, <3>1, <3>2 DEF WaitQueue
    <2>8. TypeOK'
      BY <1>2, <1>5, <1>7, <1>8, <2>3, <2>7 DEF StdinInv, TypeOK, SchedInv
    <2>9. /\ sch'.state[t] = "SLEEPING"
          /\ \A v \in Tasks \ {t} : sch'.state[v] = sch.state[v]
      BY <1>2, <2>2, <2>3 DEF StdinInv, SchedInv, SchedState
    <2>10. ReadersInv'
      BY <1>2, <1>5, <1>13, <2>3, <2>6, <2>9 DEF StdinInv, ReadersInv, Cur
    <2> QED
      BY <1>2, <1>10, <1>11, <2>2, <2>3, <2>8, <2>10 DEF StdinInv
  <1> QED
    BY <1>12, <1>13

\* A reader that another event has woken gives up.
LEMMA RepeatsStdin == \A t \in Readers : StdinInv /\ ReadRepeats(t) => StdinInv'
  <1> SUFFICES ASSUME NEW t \in Readers, StdinInv, ReadRepeats(t) PROVE StdinInv'
    OBVIOUS
  <1>1. /\ Cur = t /\ t \in Tasks
        /\ UNCHANGED <<keyboard, KBDbuffer, stdin_buffer, p_wpos, overrun>>
    BY DEF ReadRepeats, Readers
  <1>2. CASE wait_queue.flags[t] = "KBD"
    <2>1. len[t] \in 0 .. MaxLen
      BY <1>1 DEF StdinInv, TypeOK
    <2>2. readLoop(t, len[t])
      BY <1>2 DEF ReadRepeats
    <2> QED
      BY <1>1, <2>1, <2>2, ReadStdin
  <1>3. CASE wait_queue.flags[t] # "KBD"
    <2>1. /\ wait_queue' = waitDelCurrent(wait_queue, t)
          /\ pc' = [pc EXCEPT ![t] = "user"] /\ len' = [len EXCEPT ![t] = 0]
          /\ sch' = sch /\ p_rpos' = p_rpos /\ delivered' = delivered
      BY <1>3 DEF ReadRepeats
    <2>2. wait_queue' = wait_queue
      BY <1>1, <2>1 DEF StdinInv, ReadersInv, waitDelCurrent, waitlistIsInList, Cur
    <2>3. UNCHANGED <<controller, irq, merged, typed, KBDbuffer, stdin_buffer, p_wpos, overrun>>
      BY <1>1 DEF keyboard
    <2>4. pc' \in [Tasks -> {"user", "woken"}] /\ len' \in [Tasks -> 0 .. MaxLen]
      <3>1. pc \in [Tasks -> {"user", "woken"}] /\ len \in [Tasks -> 0 .. MaxLen]
        BY DEF StdinInv, TypeOK
      <3>2. 0 \in 0 .. MaxLen
        BY BoundsAssumption
      <3> QED
        BY <2>1, <3>1, <3>2
    <2>5. TypeOK'
      BY <2>1, <2>2, <2>3, <2>4 DEF StdinInv, TypeOK
    <2>6. ReadersInv' /\ RingInv' /\ (PlacesInv' <=> PlacesInv)
      BY <2>1, <2>2, <2>3 DEF StdinInv, ReadersInv, RingInv, PlacesInv, Cur
    <2> QED
      BY <2>1, <2>3, <2>5, <2>6 DEF StdinInv
  <1> QED
    BY <1>2, <1>3

LEMMA StdinStep == StdinInv /\ [Next]_vars => StdinInv'
  <1> SUFFICES ASSUME StdinInv, [Next]_vars PROVE StdinInv'
    OBVIOUS
  <1>1. CASE UNCHANGED vars
    BY <1>1 DEF vars, keyboard, buffers, StdinInv, TypeOK, ReadersInv, RingInv, PlacesInv, Cur
  <1>2. ASSUME NEW t \in Readers, ReadStarts(t) PROVE StdinInv'
    <2>1. PICK n \in 1 .. MaxLen : readLoop(t, n)
      BY <1>2 DEF ReadStarts
    <2>2. n \in 0 .. MaxLen
      OBVIOUS
    <2>3. Cur = t /\ UNCHANGED <<keyboard, KBDbuffer, stdin_buffer, p_wpos, overrun>>
      BY <1>2 DEF ReadStarts
    <2> QED
      BY <2>1, <2>2, <2>3, ReadStdin
  <1> QED
    BY <1>1, <1>2, TickStdin, KeyStdin, IntrStdin, RepeatsStdin DEF Next

\* The invariant holds in every reachable state of kbd.c and stdin_inode.c.
THEOREM StdinInvariant == Spec => []StdinInv
  BY InitStdin, StdinStep, PTL DEF Spec

\* With any number of readers of stdin_inode.c and any lengths of the buffers:
\* no reader sleeps while there is a character to read, every sleeper is in
\* the queue that the interrupt handler wakes, and the run queue stays exact
\* when it wakes them all.
THEOREM ReadersCorrect == Spec => []QueuesOK
  <1>1. StdinInv => QueuesOK
    BY DEF StdinInv, ReadersInv, QueuesOK, SleepersStarve, SchedInv, waitlistIsInList, Readers
  <1> QED
    BY <1>1, StdinInvariant, PTL

----------------------------------------------------------------------------
(* The characters.                                                         *)

\* A step in the ring of kbd.c goes round its end at most once.
LEMMA BeyondIs ==
    ASSUME NEW r \in Int, NEW j \in Int
    PROVE  r + j - 1 = Beyond(r, j - 1) \/ r + j - 1 = Beyond(r, j - 1) + KbdLen
  BY KbdLenAssumption DEF Beyond

\* What the positions of the ring of kbd.c say, read as a sequence.
LEMMA RingSeq ==
    ASSUME StdinInv
    PROVE  /\ Len(InRing) = Held(KBDbuffer)
           /\ PlacesInv => Counts(InRing, p_wpos, p_wpos + Held(KBDbuffer))
  <1> DEFINE b == KBDbuffer
             m == (b.wpos + KbdLen - b.rpos) % KbdLen
  <1>1. /\ b \in Ring /\ b.rpos \in 0 .. KbdLen - 1 /\ b.wpos \in 0 .. KbdLen - 1
        /\ b.buffer \in [0 .. KbdLen - 1 -> 0 .. MaxKeys]
        /\ p_wpos \in Nat /\ KbdLen \in Nat \ {0}
    BY KbdLenAssumption DEF StdinInv, Ring, TypeOK
  <1>2. InRing = [j \in 1 .. m |-> b.buffer[(b.rpos + j - 1) % KbdLen]]
    BY DEF InRing
  <1> HIDE DEF b
  <1>3. Held(b) \in 0 .. KbdLen - 1 /\ Held(b) \in Nat /\ Held(b) < KbdLen
    BY <1>1, HeldInRing
  <1>4. m = Held(b)
    <2>1. b.wpos + KbdLen - b.rpos = Held(b) + KbdLen \/ b.wpos + KbdLen - b.rpos = Held(b)
      BY <1>1 DEF Held, Behind
    <2> QED
      BY <1>1, <1>3, <2>1, ModSmall
  <1> HIDE DEF m
  <1>5. ASSUME NEW j \in 1 .. m
        PROVE  /\ (b.rpos + j - 1) % KbdLen = Place(b, j)
               /\ InRing[j] = b.buffer[Place(b, j)] /\ InRing[j] \in Nat
    <2>1. j \in 1 .. KbdLen
      BY <1>1, <1>3, <1>4
    <2>2. Place(b, j) \in 0 .. KbdLen - 1
      BY <1>1, <2>1, PlaceInRing
    <2>3. b.rpos + j - 1 = Place(b, j) \/ b.rpos + j - 1 = Place(b, j) + KbdLen
      <3>1. b.rpos \in Int /\ j \in Int
        BY <1>1, <2>1
      <3>2. Place(b, j) = Beyond(b.rpos, j - 1)
        BY DEF Place
      <3> QED
        BY <3>1, <3>2, BeyondIs
    <2>4. (b.rpos + j - 1) % KbdLen = Place(b, j)
      BY <1>1, <2>2, <2>3, ModSmall
    <2>5. InRing[j] = b.buffer[Place(b, j)]
      BY <1>2, <2>4
    <2>6. b.buffer[Place(b, j)] \in Nat
      BY <1>1, <2>2, BoundsAssumption
    <2> QED
      BY <2>4, <2>5, <2>6
  <1>6. InRing \in Seq(Nat) /\ Len(InRing) = m
    <2>1. InRing \in [1 .. m -> Nat] /\ m \in Nat
      BY <1>2, <1>3, <1>4, <1>5
    <2> QED
      BY <2>1, SequenceOn
  <1>7. ASSUME PlacesInv PROVE Counts(InRing, p_wpos, p_wpos + m)
    <2>1. RingFrom(b, p_wpos)
      BY <1>7 DEF PlacesInv, b
    <2>2. \A j \in 1 .. m : InRing[j] = p_wpos + j
      BY <1>4, <1>5, <2>1 DEF RingFrom
    <2>3. m \in Nat /\ p_wpos + m \in Nat /\ (p_wpos + m) - p_wpos = m
      BY <1>1, <1>3, <1>4
    <2> QED
      BY <1>1, <1>6, <2>2, <2>3 DEF Counts
  <1> QED
    BY <1>4, <1>6, <1>7 DEF b

\* charsTo is what its definition says.
LEMMA CharsToDef ==
    ASSUME NEW L \in Nat, L = Len(controller), \A i \in 1 .. L : controller[i] \in Nat
    PROVE  charsTo = [n \in 0 .. L |-> IF n = 0 THEN << >>
                        ELSE IF controller[n] = 0 THEN charsTo[n - 1]
                        ELSE Append(charsTo[n - 1], controller[n])]
  <1> DEFINE Add(q, c) == IF c = 0 THEN q ELSE Append(q, c)
             G == [p \in Seq(Nat) \X (1 .. L) |-> Add(p[1], controller[p[2]])]
  <1>1. G \in [Seq(Nat) \X (1 .. L) -> Seq(Nat)]
    <2>1. ASSUME NEW q \in Seq(Nat), NEW n \in 1 .. L PROVE Add(q, controller[n]) \in Seq(Nat)
      OBVIOUS
    <2> HIDE DEF Add
    <2> QED
      BY <2>1
  <1>2. \A q \in Seq(Nat), n \in 1 .. L : G[<<q, n>>] = Add(q, controller[n])
    OBVIOUS
  <1>3. << >> \in Seq(Nat)
    OBVIOUS
  <1> HIDE DEF G, Add
  <1>4. PICK f \in [0 .. L -> Seq(Nat)] :
           f[0] = << >> /\ \A n \in 1 .. L : f[n] = G[<<f[n - 1], n>>]
    <2>1. \E f : Iterates(f, Seq(Nat), << >>, L, G)
      BY <1>1, <1>3, Recursion
    <2> QED
      BY <2>1 DEF Iterates
  <1>5. ASSUME NEW n \in 0 .. L
        PROVE  f[n] = IF n = 0 THEN << >> ELSE Add(f[n - 1], controller[n])
    <2>1. CASE n = 0
      BY <1>4, <2>1
    <2>2. CASE n # 0
      <3>1. n \in 1 .. L /\ n - 1 \in 0 .. L
        BY <2>2
      <3>2. f[n - 1] \in Seq(Nat)
        BY <3>1
      <3> HIDE DEF Add
      <3> QED
        BY <1>2, <1>4, <2>2, <3>1, <3>2
    <2> QED
      BY <2>1, <2>2
  <1>6. f = [n \in 0 .. L |-> IF n = 0 THEN << >> ELSE Add(f[n - 1], controller[n])]
    <2> HIDE DEF Add
    <2> QED
      BY <1>5
  <1> USE DEF Add
  <1>7. \E h : h = [n \in 0 .. L |-> IF n = 0 THEN << >>
                      ELSE IF controller[n] = 0 THEN h[n - 1]
                      ELSE Append(h[n - 1], controller[n])]
    BY <1>6, Zenon
  <1> QED
    BY <1>7, Zenon DEF charsTo

\* The same for the bytes in the controller.
LEMMA ControllerSeq ==
    ASSUME StdinInv, PlacesInv
    PROVE  Counts(InController, p_wpos + Held(KBDbuffer), typed)
  <1> DEFINE L == Len(controller)
             m == p_wpos + Held(KBDbuffer)
             Add(q, c) == IF c = 0 THEN q ELSE Append(q, c)
  <1>1. /\ L \in Nat /\ m \in Nat /\ typed \in Nat
        /\ \A i \in 1 .. L : controller[i] \in Nat
        /\ ControllerFrom(controller, m, typed)
    <2>1. controller \in Seq(0 .. MaxKeys) /\ KBDbuffer \in Ring /\ typed \in 0 .. MaxKeys
      BY DEF StdinInv, TypeOK, Ring
    <2>2. Held(KBDbuffer) \in Nat
      BY <2>1, HeldInRing
    <2>3. \A i \in 1 .. L : controller[i] \in 0 .. MaxKeys
      BY <2>1, ElementOfSeq
    <2>4. ControllerFrom(controller, m, typed) /\ p_wpos \in Nat
      BY DEF StdinInv, TypeOK, PlacesInv
    <2>5. L \in Nat
      BY <2>1
    <2> QED
      BY <2>1, <2>2, <2>3, <2>4, <2>5, BoundsAssumption
  <1>2. charsTo = [n \in 0 .. L |-> IF n = 0 THEN << >>
                     ELSE IF controller[n] = 0 THEN charsTo[n - 1]
                     ELSE Append(charsTo[n - 1], controller[n])]
    BY <1>1, CharsToDef
  <1> HIDE DEF m
  <1>3. ASSUME NEW q, NEW a, Counts(q, m, a), NEW c \in {0, a + 1}
        PROVE  Counts(Add(q, c), m, a + One(c))
    <2>1. q \in Seq(Nat) /\ a \in Nat /\ Len(q) = a - m
      BY <1>3 DEF Counts
    <2>2. CASE c = 0
      BY <1>3, <2>1, <2>2 DEF One
    <2>3. CASE c # 0
      <3>1. c = a + 1 /\ One(c) = 1 /\ c \in Nat /\ Add(q, c) = Append(q, c)
        BY <1>3, <2>1, <2>3 DEF One
      <3> DEFINE r == Append(q, c)
      <3>2. /\ r \in Seq(Nat) /\ Len(r) = Len(q) + 1
            /\ \A i \in 1 .. Len(q) : r[i] = q[i]
            /\ r[Len(q) + 1] = c
        BY <2>1, <3>1, AppendElements
      <3> HIDE DEF r
      <3>3. ASSUME NEW i \in 1 .. (a + 1) - m PROVE r[i] = m + i
        <4>1. CASE i = (a + 1) - m
          BY <1>1, <2>1, <3>1, <3>2, <4>1
        <4>2. CASE i # (a + 1) - m
          <5>1. i \in 1 .. a - m
            BY <1>1, <2>1, <4>2
          <5>2. q[i] = m + i
            BY <1>3, <5>1 DEF Counts
          <5> QED
            BY <2>1, <3>2, <5>1, <5>2
        <4> QED
          BY <4>1, <4>2
      <3>4. Len(r) = (a + 1) - m /\ a + 1 \in Nat
        BY <1>1, <2>1, <3>2
      <3> QED
        BY <1>1, <3>1, <3>2, <3>3, <3>4 DEF Counts, r
    <2> QED
      BY <2>2, <2>3
  <1>4. PICK g \in [0 .. L -> Nat] :
           /\ g[0] = m /\ g[L] = typed
           /\ \A i \in 1 .. L : \/ controller[i] = 0 /\ g[i] = g[i - 1]
                                \/ controller[i] = g[i - 1] + 1 /\ g[i] = g[i - 1] + 1
    BY <1>1 DEF ControllerFrom
  <1>5. InController = charsTo[L]
    BY DEF InController
  <1> HIDE DEF L, Add
  <1>6. \A n \in 1 .. L : charsTo[n] = Add(charsTo[n - 1], controller[n])
    <2> SUFFICES ASSUME NEW n \in 1 .. L
                 PROVE  charsTo[n] = Add(charsTo[n - 1], controller[n])
      OBVIOUS
    <2>1. n \in 0 .. L /\ n # 0
      BY <1>1
    <2> QED
      BY <1>2, <2>1 DEF Add
  <1> DEFINE T == {n \in Nat : n <= L => Counts(charsTo[n], m, g[n])}
  <1>7. 0 \in T
    <2>1. charsTo[0] = << >>
      BY <1>1, <1>2
    <2>2. Counts(<< >>, m, m)
      BY <1>1 DEF Counts
    <2> QED
      BY <1>4, <2>1, <2>2
  <1>8. ASSUME NEW n \in T PROVE n + 1 \in T
    <2> SUFFICES ASSUME n + 1 <= L PROVE Counts(charsTo[n + 1], m, g[n + 1])
      OBVIOUS
    <2>1. n \in Nat /\ n + 1 \in 1 .. L /\ n \in 0 .. L /\ n <= L /\ (n + 1) - 1 = n
      BY <1>1
    <2>2. Counts(charsTo[n], m, g[n]) /\ g[n] \in Nat
      BY <2>1
    <2>3. \/ controller[n + 1] = 0 /\ g[n + 1] = g[n]
          \/ controller[n + 1] = g[n] + 1 /\ g[n + 1] = g[n] + 1
      BY <1>4, <2>1
    <2>4. controller[n + 1] \in {0, g[n] + 1} /\ g[n + 1] = g[n] + One(controller[n + 1])
      BY <2>2, <2>3 DEF One
    <2>5. charsTo[n + 1] = Add(charsTo[n], controller[n + 1])
      BY <1>6, <2>1
    <2> QED
      BY <1>3, <2>2, <2>4, <2>5
  <1>9. \A n \in Nat : n \in T
    <2>1. T \in SUBSET Nat
      OBVIOUS
    <2> HIDE DEF T
    <2> QED
      BY <1>7, <1>8, <2>1, NatSet
  <1>10. L \in T /\ L <= L
    BY <1>1, <1>9
  <1> QED
    BY <1>4, <1>5, <1>10 DEF m

\* Every byte in the controller has an interrupt to come.  Each interrupt takes
\* one character out of the ring of kbd.c, however many bytes it put there; for
\* every length of the ring and any number of bytes held back, the ring keeps no
\* more characters than requests have merged in the PIC since it was last empty,
\* apart from one whose interrupt is latched.
THEOREM NoKeyStuck == Spec => []KeysHaveInterrupts
  <1>1. StdinInv => KeysHaveInterrupts
    <2> SUFFICES ASSUME StdinInv PROVE KeysHaveInterrupts
      OBVIOUS
    <2>1. KBDbuffer \in Ring /\ merged \in Nat /\ irq \in BOOLEAN /\ RingInv
      BY DEF StdinInv, TypeOK, Ring
    <2>2. Held(KBDbuffer) \in Nat /\ Len(InRing) = Held(KBDbuffer)
      BY <2>1, HeldInRing, RingSeq
    <2> QED
      BY <2>1, <2>2 DEF RingInv, KeysHaveInterrupts
  <1> QED
    BY <1>1, StdinInvariant, PTL

\* As long as no character came when a buffer was full, the
\* characters typed are, in this order and each once, those given to readers
\* by stdin_inode.c, those in its buffer, those in the ring of kbd.c and those
\* in the controller.
THEOREM KeysDeliveredInOrder == Spec => []KeysInOrder
  <1>1. StdinInv => KeysInOrder
    <2> SUFFICES ASSUME StdinInv, ~overrun
                 PROVE  delivered \o Unread \o InRing \o InController = [i \in 1 .. typed |-> i]
      BY DEF KeysInOrder
    <2>1. PlacesInv
      BY DEF StdinInv
    <2>2. Counts(delivered, 0, p_rpos) /\ Counts(Unread, p_rpos, p_wpos)
      BY <2>1, UnreadSeq DEF PlacesInv
    <2>3. /\ Counts(InRing, p_wpos, p_wpos + Held(KBDbuffer))
          /\ Counts(InController, p_wpos + Held(KBDbuffer), typed)
      BY <2>1, RingSeq, ControllerSeq
    <2>4. Counts(delivered \o Unread, 0, p_wpos)
      BY <2>2, CountsOn
    <2>5. Counts(delivered \o Unread \o InRing, 0, p_wpos + Held(KBDbuffer))
      BY <2>3, <2>4, CountsOn
    <2>6. PICK x : x = delivered \o Unread \o InRing \o InController
      OBVIOUS
    <2>7. Counts(x, 0, typed)
      BY <2>3, <2>5, <2>6, CountsOn
    <2>8. x = [i \in 1 .. typed |-> i]
      BY <2>7 DEF Counts
    <2> QED
      BY <2>6, <2>8
  <1> QED
    BY <1>1, StdinInvariant, PTL

=============================================================================
