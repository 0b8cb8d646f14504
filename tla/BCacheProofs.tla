---------------------------- MODULE BCacheProofs ----------------------------
(***************************************************************************)
(* For every number of buffers, sectors, values and clients: the block     *)
(* cache of bcache.c keeps each sector in at most one buffer, replaces the *)
(* sector that has not been used for longest, and behaves like the disk    *)
(* behind it, whatever disk operations fail.                               *)
(***************************************************************************)
EXTENDS BCache, TLAPS

Buffer == [data : Values \cup {Junk}, secno : Sectors, time : 0 .. MaxTime,
           occupied : BOOLEAN, modified : BOOLEAN]

\* A buffer that may be written back holds a value, never what kmalloc() left.
ModifiedHoldsData ==
    \A i \in Buffers : BlockCache[i].modified => BlockCache[i].data \in Values

Sound(i) == BlockCache[i].occupied /\ BlockCache[i].secno \notin spoiled

\* The counter that update_time increments orders the buffers as their last
\* uses do, and one that has been used is never at 0.
TimeOrder ==
    \A i, j \in Buffers : Sound(i) /\ Sound(j) =>
        /\ BlockCache[i].time >= 1
        /\ BlockCache[j].time <= BlockCache[i].time
              => <<BlockCache[j].secno, BlockCache[i].secno>> \in recent

BInv == BuffersOK /\ ModifiedHoldsData /\ TimeOrder

----------------------------------------------------------------------------
(* What a sector holds.                                                    *)

\* A buffer that holds the sector decides, there being only one.
LEMMA ContentsHit ==
    ASSUME OneBufferEach, NEW s \in Sectors, NEW i \in Buffers, Hit(i, s)
    PROVE  Contents[s] = BlockCache[i].data
  <1>1. \A j \in Buffers : Hit(j, s) => j = i
    BY DEF OneBufferEach, Hit
  <1>2. (CHOOSE j \in Buffers : Hit(j, s)) = i
    BY <1>1
  <1>3. ~Missing(s)
    BY DEF Missing
  <1> QED
    BY <1>2, <1>3 DEF Contents

LEMMA ContentsMissing ==
    ASSUME NEW s \in Sectors, Missing(s)
    PROVE  Contents[s] = disk[s]
  BY DEF Contents

----------------------------------------------------------------------------
(* What happens to the buffers when buffer i gets sector s with data d.    *)

\* The sectors of the disk: the old one of the buffer is written back.
DiskStep(i, s) ==
    /\ disk' \in [Sectors -> Values]
    /\ \A u \in Sectors :
          disk'[u] = IF u # s /\ Hit(i, u) /\ BlockCache[i].modified
                       THEN BlockCache[i].data ELSE disk[u]

Placed(i, s, d, m) ==
    /\ BlockCache' \in [Buffers -> Buffer]
    /\ BlockCache'[i].occupied /\ BlockCache'[i].secno = s
    /\ BlockCache'[i].data = d /\ BlockCache'[i].modified = m
    /\ \A j \in Buffers \ {i} :
          /\ BlockCache'[j].occupied = BlockCache[j].occupied
          /\ BlockCache'[j].secno = BlockCache[j].secno
          /\ BlockCache'[j].data = BlockCache[j].data
          /\ BlockCache'[j].modified = BlockCache[j].modified

\* Of the sectors whose reads have failed only s may come or go.
SpoiledStep(s) ==
    spoiled' \subseteq Sectors /\ \A u \in Sectors \ {s} : u \in spoiled' <=> u \in spoiled

Loaded(i, s, d, m) ==
    /\ i \in Buffers /\ s \in Sectors /\ m \in BOOLEAN
    /\ ~BlockCache[i].occupied \/ Hit(i, s) \/ Victim(i)
    /\ \A j \in Buffers \ {i} : ~Hit(j, s)
    /\ Placed(i, s, d, m) /\ DiskStep(i, s) /\ SpoiledStep(s)
    /\ m => d \in Values
    /\ s \notin spoiled' => d \in Values /\ (m \/ d = disk[s])

\* The buffers stay sound.
LEMMA LoadedKeeps ==
    ASSUME BInv, NEW i, NEW s, NEW d, NEW m, Loaded(i, s, d, m)
    PROVE  /\ OneBufferEach' /\ OccupiedHoldsBlock' /\ ModifiedHoldsData'
           /\ \A j \in Buffers : BlockCache'[j].modified => BlockCache'[j].occupied
  <1>1. /\ i \in Buffers /\ s \in Sectors
        /\ \A j \in Buffers \ {i} : ~Hit(j, s)
        /\ BlockCache'[i].occupied /\ BlockCache'[i].secno = s
        /\ BlockCache'[i].data = d /\ BlockCache'[i].modified = m
        /\ \A j \in Buffers \ {i} :
              /\ BlockCache'[j].occupied = BlockCache[j].occupied
              /\ BlockCache'[j].secno = BlockCache[j].secno
              /\ BlockCache'[j].data = BlockCache[j].data
              /\ BlockCache'[j].modified = BlockCache[j].modified
        /\ m => d \in Values
        /\ s \notin spoiled' => d \in Values /\ (m \/ d = disk[s])
    BY DEF Loaded, Placed
  <1>2. OneBufferEach'
    BY <1>1 DEF BInv, BuffersOK, OneBufferEach, Hit
  <1>3. ModifiedHoldsData'
    BY <1>1 DEF BInv, ModifiedHoldsData
  <1>4. \A j \in Buffers : BlockCache'[j].modified => BlockCache'[j].occupied
    BY <1>1 DEF BInv, BuffersOK, TypeOK
  <1>5. ASSUME NEW j \in Buffers, BlockCache'[j].occupied, BlockCache'[j].secno \notin spoiled'
        PROVE  /\ BlockCache'[j].data \in Values
               /\ BlockCache'[j].modified \/ BlockCache'[j].data = disk'[BlockCache'[j].secno]
    <2>1. CASE j = i
      <3>1. disk'[s] = disk[s]
        BY <1>1 DEF Loaded, DiskStep
      <3> QED
        BY <1>1, <1>5, <2>1, <3>1
    <2>2. CASE j # i
      <3> DEFINE u == BlockCache[j].secno
      <3>1. BlockCache[j].occupied /\ u \in Sectors /\ u # s
        BY <1>1, <1>5, <2>2 DEF BInv, BuffersOK, TypeOK, Hit
      <3>2. u \notin spoiled
        BY <1>1, <1>5, <2>2, <3>1 DEF Loaded, SpoiledStep
      <3>3. ~Hit(i, u)
        BY <1>1, <2>2, <3>1 DEF BInv, BuffersOK, OneBufferEach
      <3>4. disk'[u] = disk[u]
        BY <3>1, <3>3 DEF Loaded, DiskStep
      <3> QED
        BY <1>1, <2>2, <3>1, <3>2, <3>4 DEF BInv, BuffersOK, OccupiedHoldsBlock
    <2> QED
      BY <2>1, <2>2
  <1>6. OccupiedHoldsBlock'
    BY <1>5 DEF OccupiedHoldsBlock
  <1> QED
    BY <1>2, <1>3, <1>4, <1>6

\* The other sectors keep what they hold.
LEMMA LoadedContents ==
    ASSUME BInv, NEW i, NEW s, NEW d, NEW m, Loaded(i, s, d, m)
    PROVE  /\ Contents'[s] = d
           /\ \A u \in Sectors \ {s} : u \notin spoiled => Contents'[u] = Contents[u]
  <1>1. /\ i \in Buffers /\ s \in Sectors
        /\ \A j \in Buffers \ {i} : ~Hit(j, s)
        /\ BlockCache'[i].occupied /\ BlockCache'[i].secno = s
        /\ BlockCache'[i].data = d
        /\ \A j \in Buffers \ {i} :
              /\ BlockCache'[j].occupied = BlockCache[j].occupied
              /\ BlockCache'[j].secno = BlockCache[j].secno
              /\ BlockCache'[j].data = BlockCache[j].data
    BY DEF Loaded, Placed
  <1>2. OneBufferEach /\ OneBufferEach'
    BY LoadedKeeps DEF BInv, BuffersOK
  <1>3. /\ \A j \in Buffers \ {i}, u \in Sectors : Hit(j, u)' <=> Hit(j, u)
        /\ \A u \in Sectors : Hit(i, u)' <=> u = s
    BY <1>1 DEF Hit
  <1>4. ASSUME NEW u \in Sectors, NEW j \in Buffers, Hit(j, u)'
        PROVE  Contents'[u] = BlockCache'[j].data
    <2>1. \A k \in Buffers : Hit(k, u)' => k = j
      BY <1>2, <1>4 DEF OneBufferEach, Hit
    <2>2. (CHOOSE k \in Buffers : Hit(k, u)') = j
      BY <1>4, <2>1
    <2>3. ~Missing(u)'
      BY <1>4 DEF Missing
    <2> QED
      BY <2>2, <2>3 DEF Contents
  <1>5. Contents'[s] = d
    BY <1>1, <1>3, <1>4
  <1>6. ASSUME NEW u \in Sectors \ {s}, u \notin spoiled PROVE Contents'[u] = Contents[u]
    <2>1. CASE Missing(u)
      <3>1. Missing(u)'
        BY <1>3, <2>1 DEF Missing
      <3>2. disk'[u] = disk[u]
        BY <1>1, <2>1 DEF Loaded, DiskStep, Missing
      <3> QED
        BY <2>1, <3>1, <3>2 DEF Contents
    <2>2. ASSUME NEW k \in Buffers \ {i}, Hit(k, u) PROVE Contents'[u] = Contents[u]
      BY <1>1, <1>2, <1>3, <1>4, <2>2, ContentsHit
    <2>3. CASE Hit(i, u)
      <3>1. \A j \in Buffers : Hit(j, u) => j = i
        BY <1>1, <1>2, <2>3 DEF OneBufferEach, Hit
      <3>2. Missing(u)'
        BY <1>3, <3>1 DEF Missing
      <3>3. disk'[u] = BlockCache[i].data
        <4>1. CASE BlockCache[i].modified
          BY <2>3, <4>1 DEF Loaded, DiskStep
        <4>2. CASE ~BlockCache[i].modified
          <5>1. disk'[u] = disk[u]
            BY <4>2 DEF Loaded, DiskStep
          <5>2. BlockCache[i].data = disk[u]
            BY <1>1, <1>6, <2>3, <4>2 DEF BInv, BuffersOK, OccupiedHoldsBlock, Hit
          <5> QED
            BY <5>1, <5>2
        <4> QED
          BY <4>1, <4>2
      <3>4. Contents[u] = BlockCache[i].data
        BY <1>1, <1>2, <2>3, ContentsHit
      <3> QED
        BY <3>2, <3>3, <3>4 DEF Contents
    <2> QED
      BY <2>1, <2>2, <2>3 DEF Missing
  <1> QED
    BY <1>5, <1>6

----------------------------------------------------------------------------
(* The outcomes of bcache_rw().                                            *)

\* The request has been answered from buffer i.
Served(i, r, d) ==
    /\ answer' = d /\ d \in Values \cup {Junk}
    /\ BlockCache'[i].time = 1
    /\ \A j \in Buffers \ {i} :
          BlockCache'[j].time =
             IF BlockCache[j].occupied THEN BlockCache[j].time + 1 ELSE BlockCache[j].time
    /\ recent' = ({r.secno} \X Sectors) \cup {p \in recent : p[2] # r.secno}
    /\ r.write => d = r.value /\ r.secno \notin spoiled'
    /\ ~r.write => /\ spoiled' = spoiled
                   /\ r.secno \notin spoiled => d = Contents[r.secno]

\* The sector could not be read into buffer i.
LoadFailed(i, r) ==
    /\ answer' = Error /\ recent' = recent
    /\ r.secno \in spoiled'
    /\ \A j \in Buffers \ {i} : BlockCache'[j].time = BlockCache[j].time

\* The buffer could not be written back.
Rejected ==
    answer' = Error /\ UNCHANGED <<BlockCache, disk, recent, spoiled>>

Outcome(r) ==
    \/ \E i, d, m : Loaded(i, r.secno, d, m) /\ (Served(i, r, d) \/ LoadFailed(i, r))
    \/ Rejected

LEMMA RequestType ==
    ASSUME NEW r \in Requests
    PROVE  /\ r.secno \in Sectors /\ r.nsecs \in 1 .. 2 /\ r.write \in BOOLEAN
           /\ r.value \in Values \cup {Junk} /\ (r.write => r.value \in Values)
           /\ r.secno + r.nsecs <= NSectors
  BY DEF Requests

\* Serving a request from buffer b in place i.
LEMMA ServesPlaces ==
    ASSUME BInv, NEW r \in Requests, NEW i \in Buffers, NEW b \in Buffer,
           b.occupied, b.secno = r.secno, Serves(i, b, r),
           NEW d, d = IF r.write THEN r.value ELSE b.data
    PROVE  /\ Placed(i, r.secno, d, b.modified)
           /\ BlockCache'[i].time = 1
           /\ \A j \in Buffers \ {i} :
                 BlockCache'[j].time =
                    IF BlockCache[j].occupied THEN BlockCache[j].time + 1
                    ELSE BlockCache[j].time
           /\ answer' = d /\ d \in Values \cup {Junk}
           /\ recent' = ({r.secno} \X Sectors) \cup {p \in recent : p[2] # r.secno}
           /\ r.write => spoiled' = spoiled \ {r.secno}
           /\ ~r.write => spoiled' = spoiled
  <1> DEFINE c == [b EXCEPT !.time = 0, !.data = IF r.write THEN r.value ELSE @]
             bc == [BlockCache EXCEPT ![i] = c]
  <1>1. /\ BlockCache' = Aged(bc)
        /\ \A j \in Buffers : BlockCache'[j].time <= MaxTime
        /\ answer' = d
        /\ recent' = ({r.secno} \X Sectors) \cup {p \in recent : p[2] # r.secno}
        /\ spoiled' = IF r.write THEN spoiled \ {r.secno} ELSE spoiled
    BY DEF Serves
  <1>2. BlockCache \in [Buffers -> Buffer]
    BY DEF BInv, BuffersOK, TypeOK, Buffer
  <1>3. d \in Values \cup {Junk}
    BY RequestType DEF Buffer
  <1>4. c = [b EXCEPT !.time = 0, !.data = d]
    OBVIOUS
  <1>5. /\ c \in Buffer /\ c.time = 0 /\ c.data = d /\ c.secno = r.secno
        /\ c.occupied /\ c.modified = b.modified
    <2> HIDE DEF c
    <2>1. 0 \in 0 .. MaxTime
      BY MaxTimeAssumption
    <2>2. c \in Buffer
      BY <1>3, <1>4, <2>1 DEF Buffer
    <2> QED
      BY <1>4, <2>2 DEF Buffer
  <1> HIDE DEF c
  <1>6. bc \in [Buffers -> Buffer] /\ bc[i] = c /\ \A j \in Buffers \ {i} : bc[j] = BlockCache[j]
    BY <1>2, <1>5
  <1> HIDE DEF bc
  <1>7. \A j \in Buffers :
           BlockCache'[j] = IF bc[j].occupied THEN [bc[j] EXCEPT !.time = @ + 1] ELSE bc[j]
    BY <1>1 DEF Aged
  <1>8. ASSUME NEW j \in Buffers
        PROVE  /\ BlockCache'[j] \in Buffer
               /\ BlockCache'[j].occupied = bc[j].occupied
               /\ BlockCache'[j].secno = bc[j].secno
               /\ BlockCache'[j].data = bc[j].data
               /\ BlockCache'[j].modified = bc[j].modified
               /\ BlockCache'[j].time = IF bc[j].occupied THEN bc[j].time + 1 ELSE bc[j].time
    <2>1. CASE ~bc[j].occupied
      BY <1>6, <1>7, <2>1
    <2>2. CASE bc[j].occupied
      <3> DEFINE x == bc[j]
                 n == x.time + 1
      <3>1. x \in Buffer /\ BlockCache'[j] = [x EXCEPT !.time = n]
        BY <1>6, <1>7, <2>2
      <3>2. x.time \in 0 .. MaxTime
        BY <3>1 DEF Buffer
      <3>3. n \in Nat /\ n >= 0
        BY <3>2, MaxTimeAssumption
      <3>4. n = x.time + 1
        OBVIOUS
      <3> HIDE DEF n, x
      <3>5. /\ BlockCache'[j].occupied = x.occupied
            /\ BlockCache'[j].secno = x.secno
            /\ BlockCache'[j].data = x.data
            /\ BlockCache'[j].modified = x.modified
            /\ BlockCache'[j].time = n
        BY <3>1 DEF Buffer
      <3>6. n \in 0 .. MaxTime
        BY <1>1, <3>3, <3>5, MaxTimeAssumption
      <3>7. BlockCache'[j] \in Buffer
        BY <3>1, <3>6 DEF Buffer
      <3> QED
        BY <2>2, <3>4, <3>5, <3>7 DEF x
    <2> QED
      BY <2>1, <2>2
  <1>9. BlockCache' \in [Buffers -> Buffer]
    BY <1>1, <1>8 DEF Aged
  <1>10. Placed(i, r.secno, d, b.modified)
    BY <1>5, <1>6, <1>8, <1>9 DEF Placed
  <1>11. BlockCache'[i].time = 1
    BY <1>5, <1>6, <1>8
  <1> QED
    BY <1>1, <1>3, <1>6, <1>8, <1>10, <1>11

LEMMA HitOutcome == \A r \in Requests : BInv /\ rwHit(r) => Outcome(r)
  <1> SUFFICES ASSUME NEW r \in Requests, BInv, rwHit(r) PROVE Outcome(r)
    OBVIOUS
  <1>1. PICK i \in Buffers :
           /\ Hit(i, r.secno)
           /\ Serves(i, [BlockCache[i] EXCEPT !.modified = @ \/ r.write], r)
           /\ disk' = disk
    BY DEF rwHit
  <1> DEFINE s == r.secno
             b == [BlockCache[i] EXCEPT !.modified = @ \/ r.write]
             d == IF r.write THEN r.value ELSE b.data
             m == BlockCache[i].modified \/ r.write
  <1>2. /\ s \in Sectors /\ r.write \in BOOLEAN /\ (r.write => r.value \in Values)
    BY RequestType
  <1>3. /\ BlockCache[i] \in Buffer /\ disk \in [Sectors -> Values] /\ spoiled \subseteq Sectors
    BY DEF BInv, BuffersOK, TypeOK, Buffer
  <1>4. /\ b \in Buffer /\ b.occupied /\ b.secno = s /\ b.modified = m
        /\ b.data = BlockCache[i].data
    BY <1>1, <1>2, <1>3 DEF Buffer, Hit
  <1>5. m \in BOOLEAN
    OBVIOUS
  <1>6. m => r.write \/ BlockCache[i].modified
    OBVIOUS
  <1>7. r.write => m
    OBVIOUS
  <1>8. d = IF r.write THEN r.value ELSE b.data
    OBVIOUS
  <1>9. Serves(i, b, r)
    BY <1>1
  <1> HIDE DEF b, d, m
  <1>10. /\ Placed(i, s, d, m)
         /\ BlockCache'[i].time = 1
         /\ \A j \in Buffers \ {i} :
               BlockCache'[j].time =
                  IF BlockCache[j].occupied THEN BlockCache[j].time + 1
                  ELSE BlockCache[j].time
         /\ answer' = d /\ d \in Values \cup {Junk}
         /\ recent' = ({s} \X Sectors) \cup {p \in recent : p[2] # s}
         /\ r.write => spoiled' = spoiled \ {s}
         /\ ~r.write => spoiled' = spoiled
    BY <1>4, <1>8, <1>9, ServesPlaces
  <1>11. \A j \in Buffers \ {i} : ~Hit(j, s)
    BY <1>1 DEF BInv, BuffersOK, OneBufferEach, Hit
  <1>12. DiskStep(i, s)
    BY <1>1, <1>3 DEF DiskStep, Hit
  <1>13. SpoiledStep(s)
    BY <1>3, <1>10 DEF SpoiledStep
  <1>14. m => d \in Values
    BY <1>2, <1>4, <1>6, <1>8 DEF BInv, ModifiedHoldsData
  <1>15. s \notin spoiled' => d \in Values /\ (m \/ d = disk[s])
    <2>1. CASE r.write
      BY <1>2, <1>7, <1>8, <2>1
    <2>2. CASE ~r.write
      <3> SUFFICES ASSUME s \notin spoiled PROVE d \in Values /\ (m \/ d = disk[s])
        BY <1>10, <2>2
      <3>1. /\ BlockCache[i].data \in Values
            /\ BlockCache[i].modified \/ BlockCache[i].data = disk[s]
        BY <1>1 DEF BInv, BuffersOK, OccupiedHoldsBlock, Hit
      <3> QED
        BY <1>4, <1>8, <2>2, <3>1 DEF m
    <2> QED
      BY <2>1, <2>2
  <1>16. Loaded(i, s, d, m)
    BY <1>1, <1>2, <1>5, <1>10, <1>11, <1>12, <1>13, <1>14, <1>15 DEF Loaded
  <1>17. Contents[s] = BlockCache[i].data
    BY <1>1, <1>2, ContentsHit DEF BInv, BuffersOK
  <1>18. Served(i, r, d)
    BY <1>2, <1>4, <1>8, <1>10, <1>17 DEF Served
  <1> QED
    BY <1>16, <1>18 DEF Outcome

\* A buffer that was free, or one written back, gets the sector from the disk.
LEMMA LoadOutcome ==
    ASSUME BInv, NEW r \in Requests, NEW i \in Buffers, NEW b \in Buffer,
           Missing(r.secno), DiskStep(i, r.secno), ~BlockCache[i].occupied \/ Victim(i),
           b.occupied, b.secno = r.secno, b.data = disk[r.secno], b.modified = r.write,
           Serves(i, b, r)
    PROVE  Outcome(r)
  <1> DEFINE s == r.secno
             d == IF r.write THEN r.value ELSE b.data
  <1>1. /\ s \in Sectors /\ r.write \in BOOLEAN /\ (r.write => r.value \in Values)
    BY RequestType
  <1>2. /\ disk \in [Sectors -> Values] /\ spoiled \subseteq Sectors
    BY DEF BInv, BuffersOK, TypeOK
  <1>3. d = IF r.write THEN r.value ELSE b.data
    OBVIOUS
  <1> HIDE DEF d
  <1>4. /\ Placed(i, s, d, r.write)
        /\ BlockCache'[i].time = 1
        /\ \A j \in Buffers \ {i} :
              BlockCache'[j].time =
                 IF BlockCache[j].occupied THEN BlockCache[j].time + 1
                 ELSE BlockCache[j].time
        /\ answer' = d /\ d \in Values \cup {Junk}
        /\ recent' = ({s} \X Sectors) \cup {p \in recent : p[2] # s}
        /\ r.write => spoiled' = spoiled \ {s}
        /\ ~r.write => spoiled' = spoiled
    BY <1>3, ServesPlaces
  <1>5. SpoiledStep(s)
    BY <1>2, <1>4 DEF SpoiledStep
  <1>6. d \in Values /\ (r.write \/ d = disk[s])
    BY <1>1, <1>2, <1>3
  <1>7. Loaded(i, s, d, r.write)
    BY <1>1, <1>4, <1>5, <1>6 DEF Loaded, Missing
  <1>8. Contents[s] = disk[s]
    BY <1>1, ContentsMissing
  <1>9. Served(i, r, d)
    BY <1>1, <1>3, <1>4, <1>8 DEF Served
  <1> QED
    BY <1>7, <1>9 DEF Outcome

\* The buffer has the sector number already when the read fails, and keeps the
\* data and the modified flag of the sector it held.
LEMMA FailOutcome ==
    ASSUME BInv, NEW r \in Requests, NEW i \in Buffers, NEW b \in Buffer,
           Missing(r.secno), DiskStep(i, r.secno), ~BlockCache[i].occupied \/ Victim(i),
           b.occupied, b.secno = r.secno,
           b.data = BlockCache[i].data, b.modified = BlockCache[i].modified,
           BlockCache' = [BlockCache EXCEPT ![i] = b], ReadFails(r)
    PROVE  Outcome(r)
  <1> DEFINE s == r.secno
             d == b.data
             m == b.modified
  <1>1. s \in Sectors
    BY RequestType
  <1>2. /\ BlockCache \in [Buffers -> Buffer] /\ spoiled \subseteq Sectors
    BY DEF BInv, BuffersOK, TypeOK, Buffer
  <1>3. /\ BlockCache' \in [Buffers -> Buffer] /\ BlockCache'[i] = b
        /\ \A j \in Buffers \ {i} : BlockCache'[j] = BlockCache[j]
    BY <1>2
  <1>4. answer' = Error /\ recent' = recent /\ spoiled' = spoiled \cup {s}
    BY DEF ReadFails, Fails
  <1>5. Placed(i, s, d, m)
    BY <1>3 DEF Placed
  <1>6. SpoiledStep(s)
    BY <1>1, <1>2, <1>4 DEF SpoiledStep
  <1>7. m \in BOOLEAN /\ (m => d \in Values)
    BY DEF BInv, ModifiedHoldsData, Buffer
  <1>8. Loaded(i, s, d, m)
    BY <1>1, <1>4, <1>5, <1>6, <1>7 DEF Loaded, Missing
  <1>9. LoadFailed(i, r)
    BY <1>3, <1>4 DEF LoadFailed
  <1> QED
    BY <1>8, <1>9 DEF Outcome

LEMMA FillOutcome == \A r \in Requests : BInv /\ rwFill(r) => Outcome(r)
  <1> SUFFICES ASSUME NEW r \in Requests, BInv, rwFill(r) PROVE Outcome(r)
    OBVIOUS
  <1>1. PICK i \in Buffers :
          LET b == [BlockCache[i] EXCEPT !.occupied = TRUE, !.secno = r.secno]
          IN  /\ FirstFree(i)
              /\ \/ Serves(i, [b EXCEPT !.data = disk[r.secno], !.modified = r.write], r)
                 \/ BlockCache' = [BlockCache EXCEPT ![i] = b] /\ ReadFails(r)
    BY DEF rwFill
  <1> DEFINE b == [BlockCache[i] EXCEPT !.occupied = TRUE, !.secno = r.secno]
             c == [b EXCEPT !.data = disk[r.secno], !.modified = r.write]
  <1>2. ~BlockCache[i].occupied /\ Missing(r.secno) /\ disk' = disk
    BY <1>1 DEF FirstFree, rwFill
  <1>3. /\ BlockCache[i] \in Buffer /\ disk \in [Sectors -> Values] /\ r.secno \in Sectors
        /\ r.write \in BOOLEAN
    BY RequestType DEF BInv, BuffersOK, TypeOK, Buffer
  <1>4. DiskStep(i, r.secno)
    BY <1>2, <1>3 DEF DiskStep, Hit
  <1>5. /\ b \in Buffer /\ b.occupied /\ b.secno = r.secno
        /\ b.data = BlockCache[i].data /\ b.modified = BlockCache[i].modified
    BY <1>3 DEF Buffer
  <1>6. \/ Serves(i, c, r)
        \/ BlockCache' = [BlockCache EXCEPT ![i] = b] /\ ReadFails(r)
    BY <1>1
  <1> HIDE DEF b
  <1>7. /\ c \in Buffer /\ c.occupied /\ c.secno = r.secno
        /\ c.data = disk[r.secno] /\ c.modified = r.write
    BY <1>3, <1>5 DEF Buffer
  <1> HIDE DEF c
  <1>8. CASE Serves(i, c, r)
    BY <1>2, <1>4, <1>7, <1>8, LoadOutcome
  <1>9. CASE BlockCache' = [BlockCache EXCEPT ![i] = b] /\ ReadFails(r)
    BY <1>2, <1>4, <1>5, <1>9, FailOutcome
  <1> QED
    BY <1>6, <1>8, <1>9

LEMMA EvictOutcome == \A r \in Requests : BInv /\ rwEvict(r) => Outcome(r)
  <1> SUFFICES ASSUME NEW r \in Requests, BInv, rwEvict(r) PROVE Outcome(r)
    OBVIOUS
  <1>1. PICK i \in Buffers :
          LET b == [BlockCache[i] EXCEPT !.time = 0, !.secno = r.secno]
          IN  /\ Victim(i)
              /\ \/ /\ disk' = writtenBack(i)
                    /\ Serves(i, [b EXCEPT !.data = disk[r.secno], !.modified = r.write], r)
                 \/ /\ BlockCache[i].modified
                    /\ WriteFails /\ UNCHANGED <<disk, BlockCache>>
                 \/ /\ disk' = writtenBack(i)
                    /\ BlockCache' = [BlockCache EXCEPT ![i] = b]
                    /\ ReadFails(r)
    BY DEF rwEvict
  <1> DEFINE b == [BlockCache[i] EXCEPT !.time = 0, !.secno = r.secno]
             c == [b EXCEPT !.data = disk[r.secno], !.modified = r.write]
  <1>2. BlockCache[i].occupied /\ Missing(r.secno) /\ Victim(i)
    BY <1>1 DEF Victim, rwEvict
  <1>3. /\ BlockCache[i] \in Buffer /\ disk \in [Sectors -> Values] /\ r.secno \in Sectors
        /\ r.write \in BOOLEAN /\ (BlockCache[i].modified => BlockCache[i].data \in Values)
    BY RequestType DEF BInv, BuffersOK, TypeOK, Buffer, ModifiedHoldsData
  <1>4. ASSUME disk' = writtenBack(i) PROVE DiskStep(i, r.secno)
    <2> DEFINE o == BlockCache[i].secno
    <2>1. o \in Sectors /\ o # r.secno /\ \A u : Hit(i, u) <=> u = o
      BY <1>2, <1>3 DEF Buffer, Hit, Missing
    <2>2. CASE BlockCache[i].modified
      <3>1. disk' = [disk EXCEPT ![o] = BlockCache[i].data]
        BY <1>4, <2>2 DEF writtenBack
      <3> HIDE DEF o
      <3> QED
        BY <1>3, <2>1, <2>2, <3>1 DEF DiskStep
    <2>3. CASE ~BlockCache[i].modified
      <3>1. disk' = disk
        BY <1>4, <2>3 DEF writtenBack
      <3> QED
        BY <1>3, <2>3, <3>1 DEF DiskStep
    <2> QED
      BY <2>2, <2>3
  <1>5. /\ b \in Buffer /\ b.occupied /\ b.secno = r.secno
        /\ b.data = BlockCache[i].data /\ b.modified = BlockCache[i].modified
    <2>1. 0 \in 0 .. MaxTime
      BY MaxTimeAssumption
    <2> QED
      BY <1>2, <1>3, <2>1 DEF Buffer
  <1>6. \/ disk' = writtenBack(i) /\ Serves(i, c, r)
        \/ WriteFails /\ UNCHANGED <<disk, BlockCache>>
        \/ disk' = writtenBack(i) /\ BlockCache' = [BlockCache EXCEPT ![i] = b] /\ ReadFails(r)
    BY <1>1
  <1> HIDE DEF b
  <1>7. /\ c \in Buffer /\ c.occupied /\ c.secno = r.secno
        /\ c.data = disk[r.secno] /\ c.modified = r.write
    BY <1>3, <1>5 DEF Buffer
  <1> HIDE DEF c
  <1>8. CASE disk' = writtenBack(i) /\ Serves(i, c, r)
    BY <1>2, <1>4, <1>7, <1>8, LoadOutcome
  <1>9. CASE WriteFails /\ UNCHANGED <<disk, BlockCache>>
    BY <1>9 DEF WriteFails, Fails, Outcome, Rejected
  <1>10. CASE disk' = writtenBack(i) /\ BlockCache' = [BlockCache EXCEPT ![i] = b] /\ ReadFails(r)
    BY <1>2, <1>4, <1>5, <1>10, FailOutcome
  <1> QED
    BY <1>6, <1>8, <1>9, <1>10

\* The three paths of bcache_rw() have three outcomes.
LEMMA RwOutcome == \A r \in Requests : BInv /\ bcache_rw(r) => Outcome(r)
  BY HitOutcome, FillOutcome, EvictOutcome DEF bcache_rw

----------------------------------------------------------------------------
(* The invariant.                                                          *)

\* The order of the buffers after a request that was served.
LEMMA ServedOrder ==
    ASSUME BInv, NEW r \in Requests, NEW i, NEW d, NEW m,
           Loaded(i, r.secno, d, m), Served(i, r, d)
    PROVE  TimeOrder' /\ recent' \subseteq Sectors \X Sectors
  <1> DEFINE s == r.secno
  <1>1. /\ i \in Buffers /\ s \in Sectors
        /\ BlockCache'[i].secno = s /\ BlockCache'[i].time = 1
        /\ \A j \in Buffers \ {i} :
              /\ BlockCache'[j].occupied = BlockCache[j].occupied
              /\ BlockCache'[j].secno = BlockCache[j].secno
              /\ ~Hit(j, s)
              /\ BlockCache[j].occupied => BlockCache'[j].time = BlockCache[j].time + 1
        /\ recent' = ({s} \X Sectors) \cup {p \in recent : p[2] # s}
        /\ SpoiledStep(s)
    BY DEF Loaded, Placed, Served
  <1>2. /\ \A j \in Buffers : BlockCache[j].secno \in Sectors /\ BlockCache[j].time \in Int
        /\ \A j \in Buffers : BlockCache'[j].secno \in Sectors
        /\ recent \subseteq Sectors \X Sectors
    BY <1>1 DEF Loaded, Placed, Buffer, BInv, BuffersOK, TypeOK
  <1> HIDE DEF s
  <1>3. ASSUME NEW j \in Buffers \ {i}, Sound(j)'
        PROVE  /\ Sound(j) /\ BlockCache[j].secno # s
               /\ BlockCache'[j].time = BlockCache[j].time + 1
               /\ BlockCache'[j].secno = BlockCache[j].secno
    BY <1>1, <1>2, <1>3 DEF Sound, Hit, SpoiledStep
  <1>9. \A j \in Buffers : Sound(j) => BlockCache[j].time >= 1
    BY DEF BInv, TimeOrder
  <1>4. ASSUME NEW j \in Buffers, NEW k \in Buffers, Sound(j)', Sound(k)'
        PROVE  /\ BlockCache'[j].time >= 1
               /\ BlockCache'[k].time <= BlockCache'[j].time
                     => <<BlockCache'[k].secno, BlockCache'[j].secno>> \in recent'
    <2>1. CASE k = i
      <3>1. <<BlockCache'[k].secno, BlockCache'[j].secno>> \in {s} \X Sectors
        BY <1>1, <1>2, <2>1
      <3>2. BlockCache'[j].time >= 1
        <4>1. CASE j = i
          BY <1>1, <4>1
        <4>2. CASE j # i
          <5>1. Sound(j) /\ BlockCache'[j].time = BlockCache[j].time + 1
            BY <1>3, <1>4, <4>2
          <5> QED
            BY <1>2, <1>9, <5>1
        <4> QED
          BY <4>1, <4>2
      <3> QED
        BY <1>1, <3>1, <3>2
    <2>2. CASE k # i /\ j = i
      <3>0. Sound(k) /\ BlockCache'[k].time = BlockCache[k].time + 1
        BY <1>3, <1>4, <2>2
      <3>1. BlockCache'[k].time >= 2
        BY <1>2, <1>9, <3>0
      <3>2. BlockCache'[j].time = 1 /\ BlockCache'[k].time \in Int
        BY <1>1, <1>2, <2>2, <3>0
      <3> QED
        BY <3>1, <3>2
    <2>3. CASE k # i /\ j # i
      <3>1. /\ Sound(j) /\ Sound(k) /\ BlockCache[j].secno # s
            /\ BlockCache'[j].time = BlockCache[j].time + 1
            /\ BlockCache'[k].time = BlockCache[k].time + 1
            /\ BlockCache'[j].secno = BlockCache[j].secno
            /\ BlockCache'[k].secno = BlockCache[k].secno
        BY <1>3, <1>4, <2>3
      <3>2. /\ BlockCache[j].time >= 1
            /\ BlockCache[k].time <= BlockCache[j].time
                  => <<BlockCache[k].secno, BlockCache[j].secno>> \in recent
        BY <3>1 DEF BInv, TimeOrder
      <3>3. <<BlockCache[k].secno, BlockCache[j].secno>> \in recent
               => <<BlockCache[k].secno, BlockCache[j].secno>> \in recent'
        BY <1>1, <3>1
      <3> QED
        BY <1>2, <3>1, <3>2, <3>3
    <2> QED
      BY <2>1, <2>2, <2>3
  <1>5. recent' \subseteq Sectors \X Sectors
    BY <1>1, <1>2
  <1> QED
    BY <1>4, <1>5 DEF TimeOrder

LEMMA FailedOrder ==
    ASSUME BInv, NEW r \in Requests, NEW i, NEW d, NEW m,
           Loaded(i, r.secno, d, m), LoadFailed(i, r)
    PROVE  TimeOrder'
  <1> DEFINE s == r.secno
  <1>1. /\ i \in Buffers /\ s \in Sectors
        /\ BlockCache'[i].secno = s /\ s \in spoiled'
        /\ \A j \in Buffers \ {i} :
              /\ BlockCache'[j].occupied = BlockCache[j].occupied
              /\ BlockCache'[j].secno = BlockCache[j].secno
              /\ BlockCache'[j].time = BlockCache[j].time
              /\ ~Hit(j, s)
        /\ recent' = recent
        /\ SpoiledStep(s)
    BY DEF Loaded, Placed, LoadFailed
  <1>2. \A j \in Buffers : BlockCache[j].secno \in Sectors
    BY DEF BInv, BuffersOK, TypeOK
  <1> HIDE DEF s
  <1>3. ASSUME NEW j \in Buffers, Sound(j)'
        PROVE  /\ Sound(j) /\ BlockCache'[j].time = BlockCache[j].time
               /\ BlockCache'[j].secno = BlockCache[j].secno
    BY <1>1, <1>2, <1>3 DEF Sound, Hit, SpoiledStep
  <1> QED
    BY <1>1, <1>3 DEF BInv, TimeOrder

\* A step of a client keeps the invariant.
LEMMA BlockStep == \A c \in Clients : BInv /\ OneBlock(c) => BInv'
  <1> SUFFICES ASSUME NEW c \in Clients, BInv, OneBlock(c) PROVE BInv'
    OBVIOUS
  <1> DEFINE r == req[c]
  <1>1. r \in Requests /\ bcache_rw(r)
    BY DEF OneBlock, BInv, BuffersOK, TypeOK
  <1>2. req' \in [Clients -> Requests \cup {NULL}]
    <2>1. req \in [Clients -> Requests \cup {NULL}]
      BY DEF BInv, BuffersOK, TypeOK
    <2>2. r.nsecs # 1 => nextSector(r) \in Requests
      <3> SUFFICES ASSUME r.nsecs # 1 PROVE nextSector(r) \in Requests
        OBVIOUS
      <3> DEFINE u == r.secno + 1
                 n == r.nsecs - 1
      <3>1. u \in Sectors /\ n \in 1 .. 2 /\ u + n <= NSectors
        BY <1>1, RequestType, NAssumption DEF Sectors
      <3>2. nextSector(r) = [r EXCEPT !.secno = u, !.nsecs = n]
        BY DEF nextSector
      <3> HIDE DEF u, n, r
      <3> QED
        BY <1>1, <3>1, <3>2 DEF Requests
    <2>3. \/ req' = [req EXCEPT ![c] = NULL]
          \/ r.nsecs # 1 /\ req' = [req EXCEPT ![c] = nextSector(r)]
      BY DEF OneBlock
    <2> QED
      BY <2>1, <2>2, <2>3
  <1> HIDE DEF r
  <1>3. Outcome(r)
    BY <1>1, RwOutcome
  <1>4. ASSUME NEW i, NEW d, NEW m, Loaded(i, r.secno, d, m), Served(i, r, d) \/ LoadFailed(i, r)
        PROVE  BInv'
    <2>1. /\ OneBufferEach' /\ OccupiedHoldsBlock' /\ ModifiedHoldsData'
          /\ \A j \in Buffers : BlockCache'[j].modified => BlockCache'[j].occupied
      BY <1>4, LoadedKeeps
    <2>2. TimeOrder' /\ recent' \subseteq Sectors \X Sectors
      <3>1. CASE Served(i, r, d)
        BY <1>1, <1>4, <3>1, ServedOrder
      <3>2. CASE LoadFailed(i, r)
        <4>1. TimeOrder'
          BY <1>1, <1>4, <3>2, FailedOrder
        <4> QED
          BY <3>2, <4>1 DEF LoadFailed, BInv, BuffersOK, TypeOK
      <3> QED
        BY <1>4, <3>1, <3>2
    <2>3. /\ BlockCache' \in [Buffers -> Buffer] /\ disk' \in [Sectors -> Values]
          /\ spoiled' \subseteq Sectors
      BY <1>4 DEF Loaded, Placed, DiskStep, SpoiledStep
    <2>4. answer' \in Values \cup {Junk, Error}
      BY <1>4 DEF Served, LoadFailed
    <2>5. TypeOK'
      BY <1>2, <2>1, <2>2, <2>3, <2>4 DEF TypeOK, Buffer
    <2> QED
      BY <2>1, <2>2, <2>5 DEF BInv, BuffersOK
  <1>5. CASE Rejected
    <2>1. /\ BlockCache' = BlockCache /\ disk' = disk /\ recent' = recent
          /\ spoiled' = spoiled /\ answer' = Error
      BY <1>5 DEF Rejected
    <2>2. TypeOK'
      BY <1>2, <2>1 DEF BInv, BuffersOK, TypeOK
    <2> QED
      BY <2>1, <2>2 DEF BInv, BuffersOK, OneBufferEach, OccupiedHoldsBlock, Hit,
                        ModifiedHoldsData, TimeOrder, Sound
  <1> QED
    BY <1>3, <1>4, <1>5 DEF Outcome

\* What sync_all_bcache() has written after the first k buffers.
LEMMA Synced ==
    ASSUME BInv, NEW k \in 0 .. N, NEW s \in Sectors
    PROVE  /\ SyncedTo(k)[s] \in Values
           /\ Missing(s) => SyncedTo(k)[s] = disk[s]
           /\ \A i \in Buffers : Hit(i, s) =>
                 /\ ~BlockCache[i].modified => SyncedTo(k)[s] = disk[s]
                 /\ i < k /\ BlockCache[i].modified => SyncedTo(k)[s] = BlockCache[i].data
  <1>1. /\ 0 .. k - 1 \subseteq Buffers /\ \A i \in Buffers : i < k => i \in 0 .. k - 1
        /\ disk[s] \in Values
    BY NAssumption DEF Buffers, BInv, BuffersOK, TypeOK
  <1>2. \A i, j \in Buffers : Hit(i, s) /\ Hit(j, s) => i = j
    BY DEF BInv, BuffersOK, OneBufferEach, Hit
  <1>3. CASE \E i \in 0 .. k - 1 : Hit(i, s) /\ BlockCache[i].modified
    <2> DEFINE c == CHOOSE i \in 0 .. k - 1 : Hit(i, s) /\ BlockCache[i].modified
    <2>1. c \in 0 .. k - 1 /\ Hit(c, s) /\ BlockCache[c].modified
      BY <1>3
    <2>2. SyncedTo(k)[s] = BlockCache[c].data
      BY <1>3 DEF SyncedTo
    <2> HIDE DEF c
    <2>3. c \in Buffers /\ BlockCache[c].data \in Values
      BY <1>1, <2>1 DEF BInv, ModifiedHoldsData
    <2>4. \A i \in Buffers : Hit(i, s) => i = c
      BY <1>2, <2>1, <2>3
    <2> QED
      BY <2>1, <2>2, <2>3, <2>4 DEF Missing
  <1>4. CASE ~\E i \in 0 .. k - 1 : Hit(i, s) /\ BlockCache[i].modified
    <2>1. SyncedTo(k)[s] = disk[s]
      BY <1>4 DEF SyncedTo
    <2> QED
      BY <1>1, <1>4, <2>1
  <1> QED
    BY <1>3, <1>4

\* A sync_all_bcache(), complete or not, changes the disk only.
LEMMA SyncStep ==
    ASSUME BInv, sync_all_bcache
    PROVE  /\ UNCHANGED <<BlockCache, req, answer, recent, spoiled>>
           /\ \E k \in 0 .. N : disk' = SyncedTo(k)
  BY NAssumption DEF sync_all_bcache, SyncSucceeds, SyncFails, Buffers

LEMMA SyncKeeps == BInv /\ sync_all_bcache => BInv'
  <1> SUFFICES ASSUME BInv, sync_all_bcache PROVE BInv'
    OBVIOUS
  <1>1. PICK k \in 0 .. N : disk' = SyncedTo(k)
    BY SyncStep
  <1>2. /\ BlockCache' = BlockCache /\ req' = req /\ answer' = answer
        /\ recent' = recent /\ spoiled' = spoiled
    BY SyncStep
  <1>3. disk' \in [Sectors -> Values]
    <2>1. \A s \in Sectors : SyncedTo(k)[s] \in Values
      BY Synced
    <2> QED
      BY <1>1, <2>1 DEF SyncedTo
  <1>4. TypeOK'
    BY <1>2, <1>3 DEF BInv, BuffersOK, TypeOK
  <1>5. ASSUME NEW i \in Buffers, BlockCache[i].occupied, ~BlockCache[i].modified
        PROVE  disk'[BlockCache[i].secno] = disk[BlockCache[i].secno]
    <2>1. BlockCache[i].secno \in Sectors /\ Hit(i, BlockCache[i].secno)
      BY <1>5 DEF BInv, BuffersOK, TypeOK, Hit
    <2> QED
      BY <1>1, <1>5, <2>1, Synced
  <1>6. OccupiedHoldsBlock'
    BY <1>2, <1>5 DEF BInv, BuffersOK, OccupiedHoldsBlock
  <1>7. OneBufferEach' /\ ModifiedHoldsData' /\ TimeOrder'
    BY <1>2 DEF BInv, BuffersOK, OneBufferEach, Hit, ModifiedHoldsData, TimeOrder, Sound
  <1> QED
    BY <1>4, <1>6, <1>7 DEF BInv, BuffersOK

LEMMA RequestKeeps == \A c \in Clients : BInv /\ diskIO_BCache(c) => BInv'
  <1> SUFFICES ASSUME NEW c \in Clients, BInv, diskIO_BCache(c) PROVE BInv'
    OBVIOUS
  <1>1. /\ BlockCache' = BlockCache /\ disk' = disk /\ answer' = answer
        /\ recent' = recent /\ spoiled' = spoiled
        /\ \E r \in Requests : req' = [req EXCEPT ![c] = r]
    BY DEF diskIO_BCache
  <1>2. TypeOK'
    BY <1>1 DEF BInv, BuffersOK, TypeOK
  <1> QED
    BY <1>1, <1>2 DEF BInv, BuffersOK, OneBufferEach, OccupiedHoldsBlock, Hit,
                      ModifiedHoldsData, TimeOrder, Sound

LEMMA InitBCache == Init => BInv
  <1> SUFFICES ASSUME Init PROVE BInv
    OBVIOUS
  <1>1. /\ BlockCache = [i \in Buffers |->
              [data |-> Junk, secno |-> 0, time |-> 0, occupied |-> FALSE, modified |-> FALSE]]
        /\ disk \in [Sectors -> Values] /\ req = [c \in Clients |-> NULL]
        /\ answer = Error /\ recent = {} /\ spoiled = {}
    BY DEF Init, initBlockCache
  <1>2. 0 \in 0 .. MaxTime /\ 0 \in Sectors
    BY MaxTimeAssumption, NAssumption DEF Sectors
  <1>3. /\ \A i \in Buffers : ~BlockCache[i].occupied /\ ~BlockCache[i].modified
    BY <1>1
  <1>4. TypeOK
    BY <1>1, <1>2 DEF TypeOK
  <1> QED
    BY <1>3, <1>4 DEF BInv, BuffersOK, OneBufferEach, OccupiedHoldsBlock, Hit,
                      ModifiedHoldsData, TimeOrder, Sound

LEMMA BCacheStep == BInv /\ [Next]_vars => BInv'
  <1> SUFFICES ASSUME BInv, [Next]_vars PROVE BInv'
    OBVIOUS
  <1>1. CASE UNCHANGED vars
    BY <1>1 DEF vars, BInv, BuffersOK, TypeOK, OneBufferEach, OccupiedHoldsBlock, Hit,
                ModifiedHoldsData, TimeOrder, Sound
  <1> QED
    BY <1>1, SyncKeeps, RequestKeeps, BlockStep DEF Next

\* The invariant holds in every reachable state of the cache.
THEOREM BCacheInvariant == Spec => []BInv
  BY InitBCache, BCacheStep, PTL DEF Spec

\* Whatever is read, written, replaced, synchronised or fails: a sector is
\* never in two buffers of bcache.c, and the buffer of a sector that can be
\* read holds its data and is marked if the disk does not have them.
THEOREM BuffersCorrect == Spec => []BuffersOK
  <1>1. BInv => BuffersOK
    BY DEF BInv
  <1> QED
    BY <1>1, BCacheInvariant, PTL

----------------------------------------------------------------------------
(* Action properties.                                                      *)

\* The victim of bcache_rw() is the sector that has not been used for longest.
THEOREM EvictionCorrect == Spec => EvictsOldest
  <1>1. BInv /\ [Next]_vars => [ReplacesOldest]_vars
    <2> SUFFICES ASSUME BInv, Next PROVE ReplacesOldest
      OBVIOUS
    <2> SUFFICES ASSUME NEW i \in Buffers, BlockCache[i].occupied,
                        \A j \in Buffers : BlockCache[j].secno \notin spoiled,
                        BlockCache'[i].secno # BlockCache[i].secno,
                        NEW j \in Buffers
                 PROVE  <<BlockCache[j].secno, BlockCache[i].secno>> \in recent
      BY DEF ReplacesOldest
    <2>1. BlockCache' # BlockCache
      OBVIOUS
    <2>2. PICK c \in Clients : OneBlock(c)
      BY <2>1, SyncStep DEF Next, diskIO_BCache
    <2>3. req[c] \in Requests /\ bcache_rw(req[c])
      BY <2>2 DEF OneBlock, BInv, BuffersOK, TypeOK
    <2>4. PICK k, d, m : Loaded(k, req[c].secno, d, m)
      BY <2>1, <2>3, RwOutcome DEF Outcome, Rejected
    <2>5. k = i /\ Victim(i)
      BY <2>4 DEF Loaded, Placed, Hit
    <2>6. Sound(i) /\ Sound(j) /\ BlockCache[j].time <= BlockCache[i].time
      BY <2>5 DEF Victim, Sound
    <2> QED
      BY <2>6 DEF BInv, TimeOrder
  <1> QED
    BY <1>1, BCacheInvariant, PTL DEF Spec, EvictsOldest

\* A sync_all_bcache() that succeeds leaves on the disk what the cache holds.
THEOREM SyncCorrect == Spec => SyncDurable
  <1>1. BInv /\ [Next]_vars => [SyncWritesAll]_vars
    <2> SUFFICES ASSUME BInv, SyncSucceeds, NEW s \in Sectors, s \notin spoiled
                 PROVE  disk'[s] = Contents[s]
      BY DEF SyncWritesAll
    <2>1. disk' = SyncedTo(N) /\ N \in 0 .. N
      BY NAssumption DEF SyncSucceeds
    <2>2. CASE Missing(s)
      BY <2>1, <2>2, Synced, ContentsMissing
    <2>3. ASSUME NEW i \in Buffers, Hit(i, s) PROVE disk'[s] = Contents[s]
      <3>1. Contents[s] = BlockCache[i].data
        BY <2>3, ContentsHit DEF BInv, BuffersOK
      <3>2. BlockCache[i].modified \/ BlockCache[i].data = disk[s]
        BY <2>3 DEF BInv, BuffersOK, OccupiedHoldsBlock, Hit
      <3>3. i < N
        BY NAssumption DEF Buffers
      <3> QED
        BY <2>1, <2>3, <3>1, <3>2, <3>3, Synced
    <2> QED
      BY <2>2, <2>3 DEF Missing
  <1> QED
    BY <1>1, BCacheInvariant, PTL DEF Spec, SyncDurable

----------------------------------------------------------------------------
(* The refinement.                                                         *)

\* What the refinement mapping says a sector holds.
View == [s \in Sectors |-> IF s \in spoiled THEN NULL ELSE Contents[s]]

\* Outside the sector of a request nothing can be seen to change.
LEMMA OthersKept ==
    ASSUME BInv, NEW i, NEW s, NEW d, NEW m, Loaded(i, s, d, m)
    PROVE  \A u \in Sectors \ {s} : View'[u] = View[u]
  <1>1. \A u \in Sectors \ {s} : u \notin spoiled => Contents'[u] = Contents[u]
    BY LoadedContents
  <1>2. \A u \in Sectors \ {s} : u \in spoiled' <=> u \in spoiled
    BY DEF Loaded, SpoiledStep
  <1> QED
    BY <1>1, <1>2 DEF View

\* A bcache_rw() is a read, a write or a failed request of the disk.
LEMMA RwRefines ==
    ASSUME BInv, NEW r \in Requests, Outcome(r)
    PROVE  \/ Store!ReadSector(r.secno)
           \/ Store!Fail(r.secno)
           \/ \E v \in Values : Store!WriteSector(r.secno, v)
  <1> DEFINE s == r.secno
  <1>0. s \in Sectors /\ (r.write => r.value \in Values) /\ r.write \in BOOLEAN
    BY RequestType
  <1>1. CASE Rejected
    <2>1. View' = View /\ answer' = Error
      BY <1>1 DEF Rejected, View, Contents, Missing, Hit
    <2> QED
      BY <2>1 DEF Store!Fail, View
  <1>2. ASSUME NEW i, NEW d, NEW m, Loaded(i, s, d, m), LoadFailed(i, r)
        PROVE  Store!Fail(s)
    <2>1. \A u \in Sectors \ {s} : View'[u] = View[u]
      BY <1>2, OthersKept
    <2>2. View'[s] = NULL /\ answer' = Error
      BY <1>0, <1>2 DEF View, LoadFailed
    <2>3. View' = [View EXCEPT ![s] = NULL]
      BY <1>0, <2>1, <2>2 DEF View
    <2> QED
      BY <2>2, <2>3 DEF Store!Fail, View
  <1>3. ASSUME NEW i, NEW d, NEW m, Loaded(i, s, d, m), Served(i, r, d), r.write
        PROVE  \E v \in Values : Store!WriteSector(s, v)
    <2>1. \A u \in Sectors \ {s} : View'[u] = View[u]
      BY <1>3, OthersKept
    <2>2. Contents'[s] = d
      BY <1>3, LoadedContents
    <2>3. d = r.value /\ s \notin spoiled' /\ answer' = d
      BY <1>3 DEF Served
    <2>4. View'[s] = d
      BY <1>0, <2>2, <2>3 DEF View
    <2>5. View' = [View EXCEPT ![s] = d]
      BY <1>0, <2>1, <2>4 DEF View
    <2>6. Store!WriteSector(s, d)
      BY <2>3, <2>5 DEF Store!WriteSector, View
    <2> QED
      BY <1>0, <1>3, <2>3, <2>6
  <1>4. ASSUME NEW i, NEW d, NEW m, Loaded(i, s, d, m), Served(i, r, d), ~r.write
        PROVE  Store!ReadSector(s)
    <2>1. \A u \in Sectors \ {s} : View'[u] = View[u]
      BY <1>4, OthersKept
    <2>2. Contents'[s] = d
      BY <1>4, LoadedContents
    <2>3. answer' = d /\ spoiled' = spoiled /\ (s \notin spoiled => d = Contents[s])
      BY <1>4 DEF Served
    <2>4. View'[s] = View[s] /\ (s \notin spoiled => answer' = View[s])
      BY <1>0, <2>2, <2>3 DEF View
    <2>5. View' = View
      BY <2>1, <2>4 DEF View
    <2>6. View[s] # NULL => answer' = View[s]
      BY <1>0, <2>4 DEF View
    <2> QED
      BY <2>5, <2>6 DEF Store!ReadSector, View
  <1> QED
    BY <1>0, <1>1, <1>2, <1>3, <1>4 DEF Outcome

\* Synchronising the cache cannot be seen.
LEMMA SyncRefines ==
    ASSUME BInv, sync_all_bcache
    PROVE  View' = View /\ answer' = answer
  <1>1. PICK k \in 0 .. N : disk' = SyncedTo(k)
    BY SyncStep
  <1>2. BlockCache' = BlockCache /\ answer' = answer /\ spoiled' = spoiled
    BY SyncStep
  <1>3. ASSUME NEW s \in Sectors PROVE Contents'[s] = Contents[s]
    <2>1. CASE Missing(s)
      BY <1>1, <1>2, <2>1, Synced DEF Contents, Missing, Hit
    <2>2. CASE ~Missing(s)
      BY <1>2, <2>2 DEF Contents, Missing, Hit
    <2> QED
      BY <2>1, <2>2
  <1> QED
    BY <1>2, <1>3 DEF View

LEMMA StoreStep == BInv /\ [Next]_vars => [Store!BNext]_(Store!bvars)
  <1> SUFFICES ASSUME BInv, [Next]_vars PROVE [Store!BNext]_(Store!bvars)
    OBVIOUS
  <1>1. ASSUME View' = View, answer' = answer PROVE UNCHANGED Store!bvars
    BY <1>1 DEF View, Store!bvars
  <1>2. CASE sync_all_bcache
    BY <1>1, <1>2, SyncRefines
  <1>3. CASE UNCHANGED vars \/ \E c \in Clients : diskIO_BCache(c)
    <2>1. BlockCache' = BlockCache /\ disk' = disk /\ answer' = answer /\ spoiled' = spoiled
      BY <1>3 DEF vars, diskIO_BCache
    <2>2. View' = View
      BY <2>1 DEF View, Contents, Missing, Hit
    <2> QED
      BY <1>1, <2>1, <2>2
  <1>4. ASSUME NEW c \in Clients, OneBlock(c) PROVE Store!BNext
    <2>1. req[c] \in Requests /\ bcache_rw(req[c])
      BY <1>4 DEF OneBlock, BInv, BuffersOK, TypeOK
    <2>2. req[c].secno \in Sectors /\ Outcome(req[c])
      BY <2>1, RequestType, RwOutcome
    <2> QED
      BY <2>1, <2>2, RwRefines DEF Store!BNext
  <1> QED
    BY <1>2, <1>3, <1>4 DEF Next

\* The block cache of bcache.c is a disk: through replacement, write-back,
\* synchronisation and the interleaving of clients a read returns the last
\* value written, and a failed operation harms at most the sector it was for.
THEOREM CacheIsStore == Spec => ImplementsStore
  <1>1. Init => Store!BInit
    <2> SUFFICES ASSUME Init PROVE Store!BInit
      OBVIOUS
    <2>1. /\ \A i \in Buffers : ~BlockCache[i].occupied
          /\ disk \in [Sectors -> Values] /\ answer = Error /\ spoiled = {}
      BY DEF Init, initBlockCache
    <2>2. \A s \in Sectors : Missing(s)
      BY <2>1 DEF Missing, Hit
    <2>3. \A s \in Sectors : View[s] \in Values
      BY <2>1, <2>2, ContentsMissing DEF View
    <2>4. View \in [Sectors -> Values]
      BY <2>3 DEF View
    <2> QED
      BY <2>1, <2>4 DEF Store!BInit, View
  <1> QED
    BY <1>1, StoreStep, BCacheInvariant, PTL DEF Spec, ImplementsStore, Store!BSpec

=============================================================================
