------------------------------- MODULE BCache -------------------------------
(***************************************************************************)
(* The block cache of kern/driver/bcache.c: N_BCACHE buffers in front of   *)
(* the disk, written back when they are replaced or synchronised, replaced *)
(* in the order of their last use.                                         *)
(*                                                                         *)
(* bcache_rw() and sync_all_bcache() hold BlockCacheSem from end to end    *)
(* (module Sem), so each is one action.  A request for several sectors is  *)
(* a bcache_rw() for each, and other clients can come in between.          *)
(*                                                                         *)
(* A disk operation can fail: ide_wait_ready() reports the error before    *)
(* the sector is transferred, so neither the buffer nor the sector of the  *)
(* disk changes.                                                           *)
(***************************************************************************)
EXTENDS Integers

CONSTANTS
    Clients,    \* the flows of control that use the cache
    N,          \* N_BCACHE
    NSectors,   \* the number of sectors of the disk
    Values,     \* what a sector can hold
    Junk,       \* what a buffer fresh from kmalloc() holds
    Error,      \* the result 1 of bcache_rw()
    NULL,       \* no request
    Failures,   \* the disk operations that can fail, "read" and "write"
    MaxTime     \* bound: the largest BlockCache_t.time

ASSUME NAssumption == N \in Nat \ {0} /\ NSectors \in Nat \ {0}
ASSUME ValuesAssumption == Junk \notin Values /\ Error \notin Values \cup {Junk}
ASSUME FailuresAssumption == Failures \subseteq {"read", "write"}
ASSUME MaxTimeAssumption == MaxTime \in Nat

VARIABLES
    BlockCache, \* BlockCache_t of each buffer
    disk,       \* the sectors of the disk
    req,        \* the request of each client, from its next sector on
    answer,     \* what the last bcache_rw() delivered, or Error
    recent,     \* history: <<s, u>>, s has been used and u has not been since
    spoiled     \* history: the sectors not written since a read of them failed

vars == <<BlockCache, disk, req, answer, recent, spoiled>>

Sectors == 0 .. NSectors - 1
Buffers == 0 .. N - 1

initBlockCache ==
    BlockCache = [i \in Buffers |->
        [data |-> Junk, secno |-> 0, time |-> 0, occupied |-> FALSE, modified |-> FALSE]]

Init ==
    /\ initBlockCache
    /\ disk \in [Sectors -> Values]
    /\ req = [c \in Clients |-> NULL]
    /\ answer = Error
    /\ recent = {}
    /\ spoiled = {}

----------------------------------------------------------------------------
(* bcache_rw(): r is the request, r.secno the sector in question.          *)

Hit(i, s) == BlockCache[i].occupied /\ BlockCache[i].secno = s

Missing(s) == \A i \in Buffers : ~Hit(i, s)

FirstFree(i) ==
    /\ ~BlockCache[i].occupied
    /\ \A j \in 0 .. i - 1 : BlockCache[j].occupied

Mut_Victim(i) ==                    \* mutant: >= in place of >
    /\ \A j \in Buffers : BlockCache[j].occupied
    /\ \A j \in Buffers : BlockCache[j].time >= BlockCache[i].time

\* The variable max after the loop over all buffers.
Victim(i) ==
    /\ \A j \in Buffers : BlockCache[j].occupied
    /\ \A j \in Buffers : BlockCache[j].time <= BlockCache[i].time
    /\ \A j \in 0 .. i - 1 : BlockCache[j].time < BlockCache[i].time

\* update_time
Aged(bc) ==
    [i \in Buffers |-> IF bc[i].occupied THEN [bc[i] EXCEPT !.time = @ + 1] ELSE bc[i]]

\* The request is served from buffer b, which becomes the i-th one.
Serves(i, b, r) ==
    /\ BlockCache' = Aged([BlockCache EXCEPT ![i] =
                        [b EXCEPT !.time = 0, !.data = IF r.write THEN r.value ELSE @]])
    /\ \A j \in Buffers : BlockCache'[j].time <= MaxTime
    /\ answer' = IF r.write THEN r.value ELSE b.data
    /\ recent' = ({r.secno} \X Sectors) \cup {p \in recent : p[2] # r.secno}
    /\ spoiled' = IF r.write THEN spoiled \ {r.secno} ELSE spoiled

Fails == answer' = Error /\ UNCHANGED recent

ReadFails(r) == "read" \in Failures /\ Fails /\ spoiled' = spoiled \cup {r.secno}

WriteFails == "write" \in Failures /\ Fails /\ UNCHANGED spoiled

Mut_rwHit(r) ==                     \* mutant: does not mark the buffer as modified
    \E i \in Buffers :
        /\ Hit(i, r.secno)
        /\ Serves(i, BlockCache[i], r)
        /\ UNCHANGED disk

rwHit(r) ==
    \E i \in Buffers :
        /\ Hit(i, r.secno)
        /\ Serves(i, [BlockCache[i] EXCEPT !.modified = @ \/ r.write], r)
        /\ UNCHANGED disk

\* The buffer has its new sector number before the sector has been read, and
\* keeps it when the read fails.
rwFill(r) ==
    /\ Missing(r.secno)
    /\ \E i \in Buffers :
          LET b == [BlockCache[i] EXCEPT !.occupied = TRUE, !.secno = r.secno]
          IN  /\ FirstFree(i)
              /\ \/ Serves(i, [b EXCEPT !.data = disk[r.secno], !.modified = r.write], r)
                 \/ /\ BlockCache' = [BlockCache EXCEPT ![i] = b]
                    /\ ReadFails(r)
    /\ UNCHANGED disk

Mut_writtenBack(i) ==               \* mutant: modified buffers are dropped
    disk

writtenBack(i) ==
    IF BlockCache[i].modified THEN [disk EXCEPT ![BlockCache[i].secno] = BlockCache[i].data]
    ELSE disk

rwEvict(r) ==
    /\ Missing(r.secno)
    /\ \E i \in Buffers :
          LET b == [BlockCache[i] EXCEPT !.time = 0, !.secno = r.secno]
          IN  /\ Victim(i)
              /\ \/ /\ disk' = writtenBack(i)
                    /\ Serves(i, [b EXCEPT !.data = disk[r.secno], !.modified = r.write], r)
                 \/ /\ BlockCache[i].modified
                    /\ WriteFails /\ UNCHANGED <<disk, BlockCache>>
                 \/ /\ disk' = writtenBack(i)
                    /\ BlockCache' = [BlockCache EXCEPT ![i] = b]
                    /\ ReadFails(r)

bcache_rw(r) == rwHit(r) \/ rwFill(r) \/ rwEvict(r)

----------------------------------------------------------------------------
(* diskIO_BCache(): a bcache_rw() for each sector until one fails.         *)

\* One or two sectors; a write has the same value for each.
Requests ==
    {r \in [secno : Sectors, nsecs : 1 .. 2, write : BOOLEAN, value : Values \cup {Junk}] :
        r.secno + r.nsecs <= NSectors /\ (r.write <=> r.value \in Values)}

diskIO_BCache(c) ==
    /\ req[c] = NULL
    /\ \E r \in Requests : req' = [req EXCEPT ![c] = r]
    /\ UNCHANGED <<BlockCache, disk, answer, recent, spoiled>>

nextSector(r) == [r EXCEPT !.secno = @ + 1, !.nsecs = @ - 1]

OneBlock(c) ==
    /\ req[c] # NULL
    /\ bcache_rw(req[c])
    /\ req' = [req EXCEPT ![c] =
                  IF answer' = Error \/ @.nsecs = 1 THEN NULL
                  ELSE nextSector(@)]

----------------------------------------------------------------------------
(* sync_all_bcache() writes the modified buffers in turn and stops at the  *)
(* first failure; they stay marked as modified.                            *)

Mut_SyncedTo(k) ==                  \* mutant: the loop misses the last buffer
    [s \in Sectors |->
        IF \E i \in 0 .. k - 2 : Hit(i, s) /\ BlockCache[i].modified
          THEN BlockCache[CHOOSE i \in 0 .. k - 2 : Hit(i, s) /\ BlockCache[i].modified].data
          ELSE disk[s]]

\* The disk after the first k buffers.
SyncedTo(k) ==
    [s \in Sectors |->
        IF \E i \in 0 .. k - 1 : Hit(i, s) /\ BlockCache[i].modified
          THEN BlockCache[CHOOSE i \in 0 .. k - 1 : Hit(i, s) /\ BlockCache[i].modified].data
          ELSE disk[s]]

SyncSucceeds ==
    /\ disk' = SyncedTo(N)
    /\ UNCHANGED <<BlockCache, req, answer, recent, spoiled>>

SyncFails ==
    /\ "write" \in Failures
    /\ \E k \in Buffers :
          /\ BlockCache[k].occupied /\ BlockCache[k].modified
          /\ disk' = SyncedTo(k)
    /\ UNCHANGED <<BlockCache, req, answer, recent, spoiled>>

sync_all_bcache == SyncSucceeds \/ SyncFails

Next ==
    \/ sync_all_bcache
    \/ \E c \in Clients : diskIO_BCache(c) \/ OneBlock(c)

Spec == Init /\ [][Next]_vars

----------------------------------------------------------------------------
(* Properties.                                                             *)

\* The variables have their types; no free buffer counts as modified.
TypeOK ==
    /\ BlockCache \in [Buffers -> [data : Values \cup {Junk}, secno : Sectors,
                                   time : 0 .. MaxTime, occupied : BOOLEAN,
                                   modified : BOOLEAN]]
    /\ disk \in [Sectors -> Values]
    /\ req \in [Clients -> Requests \cup {NULL}]
    /\ answer \in Values \cup {Junk, Error}
    /\ recent \subseteq Sectors \X Sectors
    /\ spoiled \subseteq Sectors
    /\ \A i \in Buffers : BlockCache[i].modified => BlockCache[i].occupied

\* What a sector holds for the users of the cache.
Contents ==
    [s \in Sectors |-> IF Missing(s) THEN disk[s]
                       ELSE BlockCache[CHOOSE i \in Buffers : Hit(i, s)].data]

\* A sector is never in two buffers: one of them would be stale.  It holds
\* whatever fails.
OneBufferEach ==
    \A i, j \in Buffers :
        BlockCache[i].occupied /\ Hit(j, BlockCache[i].secno) => i = j

\* A buffer in use holds the data of its block and equals the disk unless it is
\* modified, except for a block whose read has failed: bcache_rw() leaves the
\* buffer marked as if the block had been loaded.
OccupiedHoldsBlock ==
    \A i \in Buffers :
        BlockCache[i].occupied /\ BlockCache[i].secno \notin spoiled =>
            /\ BlockCache[i].data \in Values
            /\ BlockCache[i].modified \/ BlockCache[i].data = disk[BlockCache[i].secno]

\* Whatever is read, written, replaced or fails, each sector has at most one
\* buffer, and that holds its data.
BuffersOK == TypeOK /\ OneBufferEach /\ OccupiedHoldsBlock

\* bcache.c calls its policy LRU: of the sectors in the cache, the one that
\* is replaced has not been used for longest.  Loads that failed count as no use.
ReplacesOldest ==
    \A i \in Buffers :
        /\ BlockCache[i].occupied
        /\ \A j \in Buffers : BlockCache[j].secno \notin spoiled
        /\ BlockCache'[i].secno # BlockCache[i].secno
        => \A j \in Buffers : <<BlockCache[j].secno, BlockCache[i].secno>> \in recent

EvictsOldest == [][ReplacesOldest]_vars

\* Through replacement, write-back, failed reads and writes and requests of
\* several clients the cache is a disk: a read gives what was last written, and
\* a failure harms no sector but the one whose read failed.
Store == INSTANCE BlockStore WITH
            content <- [s \in Sectors |-> IF s \in spoiled THEN NULL ELSE Contents[s]],
            Unknown <- NULL

ImplementsStore == Store!BSpec

\* A sync_all_bcache() that succeeds leaves nothing only in memory, after
\* failed ones too.
SyncWritesAll ==
    SyncSucceeds => \A s \in Sectors \ spoiled : disk'[s] = Contents[s]

SyncDurable == [][SyncWritesAll]_vars

=============================================================================
