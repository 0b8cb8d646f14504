-------------------------------- MODULE Fat ---------------------------------
(***************************************************************************)
(* The FAT volume of kern/fs/fat/fat_base.c as the inode layer of          *)
(* fat_inode.c uses it: the file allocation table, the root directory, and *)
(* the FATBase_FILE that the inode of each file holds for as long as the   *)
(* system runs.                                                            *)
(*                                                                         *)
(* The loops of a call are steps of their own: todo is the rest of the     *)
(* call in progress, and a new call starts when it is empty.  fatfs and    *)
(* inode locks and system calls that are not interrupted keep calls apart. *)
(*                                                                         *)
(* fat, dir and data are what is seen through the window of move_window()  *)
(* and the block cache.  Every access to the disk can fail; MaxFaults      *)
(* bounds how many do.                                                     *)
(*                                                                         *)
(* A byte is <<f, o>> when it was written as byte o of file f, or Junk.    *)
(***************************************************************************)
EXTENDS Integers, Sequences, FiniteSets, FiniteSetsExt

CONSTANTS
    Files,      \* the names in the root directory
    Existing,   \* the file that is on the disk when the volume is mounted
    max_clust,  \* the largest cluster number + 1
    sects_clust,\* sectors per cluster
    SS,         \* bytes per sector
    Slots,      \* directory entries per cluster
    Lengths,    \* the lengths of reads and writes
    Offsets,    \* the positions of seeks
    Cuts,       \* the lengths files are truncated to
    MaxSize,    \* bound: no write reaches beyond this offset
    MaxFaults,  \* bound: accesses to the disk that fail
    None        \* no directory entry, no inode

ASSUME VolumeAssumption ==
    /\ max_clust \in Nat /\ max_clust > 3
    /\ sects_clust \in 1 .. 128 /\ SS \in Nat \ {0} /\ Slots \in Nat \ {0}
ASSUME FilesAssumption == Existing \in Files /\ None \notin Files
ASSUME BoundsAssumption ==
    /\ MaxSize \in Nat /\ MaxFaults \in Nat
    /\ Lengths \subseteq 1 .. MaxSize /\ (Offsets \cup Cuts) \subseteq Nat

VARIABLES
    fat,        \* the link of each cluster: 0 is free, EOC ends a chain
    info,       \* last_clust and free_clust of the superblock
    dir,        \* the directory entry of each file, as its inode finds it
    data,       \* the sectors of the data area
    fp,         \* the FATBase_FILE of each file with an inode
    todo,       \* what is left of the call in progress
    faults,     \* the accesses that have failed: their number and what they left
    past        \* history: the bytes of each file that have been written, and
                \* whether sect_clust has been counted down from 0

vars == <<fat, info, dir, data, fp, todo, faults, past>>

Clusters == 2 .. max_clust - 1
EOC == max_clust            \* 0x0FFFFFFF
RootDir == 2                \* fs->dirbase
database == 100             \* the first sector of the data area
csize == sects_clust * SS
Junk == << >>
JunkSector == [i \in 0 .. SS - 1 |-> Junk]

clust2sect(c) == IF c \in Clusters THEN (c - 2) * sects_clust + database ELSE 0

Sectors == database .. database + (max_clust - 2) * sects_clust - 1

Link(c) == IF c \in Clusters THEN fat[c] ELSE c

\* The clusters from start on, 0 .. max_clust links far.
Follow(start) ==
    LET at[k \in 0 .. max_clust] == IF k = 0 THEN start ELSE Link(at[k - 1])
    IN  at

\* What the links lead to.
Reach(start) ==
    LET upTo[k \in 0 .. max_clust] ==
            IF k = 0 THEN {start} ELSE {start} \cup {Link(c) : c \in upTo[k - 1]}
    IN  upTo[max_clust]

Chain(start) == Reach(start) \cap Clusters

Init ==
    /\ fat = [c \in Clusters |-> IF c \in {RootDir, 3} THEN EOC ELSE 0]
    /\ info = [last |-> 0, free |-> max_clust - 4]
    /\ dir = [f \in Files |-> IF f = Existing THEN [start |-> 3, size |-> csize - 1]
                            ELSE None]
    /\ data = [s \in Sectors |-> [i \in 0 .. SS - 1 |->
                   LET o == (s - clust2sect(3)) * SS + i
                   IN  IF o \in 0 .. csize - 2 THEN <<Existing, o>> ELSE Junk]]
    /\ fp = [f \in Files |-> None]
    /\ todo = << >>
    /\ faults = [n |-> 0, lost |-> FALSE, half |-> {}]
    /\ past = [written |-> [f \in Files |-> IF f = Existing THEN 0 .. csize - 2 ELSE {}],
               wrapped |-> FALSE]

Works == UNCHANGED faults

\* An access fails.  The table is left with clusters that no chain reaches, if lost,
\* and the files of half with the number of a cluster that is free again.
FailsIn(lost, half) ==
    /\ faults.n < MaxFaults
    /\ faults' = [n |-> faults.n + 1, lost |-> faults.lost \/ lost,
                  half |-> faults.half \cup half]

Fails == FailsIn(FALSE, {})

----------------------------------------------------------------------------
(* The allocation table.                                                   *)

get_cluster(c) == IF c \in Clusters THEN fat[c] ELSE 1

Free == {c \in Clusters : fat[c] = 0}

\* The search of create_chain(), cyclic from scl + 1 on.
firstFree(scl) ==
    IF \E c \in Free : c > scl THEN Min({c \in Free : c > scl})
    ELSE IF Free # {} THEN Min(Free) ELSE 0

startPoint(c) ==
    IF c # 0 THEN c ELSE IF info.last \in Clusters \cup {1} THEN info.last ELSE 1

Unchanged(r) == [ret |-> r, fat |-> fat, info |-> info]

Mut_chained(c, n) ==                \* mutant: the new cluster is not marked as the end
    [fat EXCEPT ![n] = IF c = 0 THEN EOC ELSE 0, ![IF c = 0 THEN n ELSE c] = n]

\* The table once cluster n has been put behind c.
chained(c, n) == [k \in Clusters |-> IF k = n THEN EOC ELSE IF k = c THEN n ELSE fat[k]]

\* Stretches the chain that ends with c, or starts one if c is 0: the new
\* cluster, 0 when the disk is full, 1 for an error.
create_chain(c) ==
    LET n == firstFree(startPoint(c))
    IN  IF c # 0 /\ get_cluster(c) < 2 THEN Unchanged(1)
        ELSE IF c # 0 /\ get_cluster(c) < max_clust THEN Unchanged(get_cluster(c))
        ELSE IF n = 0 THEN Unchanged(0)
        ELSE [ret |-> n, fat |-> chained(c, n),
              info |-> [last |-> n, free |-> info.free - 1]]

\* It fails before it has changed anything, or with the new cluster marked
\* but not linked.
createFails(c) ==
    LET n == firstFree(startPoint(c))
    IN  {Unchanged(1)} \cup
        IF c # 0 /\ get_cluster(c) >= max_clust /\ n # 0
          THEN {[ret |-> 1, fat |-> [fat EXCEPT ![n] = EOC], info |-> info]} ELSE {}

CreateFails(c) ==
    \E o \in createFails(c) : FailsIn(o.fat # fat, {}) /\ fat' = o.fat /\ info' = o.info

----------------------------------------------------------------------------
(* The call in progress.                                                   *)

Call(name, f, n) == [call |-> name, f |-> f, n |-> n, at |-> FALSE]

Now(name) == todo # << >> /\ Head(todo).call = name

Arg == Head(todo)
File == fp[Arg.f]

Then(calls) == todo' = calls \o Tail(todo)

Return == Then(<< >>)

Update(p) == fp' = [fp EXCEPT ![Arg.f] = p]

\* fr_error, fw_error, fk_error, ft_error.  After FA__ERROR only fatbase_sync()
\* looks at the object: what it does not read is not followed.
Abort(p) ==
    /\ Update([p EXCEPT !.err = TRUE, !.fptr = 0, !.sect_clust = 0, !.curr_clust = 0,
                        !.curr_sect = IF p.dirty THEN @ ELSE 0,
                        !.buffer = IF p.dirty THEN @ ELSE JunkSector])
    /\ Return

\* FA__ERROR makes every call but fatbase_sync() return at once: here one that
\* follows an error in the middle of fat_truncate().
Refused ==
    /\ todo # << >> /\ Arg.call \notin {"remove", "close"} /\ ~Arg.at
    /\ File.err
    /\ Return
    /\ UNCHANGED <<fat, info, dir, data, fp, faults, past>>

\* A sector in the buffer of p goes to the disk, if it must.
flushed(p) ==
    IF p.dirty /\ p.curr_sect \in Sectors THEN [data EXCEPT ![p.curr_sect] = p.buffer]
    ELSE data

Boundary == File.fptr % SS = 0

\* What the buffer holds is of no more use.
stale(p) == [p EXCEPT !.buffer = JunkSector]

----------------------------------------------------------------------------
(* fatbase_read() and fatbase_write(): an iteration finds the sector, when *)
(* the pointer is at the start of one, and then moves bytes.               *)

Begins(name, f, n) ==
    /\ todo = << >>
    /\ fp[f] # None
    /\ todo' = IF fp[f].err THEN << >> ELSE <<Call(name, f, n)>>
    /\ UNCHANGED <<fat, info, dir, data, fp, faults, past>>

Remaining(f, n) == Min({n, fp[f].fsize - fp[f].fptr})

fatbase_read(f) == \E n \in Lengths : Begins("read", f, Remaining(f, n))

fatbase_write(f) ==
    \E n \in Lengths : Begins("write", f, n) /\ fp[f].fptr + n <= MaxSize

Locating == (Now("read") \/ Now("write")) /\ Arg.n > 0 /\ Boundary /\ ~Arg.at /\ ~File.err

\* --fp->sect_clust, a BYTE.
left == (File.sect_clust - 1) % 256

\* With the buffer written back, sect is the current sector of p.
Located(p, sect) ==
    \/ /\ Works
       /\ data' = flushed(File)
       /\ Update([stale(p) EXCEPT !.curr_sect = sect, !.dirty = FALSE])
       /\ Then(<<[Arg EXCEPT !.at = TRUE]>>)
    \/ /\ Fails /\ File.dirty
       /\ Abort(p) /\ UNCHANGED data

SectorFollows ==
    /\ Locating /\ left # 0
    /\ Located([File EXCEPT !.sect_clust = left], File.curr_sect + 1)
    /\ past' = [past EXCEPT !.wrapped = @ \/ File.sect_clust = 0]
    /\ UNCHANGED <<fat, info, dir>>

Mut_inCluster(p, c) ==              \* mutant: one sector too many in the counter
    [p EXCEPT !.sect_clust = sects_clust + 1, !.curr_clust = c]

inCluster(p, c) == [p EXCEPT !.sect_clust = sects_clust, !.curr_clust = c]

\* The next cluster of a read, as it stands in the table.
ReadCluster ==
    LET c == IF File.fptr = 0 THEN File.org ELSE get_cluster(File.curr_clust)
    IN  /\ Now("read") /\ Locating /\ left = 0
        /\ \/ c \in Clusters /\ Located(inCluster(File, c), clust2sect(c))
           \/ /\ (c \notin Clusters /\ Works) \/ Fails
              /\ Abort([File EXCEPT !.sect_clust = 0]) /\ UNCHANGED data
        /\ UNCHANGED <<fat, info, dir, past>>

\* The next cluster of a write is made if there is none.  A full disk ends
\* the loop, with nothing left of the cluster in sect_clust.
WriteCluster ==
    LET top == File.fptr = 0
        c == IF top THEN 0 ELSE File.curr_clust
        next == IF top /\ File.org # 0 THEN Unchanged(File.org) ELSE create_chain(c)
        p(n) == IF top THEN [File EXCEPT !.org = n] ELSE File
    IN  /\ Now("write") /\ Locating /\ left = 0
        /\ \/ /\ next.ret \in Clusters
              /\ Located(inCluster(p(next.ret), next.ret), clust2sect(next.ret))
              /\ fat' = next.fat /\ info' = next.info
           \/ /\ next.ret = 0 /\ Works
              /\ Update([p(0) EXCEPT !.sect_clust = 0])
              /\ Then(<<[Arg EXCEPT !.n = 0]>>)
              /\ UNCHANGED <<fat, info, data>>
           \/ /\ ~top \/ File.org = 0
              /\ CreateFails(c) /\ Abort([p(1) EXCEPT !.sect_clust = 0])
              /\ UNCHANGED data
        /\ UNCHANGED <<dir, past>>

Moving ==
    /\ Now("read") \/ Now("write")
    /\ Arg.n > 0 /\ (Arg.at \/ ~Boundary) /\ ~File.err

Mut_Part ==                         \* mutant: nothing is left of a sector at its start
    Min({(SS - (File.fptr % SS)) % SS, Arg.n})

\* Bytes moved through the buffer, and sectors moved past it.
Part == Min({SS - (File.fptr % SS), Arg.n})
Whole == IF Boundary THEN Min({Arg.n \div SS, File.sect_clust}) ELSE 0

Advance(p, n) ==
    /\ Update([p EXCEPT !.fptr = @ + n])
    /\ Then(<<[Arg EXCEPT !.n = @ - n, !.at = FALSE]>>)

passed(p) == [p EXCEPT !.sect_clust = @ - (Whole - 1), !.curr_sect = @ + Whole - 1]

\* The current sector of p is read, after the buffer has been written back.
Loaded(p) ==
    IF p.curr_sect \in Sectors THEN [p EXCEPT !.buffer = flushed(File)[p.curr_sect]] ELSE p

ReadMoves ==
    /\ Now("read") /\ Moving
    /\ \/ Works /\ IF Whole > 0 THEN Advance(passed(File), Whole * SS)
                   ELSE Advance(IF Boundary THEN Loaded(File) ELSE File, Part)
       \/ Fails /\ Boundary /\ Abort(File)
    /\ UNCHANGED <<fat, info, dir, data, past>>

\* Byte o of the file being written.
Byte(o) == <<Arg.f, o>>

\* The first k sectors of a direct write have reached the disk.
direct(k) ==
    [s \in Sectors |-> IF s \in File.curr_sect .. File.curr_sect + k - 1
        THEN [i \in 0 .. SS - 1 |-> Byte(File.fptr + (s - File.curr_sect) * SS + i)]
        ELSE data[s]]

Wrote(n) ==
    past' = [past EXCEPT !.written[Arg.f] = @ \cup File.fptr .. File.fptr + n - 1]

WriteDirect ==
    /\ Now("write") /\ Moving /\ Whole > 0
    /\ \/ /\ Works /\ data' = direct(Whole) /\ Wrote(Whole * SS)
          /\ Advance(passed(File), Whole * SS)
       \/ /\ Fails /\ \E k \in 0 .. Whole - 1 : data' = direct(k)
          /\ Abort(File) /\ UNCHANGED past
    /\ UNCHANGED <<fat, info, dir>>

Mut_filled(p) ==                    \* mutant: the buffer is not filled with the file's data
    p

\* What is in the sector behind the new bytes is kept.
filled(p) == IF Boundary /\ p.fptr < p.fsize THEN Loaded(p) ELSE p

WriteBuffer ==
    LET p == filled(File)
        i0 == File.fptr % SS
    IN  /\ Now("write") /\ Moving /\ Whole = 0
        /\ \/ /\ Works /\ Wrote(Part)
              /\ Advance([p EXCEPT !.dirty = TRUE, !.buffer = [i \in 0 .. SS - 1 |->
                     IF i \in i0 .. i0 + Part - 1 THEN Byte(File.fptr + i - i0) ELSE @[i]]],
                     Part)
           \/ /\ Fails /\ Boundary /\ File.fptr < File.fsize
              /\ Abort(File) /\ UNCHANGED past
        /\ UNCHANGED <<fat, info, dir, data>>

ReadEnds ==
    /\ Now("read") /\ Arg.n = 0 /\ ~File.err
    /\ Return
    /\ UNCHANGED <<fat, info, dir, data, fp, faults, past>>

Grown(p) == IF p.fptr > p.fsize THEN [p EXCEPT !.fsize = p.fptr, !.wrt = TRUE] ELSE p

WriteEnds ==
    /\ Now("write") /\ Arg.n = 0 /\ ~File.err
    /\ Update([Grown(File) EXCEPT !.wrt = TRUE]) /\ Return
    /\ UNCHANGED <<fat, info, dir, data, faults, past>>

----------------------------------------------------------------------------
(* fatbase_lseek(); the file is open for writing, so the chain is          *)
(* stretched to the new position.                                          *)

fatbase_lseek(f) == \E n \in Offsets : Begins("lseek", f, n)

\* file_seek() with LSEEK_END takes the size in the directory entry: an earlier
\* one if the object has not been written back.
SeekEnd(f) == fp[f] # None /\ ~fp[f].wrt /\ Begins("lseek", f, fp[f].fsize)

\* The last part, n bytes into the cluster that starts with sector sect.
SeekArrives(p, n, sect) ==
    LET csect == (n - 1) \div SS
        q == [p EXCEPT !.curr_sect = sect + csect, !.sect_clust = sects_clust - csect,
                       !.fptr = @ + n]
    IN  \/ /\ Works
           /\ Update(Grown(IF n % SS # 0 THEN Loaded(q) ELSE q)) /\ Return
        \/ Fails /\ n % SS # 0 /\ Abort([p EXCEPT !.curr_sect = sect + csect])

\* The loop over the leading clusters: n more bytes from the start of cluster c.
SeekFrom(p, c, n) ==
    LET q == [p EXCEPT !.curr_clust = c]
    IN  IF n <= csize THEN SeekArrives(q, n, clust2sect(c))
        ELSE Works /\ Update(q) /\ Then(<<[Arg EXCEPT !.n = n, !.at = TRUE]>>)

SeekBegins ==
    LET p == [stale(File) EXCEPT !.dirty = FALSE, !.fptr = 0, !.sect_clust = 1]
        o == IF p.org # 0 THEN Unchanged(p.org) ELSE create_chain(0)
    IN  /\ Now("lseek") /\ ~Arg.at /\ ~File.err
        /\ \/ /\ data' = flushed(File)
              /\ \/ Arg.n = 0 /\ Works /\ Update(p) /\ Return /\ UNCHANGED <<fat, info>>
                 \/ /\ Arg.n > 0 /\ fat' = o.fat /\ info' = o.info
                    /\ \/ o.ret \in Clusters /\ SeekFrom([p EXCEPT !.org = o.ret], o.ret, Arg.n)
                       \/ o.ret = 0 /\ Works /\ Update(p) /\ Return
                 \/ Arg.n > 0 /\ p.org = 0 /\ Fails /\ Abort(p) /\ UNCHANGED <<fat, info>>
           \/ /\ Fails /\ File.dirty
              /\ Abort(File) /\ UNCHANGED <<fat, info, data>>
        /\ UNCHANGED <<dir, past>>

\* One cluster is passed.  On a full disk the position is the end of the last
\* cluster, and curr_sect is made from cluster 0.
SeekFollows ==
    LET o == create_chain(File.curr_clust)
    IN  /\ Now("lseek") /\ Arg.at
        /\ \/ /\ o.ret \in Clusters /\ fat' = o.fat /\ info' = o.info
              /\ SeekFrom([File EXCEPT !.fptr = @ + csize], o.ret, Arg.n - csize)
           \/ o.ret = 0 /\ SeekArrives(File, csize, 0) /\ UNCHANGED <<fat, info>>
           \/ CreateFails(File.curr_clust) /\ Abort(File)
        /\ UNCHANGED <<dir, data, past>>

----------------------------------------------------------------------------
(* Truncation: fat_truncate() seeks, truncates and seeks back, and does    *)
(* not look at the results.                                                *)

fat_truncate(f, len) ==
    /\ todo = << >>
    /\ fp[f] # None /\ ~fp[f].err
    /\ todo' = <<Call("lseek", f, len)>>
               \o (IF len > fp[f].fsize THEN << >> ELSE <<Call("truncate", f, 0)>>)
               \o <<Call("lseek", f, fp[f].fptr)>>
    /\ UNCHANGED <<fat, info, dir, data, fp, faults, past>>

Mut_Remove(f, c, whole) ==          \* mutant: remove_chain() is not called
    [call |-> "remove", f |-> f, n |-> 0, at |-> whole]

Remove(f, c, whole) == [call |-> "remove", f |-> f, n |-> c, at |-> whole]

\* put_cluster(fs, fp->curr_clust, 0x0FFFFFFF)
cut(p) == [fat EXCEPT ![p.curr_clust] = EOC]

fatbase_truncate ==
    LET p == [File EXCEPT !.fsize = File.fptr, !.wrt = TRUE]
        next == get_cluster(File.curr_clust)
    IN  /\ Now("truncate") /\ ~File.err
        /\ \/ File.fsize <= File.fptr /\ Works /\ Return /\ UNCHANGED <<fat, fp, past>>
           \/ /\ File.fsize > File.fptr
              /\ past' = [past EXCEPT !.written[Arg.f] = @ \cap 0 .. File.fptr - 1]
              /\ \/ /\ File.fptr = 0 /\ Works
                    /\ Update(p) /\ Then(<<Remove(Arg.f, p.org, TRUE)>>) /\ UNCHANGED fat
                 \/ /\ File.fptr > 0 /\ next \in Clusters /\ Works
                    /\ fat' = cut(p) /\ Update(p) /\ Then(<<Remove(Arg.f, next, FALSE)>>)
                 \/ /\ File.fptr > 0 /\ next = EOC /\ Works
                    /\ Update(p) /\ Return /\ UNCHANGED fat
                 \/ File.fptr > 0 /\ Fails /\ Abort(p) /\ UNCHANGED fat
        /\ UNCHANGED <<info, dir, data>>

freed(i) == [i EXCEPT !.free = @ + 1]

\* remove_chain(), one cluster at a time, for an open file, or by fatbase_open()
\* for one that is created anew; what a free cluster holds is not followed.  When it
\* fails half-way through the whole chain, org_clust stays.
RemoveStep ==
    /\ Now("remove") /\ Arg.n \in Clusters
    /\ \/ /\ Works
          /\ fat' = [fat EXCEPT ![Arg.n] = 0] /\ info' = freed(info)
          /\ data' = [s \in Sectors |-> IF s - clust2sect(Arg.n) \in 0 .. sects_clust - 1
                                        THEN JunkSector ELSE data[s]]
          /\ Then(<<[Arg EXCEPT !.n = fat[Arg.n]]>>) /\ UNCHANGED fp
       \/ /\ IF Arg.at /\ Arg.n = File.org THEN Fails
             ELSE FailsIn(TRUE, IF Arg.at THEN {Arg.f} ELSE {})
          /\ UNCHANGED <<fat, info, data>>
          /\ IF File = None THEN todo' = << >> /\ UNCHANGED fp ELSE Abort(File)
    /\ UNCHANGED <<dir, past>>

RemoveEnds ==
    /\ Now("remove") /\ Arg.n \notin Clusters
    /\ IF Arg.at THEN Update([File EXCEPT !.org = 0]) ELSE UNCHANGED fp
    /\ Return
    /\ UNCHANGED <<fat, info, dir, data, faults, past>>

----------------------------------------------------------------------------
(* fatbase_sync(), for fat_sync() and when an inode is closed.  Nothing     *)
(* reads the directory entry of a file that has an inode, but fat_stat()   *)
(* for its size: dir does not follow it.                                   *)

\* A failure can only leave FA__WRITTEN set; it is not counted.
fatbase_sync(f) ==
    LET p == [fp[f] EXCEPT !.dirty = FALSE]
    IN  /\ todo = << >>
        /\ fp[f] # None /\ fp[f].wrt
        /\ data' = flushed(fp[f])
        /\ fp' \in {[fp EXCEPT ![f] = p], [fp EXCEPT ![f] = [p EXCEPT !.wrt = FALSE]]}
        /\ UNCHANGED <<fat, info, dir, todo, faults, past>>

----------------------------------------------------------------------------
(* fatbase_open(): by fat_find_inode() for a file on the disk, by          *)
(* fat_create() with FA_CREATE_ALWAYS for one that was not found.          *)

Opened(e) ==
    [org |-> e.start, fsize |-> e.size, fptr |-> 0, sect_clust |-> 1, curr_clust |-> 0,
     curr_sect |-> 0, err |-> FALSE, dirty |-> FALSE, wrt |-> FALSE,
     buffer |-> JunkSector]

\* make_dirfile() and trace_path() find the name in the root directory.
Found(f) == dir[f] # None

fat_find_inode(f) ==
    /\ todo = << >>
    /\ fp[f] = None /\ Found(f)
    /\ fp' = [fp EXCEPT ![f] = Opened(dir[f])]
    /\ UNCHANGED <<fat, info, dir, data, todo, faults, past>>

Capacity == Slots * Cardinality(Chain(RootDir))
Used == Cardinality({f \in Files : Found(f)})

Enter(f) == dir' = [dir EXCEPT ![f] = [start |-> 0, size |-> 0]]

\* The name is new.  reserve_direntry() takes the next entry of the directory,
\* which gets another cluster when it is full.
CreateNew(f) ==
    LET end == CHOOSE c \in Chain(RootDir) : fat[c] = EOC
        o == create_chain(end)
    IN  /\ todo = << >>
        /\ fp[f] = None /\ ~Found(f)
        /\ \/ Used < Capacity /\ Works /\ Enter(f) /\ UNCHANGED <<fat, info>>
           \/ /\ Used = Capacity /\ o.ret # 1 /\ fat' = o.fat /\ info' = o.info
              /\ \/ Works /\ IF o.ret = 0 THEN UNCHANGED dir ELSE Enter(f)
                 \/ Fails /\ o.ret # 0 /\ UNCHANGED dir      \* clearing the cluster
           \/ Used = Capacity /\ CreateFails(end) /\ UNCHANGED dir
        /\ UNCHANGED <<data, fp, todo, past>>

\* The look-up failed because the disk did, and the file is made empty.
CreateAgain(f) ==
    /\ todo = << >>
    /\ fp[f] = None /\ Found(f)
    /\ Fails
    /\ Enter(f)
    /\ todo' = <<Remove(f, dir[f].start, FALSE), Call("close", f, dir[f].start)>>
    /\ past' = [past EXCEPT !.written[f] = {}]
    /\ UNCHANGED <<fat, info, data, fp>>

\* fs->last_clust = rs - 1
CreateEnds ==
    /\ Now("close")
    /\ info' = [info EXCEPT !.last = Arg.n - 1]
    /\ Return
    /\ UNCHANGED <<fat, dir, data, fp, faults, past>>

----------------------------------------------------------------------------

Step ==
    \/ Refused
    \/ SectorFollows \/ ReadCluster \/ WriteCluster
    \/ ReadMoves \/ WriteDirect \/ WriteBuffer \/ ReadEnds \/ WriteEnds
    \/ SeekBegins \/ SeekFollows
    \/ fatbase_truncate \/ RemoveStep \/ RemoveEnds \/ CreateEnds

Next ==
    \/ Step
    \/ \E f \in Files :
          \/ fat_find_inode(f) \/ CreateNew(f) \/ CreateAgain(f)
          \/ fatbase_read(f) \/ fatbase_write(f) \/ fatbase_lseek(f) \/ SeekEnd(f)
          \/ \E len \in Cuts : fat_truncate(f, len)
          \/ fatbase_sync(f)

Spec == Init /\ [][Next]_vars

----------------------------------------------------------------------------
(* Properties.                                                             *)

Object ==
    [org : 0 .. max_clust, fsize : Nat, fptr : Nat,
     sect_clust : 0 .. 255, curr_clust : 0 .. max_clust, curr_sect : Nat,
     err : BOOLEAN, dirty : BOOLEAN, wrt : BOOLEAN,
     buffer : [0 .. SS - 1 -> (Files \X Nat) \cup {Junk}]]

\* The variables have their types.
TypeOK ==
    /\ fat \in [Clusters -> {0, EOC} \cup Clusters]
    /\ info.last \in -1 .. max_clust /\ info.free \in 0 .. max_clust
    /\ \A f \in Files : dir[f] = None \/ dir[f] \in [start : Nat, size : Nat]
    /\ \A f \in Files : fp[f] = None \/ fp[f] \in Object
    /\ DOMAIN data = Sectors
    /\ faults \in [n : 0 .. MaxFaults, lost : BOOLEAN, half : SUBSET Files]
    /\ past \in [written : [Files -> SUBSET Nat], wrapped : BOOLEAN]

\* A file with an inode and no FA__ERROR.
Good(f) == fp[f] # None /\ ~fp[f].err

\* The chain of a file: from its object while it has one.
Start(f) == IF fp[f] # None THEN fp[f].org ELSE IF dir[f] = None THEN 0 ELSE dir[f].start

Ends(start) == EOC \in Reach(start)

\* The chain of the file is being taken apart.
Removing(f) == Now("remove") /\ Arg.f = f /\ Arg.at

\* All files, those with FA__ERROR too, whose directory entries fatbase_sync() still
\* writes, but a file whose removal failed half-way.
Owners == {f \in Files \ faults.half : ~Removing(f)}

\* Chains end, without a cycle or a free cluster in them, and no two of them have a
\* cluster in common, the root directory's included: create_chain() and
\* remove_chain() on behalf of one file never touch another, however full the disk
\* is and whatever fails.  The one exception is a file whose truncation to nothing
\* fails half-way through remove_chain(): its org_clust, and the directory entry
\* once it is synced, name a free cluster, which another file may get.  A file that
\* could not get its first cluster has org_clust 1.
ChainsSeparate ==
    /\ Ends(RootDir)
    /\ \A f \in {g \in Owners : Start(g) \notin {0, 1}} :
          LET own == Chain(Start(f))
          IN  /\ Ends(Start(f)) /\ RootDir \notin own
              /\ \A g \in Owners \ {f} : own \cap Chain(Start(g)) = {}

\* Every cluster that is not free can be reached, so that truncation and the
\* re-creation of a file whose look-up failed give back all they should: unless an
\* access failed in create_chain() with the new cluster marked and not linked, or in
\* remove_chain() with a part of the chain cut off.
NoneLost ==
    ~faults.lost /\ ~past.wrapped /\ todo = << >> =>
        Clusters \ Free = Chain(RootDir) \cup UNION {Chain(Start(f)) : f \in Files}

\* free_clust, which goes to the FSInfo sector, is the number of free clusters; a
\* failed access, in create_chain(), makes it at most one too many.
FreeCountExact == info.free - Cardinality(Free) \in 0 .. faults.n

\* The allocation table is in order after every step, failed ones included, until
\* sect_clust is counted down from 0: the writes that follow can hit any sector.
VolumeOK == TypeOK /\ (~past.wrapped => ChainsSeparate /\ FreeCountExact)

\* Between calls the current cluster, sector and sector counter belong to the
\* file pointer, after every mixture of reads, writes, seeks and truncations;
\* and the file has the clusters for its size.  A disk that was full can leave
\* the counter at 0 and the sector wrong: this holds until the counter is counted
\* down from there.
PositionExact ==
    \A f \in Files : Good(f) /\ todo = << >> /\ ~past.wrapped =>
        LET p == fp[f]
            k == (p.fptr - 1) \div SS
        IN  /\ p.fsize <= csize * Cardinality(Chain(p.org))
            /\ p.fptr <= p.fsize
            /\ p.fptr = 0 => p.sect_clust \in {0, 1}
            /\ p.fptr > 0 =>
                  /\ p.curr_clust = Follow(p.org)[k \div sects_clust]
                  /\ p.fptr % csize # 0 =>
                        /\ p.curr_sect = clust2sect(p.curr_clust) + (k % sects_clust)
                        /\ p.sect_clust = sects_clust - (k % sects_clust)
                  /\ p.fptr % csize = 0 => p.sect_clust \in {0, 1}

\* Byte o of file f, from the disk or the buffer of the file.
ByteAt(f, o) ==
    LET p == fp[f]
        s == clust2sect(Follow(p.org)[o \div csize]) + (o % csize) \div SS
    IN  IF p.dirty /\ p.curr_sect = s THEN p.buffer[o % SS] ELSE data[s][o % SS]

\* What has been written is in the file until it is truncated, and is what a
\* read at the file pointer gets out of the buffer: no write is lost between the
\* buffer and the disk, and none hits another place or another file, until
\* sect_clust is counted down from the 0 that a full disk leaves.
ContentKept ==
    \A f \in Files : Good(f) /\ todo = << >> /\ ~past.wrapped =>
        /\ \A o \in past.written[f] : o < fp[f].fsize /\ ByteAt(f, o) = <<f, o>>
        /\ fp[f].fptr % SS # 0 /\ fp[f].fptr - 1 \in past.written[f] =>
              fp[f].buffer[(fp[f].fptr - 1) % SS] = <<f, fp[f].fptr - 1>>

\* fat_base.h calls sect_clust the sectors left in the cluster: a write never
\* goes to a sector outside the clusters of its file.
WritesStayInside ==
    Now("write") /\ Moving =>
        \E c \in Chain(File.org) : File.curr_sect - clust2sect(c) \in 0 .. sects_clust - 1

\* What is left of a call: bytes, clusters, and the calls that follow it.
Left(c) ==
    CASE c.call = "truncate" -> max_clust + 2
      [] c.call = "remove"   -> Cardinality(Chain(c.n)) + 1
      [] OTHER               -> 2 * c.n + (IF c.at THEN 1 ELSE 2)

AllLeft == MapThenSumSet(LAMBDA i : Left(todo[i]), DOMAIN todo)

\* Every step of a call leaves less of it, so that the call ends: no loop over
\* bytes, sectors or clusters stays where it is, and no chain that is followed
\* runs into itself.
CallsAdvance == [][todo # << >> /\ ~past.wrapped => AllLeft' < AllLeft]_vars

=============================================================================
