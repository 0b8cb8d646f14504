------------------------------- MODULE Files --------------------------------
(***************************************************************************)
(* Open files: the descriptors of each process (kern/fs/file.c), the       *)
(* system calls on them (kern/fs/sysfile.c), the VFS operations below      *)
(* (kern/fs/vfs), and the inodes of the devices and of the FAT volume      *)
(* (kern/fs/fat/fat_inode.c) that all processes share.                     *)
(*                                                                         *)
(* A path is the inode it leads to: a file of the volume, its root         *)
(* directory, or a device; one spelling for each file.  FAT files are seen *)
(* by their sizes and positions; module Fat has what is below them.  An    *)
(* operation whose disk access can fail has a set of outcomes.             *)
(*                                                                         *)
(* System calls run with interrupts masked, so that only a process that    *)
(* waits for a key leaves the processor to another one inside a call.      *)
(* The counts ref and open_count, which nothing reads, are left out.       *)
(***************************************************************************)
EXTENDS Integers, Sequences, FiniteSets, FiniteSetsExt, SequencesExt

CONSTANTS
    Procs, first,           \* processes, and the one init makes
    Files,                  \* the names of files on the volume
    root, stdin, stdout,    \* the other inodes
    OpenFlags,              \* the flags open is called with
    Lengths, Offsets,       \* arguments of read and write, and of seek
    IOBUF_SIZE,
    Capacity,               \* bytes a file has clusters for when the disk is full
    MaxFds, MaxOpen, MaxPos,\* bounds: descriptors, open counts in total, positions,
    MaxSize,                \* and how far a write goes on when the disk is full
    None                    \* no process, no file, no inode, no call

ASSUME FilesAssumption ==
    /\ IsFiniteSet(Procs) /\ IsFiniteSet(Files) /\ first \in Procs
    /\ {root, stdin, stdout} \cap Files = {} /\ None \notin Procs \cup Files
ASSUME FlagsAssumption ==
    OpenFlags \subseteq [mode : {"READ", "WRITE", "RW"},
                         and : SUBSET {"CREATE", "EXIST", "TRUNC"}]
ASSUME BoundsAssumption ==
    /\ {IOBUF_SIZE, Capacity, MaxFds, MaxOpen, MaxPos, MaxSize} \subseteq Nat \ {0}
    /\ Lengths \subseteq Nat \ {0} /\ Offsets \subseteq Int

VARIABLES
    size,       \* file size in the directory entry of each name
    inode,      \* the inodes in memory
    files,      \* the FileStruct_t of each process
    call        \* the call each process is in, when it takes several steps

vars == <<size, inode, files, call>>

Inodes == Files \cup {root, stdin, stdout}

\* An inode with the FATBase_FILE of a file, a File_t, a FileStruct_t, and the
\* local variables of a read, a write or an exec.  full: sect_clust no longer
\* counts the sectors left in the cluster, after a write that filled the disk.
INode == [open : 0 .. MaxOpen, fptr : Nat, fsize : Nat,
          wrt : BOOLEAN, full : BOOLEAN, err : BOOLEAN]
File_t == [fd : 0 .. MaxFds, i : Inodes, pos : Int, rights : SUBSET {"r", "w"}]
FileStruct_t == [list : Seq(File_t), next : 0 .. MaxFds, exited : BOOLEAN]
Rw == [op : {"read", "write"}, i : Inodes, fd : 0 .. MaxFds, left : Nat,
       copied : Int, start : Int]
Execve == [op : {"closeall", "load", "loaded"}, i : Inodes]

ASSUME NoneAssumption == None \notin Nat \cup INode \cup FileStruct_t \cup Rw \cup Execve

\* The operation tables of the inodes.
HasRead == Files \cup {stdin}
HasWrite == Files \cup {stdout}
HasSync == Files
HasLseek == Files
HasTruncate == Files

NewInode(n) == [open |-> 0, fptr |-> 0, fsize |-> n,
                wrt |-> FALSE, full |-> FALSE, err |-> FALSE]

NewFiles == [list |-> << >>, next |-> 0, exited |-> FALSE]

Init ==
    /\ size \in [Files -> {None, 1}]
    /\ inode = [i \in Inodes |-> IF i \in Files THEN None ELSE NewInode(0)]
    /\ files = [p \in Procs |-> IF p = first THEN NewFiles ELSE None]
    /\ call = [p \in Procs |-> None]

----------------------------------------------------------------------------
(* The inode of a FAT file.  n is the inode, s the size in its directory   *)
(* entry; an outcome of an operation is a pair of them.                    *)

\* The position after fatbase_lseek(): the offset is taken as unsigned, and
\* the file grows up to it or until the disk is full.
reached(ofs) == IF ofs \in 0 .. Capacity THEN ofs ELSE Capacity

moved(n, to) ==
    [n EXCEPT !.fptr = to, !.fsize = Max({@, to}), !.wrt = @ \/ to > n.fsize]

\* FA__ERROR: no operation looks at sect_clust again.
failed(n) == [n EXCEPT !.err = TRUE, !.full = FALSE]

\* fatbase_lseek() sets sect_clust anew.
sought(n, ofs) == [moved(n, reached(ofs)) EXCEPT !.full = FALSE]

fat_lseek(n, ofs) ==
    IF n.err THEN {n} ELSE {sought(n, ofs), failed(n)}

\* Seek to 0, cut, and seek back to where it was, which grows the file again.
fat_truncate(n) ==
    LET cut == [n EXCEPT !.fsize = 0, !.fptr = 0, !.wrt = @ \/ n.fsize > 0]
    IN  IF n.err THEN {n} ELSE {sought(cut, n.fptr), failed(n), failed(cut)}

\* Failing, it has written the size or not.
fat_sync(n, s) ==
    {<<n, s>>} \cup IF n.wrt THEN {<<[n EXCEPT !.wrt = FALSE], n.fsize>>} ELSE {}

----------------------------------------------------------------------------
(* Lookup, open and close in the VFS.                                      *)

\* What fat_find_inode() can return for a file: the inode in the list, or one
\* made from the directory entry, or none, also if the disk cannot be read.
fat_find_inode(n, s) ==
    IF n # None THEN {n} ELSE IF s = None THEN {None} ELSE {NewInode(s), None}

\* fat_create() reports no failure; it leaves an empty file if it succeeds, and
\* what was there, or an empty file, if not.
fat_create(s) == {0, s}

Opening(n) == [n EXCEPT !.open = @ + 1]

\* iop_open of all inodes succeeds; then the file is truncated.  Without that
\* operation the call fails, and the count stays raised.
OpenInode(i, n, s, flags) ==
    LET o == Opening(n)
    IN  IF flags.and \cap {"CREATE", "TRUNC"} = {} THEN {[ok |-> TRUE, n |-> o, s |-> s]}
        ELSE IF i \notin HasTruncate THEN {[ok |-> FALSE, n |-> o, s |-> s]}
        ELSE {[ok |-> TRUE, n |-> m, s |-> s] : m \in fat_truncate(o)}

Refused(n, s) == [ok |-> FALSE, n |-> n, s |-> s]

Mut_Found(i, n, s, flags) ==    \* mutant: CREATE makes the file also if it is there
    IF "CREATE" \in flags.and THEN OpenInode(i, n, 0, flags)
    ELSE OpenInode(i, n, s, flags)

Found(i, n, s, flags) ==
    IF {"CREATE", "EXIST"} \subseteq flags.and THEN {Refused(n, s)}
    ELSE OpenInode(i, n, s, flags)

\* Not found: made, and looked up again.
Created(i, s, flags) ==
    UNION {UNION {IF m = None THEN {Refused(None, t)} ELSE OpenInode(i, m, t, flags) :
                    m \in fat_find_inode(None, t)} : t \in fat_create(s)}

sizeOf(i) == IF i \in Files THEN size[i] ELSE None

fat_lookup(i) == fat_find_inode(inode[i], size[i])

\* The inode of a device, or of the root directory of the volume.
vdev_get_root_inode(i) == inode[i]

vfs_lookup(i) == IF i \in Files THEN fat_lookup(i) ELSE {vdev_get_root_inode(i)}

vfs_open(i, flags) ==
    UNION {IF m # None THEN Found(i, m, sizeOf(i), flags)
           ELSE IF "CREATE" \in flags.and THEN Created(i, sizeOf(i), flags)
           ELSE {Refused(None, sizeOf(i))} : m \in vfs_lookup(i)}

Mut_Closing(n) == [n EXCEPT !.open = 0]     \* mutant: the last user, always

Closing(n) == [n EXCEPT !.open = @ - 1]

\* The inode i becomes n, and the directory entry's size s.
Store(i, n, s) ==
    /\ inode' = [inode EXCEPT ![i] = n]
    /\ size' = IF i \in Files THEN [size EXCEPT ![i] = s] ELSE size

\* Without a sync operation the inode is not closed.
vfs_close(i) ==
    IF i \notin HasSync THEN UNCHANGED <<size, inode>>
    ELSE \E o \in fat_sync(inode[i], size[i]) : Store(i, Closing(o[1]), o[2])

----------------------------------------------------------------------------
(* The descriptors of a process.                                           *)

List(p) == files[p].list

Index(p, fd) == {k \in DOMAIN List(p) : List(p)[k].fd = fd}

\* find_file_with_fd(): the first one, if any.
At(p, fd) == Min(Index(p, fd))

Fds(p) == {List(p)[k].fd : k \in DOMAIN List(p)}

TheFile(p, fd) == List(p)[At(p, fd)]

Waiting(q) == IF call[q] = None THEN FALSE ELSE call[q].op = "read" /\ call[q].i = stdin

Running(p) ==
    /\ files[p] # None /\ ~files[p].exited
    /\ \A q \in Procs \ {p} : call[q] = None \/ Waiting(q)

Calls(p) == Running(p) /\ call[p] = None

\* OPEN_MASK covers the other flags too: with one of them no mode is recognised.
Rights(flags) ==
    IF flags.and # {} THEN {}
    ELSE CASE flags.mode = "READ" -> {"r"} [] flags.mode = "WRITE" -> {"w"}
           [] flags.mode = "RW" -> {"r", "w"}

\* The File_t of an inode that the process has open is used again.
fileOpened(fs, i, flags) ==
    LET same == {k \in DOMAIN fs.list : fs.list[k].i = i}
        file(fd) == [fd |-> fd, i |-> i, pos |-> 0, rights |-> Rights(flags)]
    IN  IF same # {}
          THEN [fs EXCEPT !.list[Min(same)] = file(fs.list[Min(same)].fd)]
          ELSE [fs EXCEPT !.list = <<file(fs.next)>> \o @, !.next = @ + 1]

opens(i) == IF inode[i] = None THEN 0 ELSE inode[i].open

\* The bound on what can still be opened: the open counts of all inodes.
MayOpen(n) ==
    Cardinality({o \in Inodes \X (1 .. MaxOpen) : o[2] <= opens(o[1])}) + n <= MaxOpen

file_open(p, i, flags, o) ==
    /\ Store(i, o.n, o.s)
    /\ files' = IF o.ok THEN [files EXCEPT ![p] = fileOpened(@, i, flags)] ELSE files

sys_open(p, i, flags) ==
    /\ Calls(p) /\ MayOpen(1) /\ files[p].next < MaxFds
    /\ \E o \in vfs_open(i, flags) : file_open(p, i, flags, o)
    /\ UNCHANGED call

closed(fs, k) == [fs EXCEPT !.list = RemoveAt(@, k)]

file_close(p, fd) ==
    /\ vfs_close(TheFile(p, fd).i)
    /\ files' = [files EXCEPT ![p] = closed(@, At(p, fd))]

sys_close(p, fd) ==
    /\ Calls(p) /\ fd \in Fds(p)
    /\ file_close(p, fd)
    /\ UNCHANGED call

sys_fsync(p, fd) ==
    LET i == TheFile(p, fd).i
    IN  /\ Calls(p) /\ fd \in Fds(p) /\ i \in HasSync
        /\ \E o \in fat_sync(inode[i], size[i]) : Store(i, o[1], o[2])
        /\ UNCHANGED <<files, call>>

\* LSEEK_CUR goes from the descriptor's own position, LSEEK_END from the size in
\* the directory entry, as fat_stat() reads it.
Target(p, fd, ofs, flag) ==
    LET file == TheFile(p, fd)
    IN  CASE flag = "SET" -> ofs [] flag = "CUR" -> file.pos + ofs
          [] flag = "END" -> size[file.i] + ofs

file_seek(p, fd, ofs, flag) ==
    LET i == TheFile(p, fd).i
        to == Target(p, fd, ofs, flag)
    IN  /\ Calls(p) /\ fd \in Fds(p) /\ i \in HasLseek /\ to <= MaxPos
        /\ \E n \in fat_lseek(inode[i], to) :
             /\ inode' = [inode EXCEPT ![i] = n]
             /\ files' = IF n.err THEN files
                         ELSE [files EXCEPT ![p].list[At(p, fd)].pos = to]
        /\ UNCHANGED <<size, call>>

----------------------------------------------------------------------------
(* read and write: one piece of at most IOBUF_SIZE bytes after the other.  *)

\* copied is what the call will return, start the inode's position when it begins,
\* later moved on by what was read and could not be copied.
RwCall(op, i, fd, len) ==
    [op |-> op, i |-> i, fd |-> fd, left |-> len, copied |-> 0,
     start |-> inode[i].fptr]

RwBegins(p, op, right, fd, len) ==
    /\ Calls(p) /\ fd \in Fds(p) /\ right \in TheFile(p, fd).rights
    /\ TheFile(p, fd).pos + len + IOBUF_SIZE <= MaxPos
    /\ call' = [call EXCEPT ![p] = RwCall(op, TheFile(p, fd).i, fd, len)]
    /\ UNCHANGED <<size, inode, files>>

sysfile_read(p, fd, len) == RwBegins(p, "read", "r", fd, len)

sysfile_write(p, fd, len) == RwBegins(p, "write", "w", fd, len)

InRw(p) == Running(p) /\ call[p] # None /\ call[p].op \in {"read", "write"}

alen(p) == Min({IOBUF_SIZE, call[p].left})

\* The bytes that fatbase_read() and fatbase_write() get through.  A write that
\* finds the disk full leaves sect_clust 0; counting it down once more, the next
\* one may go on behind the last cluster of the file.
through(p) ==
    LET n == inode[call[p].i]
        end == IF call[p].op = "read" THEN n.fsize ELSE Capacity
    IN  {Max({0, Min({alen(p), end - n.fptr})})}
        \cup IF call[p].op = "write" /\ n.full /\ n.fptr + alen(p) <= MaxSize
                 THEN {alen(p)} ELSE {}

Mut_Counted(p, n, last) ==     \* mutant: the piece asked for is counted
    call' = [call EXCEPT ![p].copied = @ + alen(p),
                         ![p].left = IF last THEN 0 ELSE @ - alen(p)]

\* The piece is done: n bytes count, and the call ends if last.
Counted(p, n, last) ==
    call' = [call EXCEPT ![p].copied = @ + n, ![p].left = IF last THEN 0 ELSE @ - n]

Mut_atEnd(k) == FALSE              \* mutant: goes on at the end of the file

\* Nothing gets through at the end of the file, or when the disk is full.
atEnd(k) == k = 0

\* k of len bytes further; a write marks the inode.
advanced(n, k, op, len) ==
    [moved(n, n.fptr + k) EXCEPT !.wrt = @ \/ op = "write",
                                 !.full = @ \/ (op = "write" /\ k < len)]

RwPiece(p) ==
    LET i == call[p].i
        n == inode[i]
    IN  /\ InRw(p) /\ call[p].left > 0 /\ i \in Files /\ ~n.err
        /\ \E k \in through(p) :
              /\ inode' = [inode EXCEPT ![i] = advanced(n, k, call[p].op, alen(p))]
              /\ Counted(p, k, atEnd(k))
        /\ files' = [files EXCEPT ![p].list[At(p, call[p].fd)].pos = @ + alen(p)]
        /\ UNCHANGED size

Ended(p) == call' = [call EXCEPT ![p] = None]

\* copyFromUser() or copyToUser() cannot reach the buffer.  A write ends; a read
\* goes on behind the piece that is lost, with as much to read as before.
CopyFails(p) ==
    LET i == call[p].i
    IN  /\ InRw(p) /\ call[p].left > 0
        /\ \/ call[p].op = "write" /\ Ended(p) /\ UNCHANGED <<inode, files>>
           \/ /\ call[p].op = "read" /\ i \in Files /\ ~inode[i].err
              /\ \E k \in through(p) :
                    /\ k > 0
                    /\ inode' = [inode EXCEPT ![i] = moved(@, @.fptr + k)]
                    /\ call' = [call EXCEPT ![p].start = @ + k]
              /\ files' = [files EXCEPT ![p].list[At(p, call[p].fd)].pos = @ + alen(p)]
        /\ UNCHANGED size

\* The disk fails, or has failed for this file before, or the inode has no such
\* operation: the call ends.  file_read() and file_write() do not set the count
\* then, so that it returns as if the whole piece had got through.
RwFails(p) ==
    LET i == call[p].i
    IN  /\ InRw(p) /\ call[p].left > 0
        /\ i \in Files \/ i \notin IF call[p].op = "read" THEN HasRead ELSE HasWrite
        /\ i \in Files => inode[i].err \/ \E k \in through(p) : k > 0
        /\ inode' = IF i \in Files THEN [inode EXCEPT ![i] = failed(@)] ELSE inode
        /\ Ended(p)
        /\ UNCHANGED <<size, files>>

\* The keys of a piece have come.  The device's read returns their number, which
\* file_read() takes for an error: the piece is counted and the call ends.
StdinRead(p) ==
    /\ InRw(p) /\ Waiting(p)
    /\ Ended(p)
    /\ UNCHANGED <<size, inode, files>>

\* The device's write takes the piece and leaves the count 0, which ends the call.
\* Nothing reads the position that the descriptor of a device has.
StdoutWrite(p) ==
    /\ InRw(p) /\ call[p].i = stdout /\ call[p].op = "write"
    /\ Ended(p)
    /\ UNCHANGED <<size, inode, files>>

RwReturns(p) ==
    /\ InRw(p) /\ call[p].left = 0
    /\ Ended(p)
    /\ UNCHANGED <<size, inode, files>>

----------------------------------------------------------------------------
(* fork, exec and exit.                                                    *)

\* How often each inode is in the list.
uses(list, i) == Cardinality({k \in DOMAIN list : list[k].i = i})

\* file_dup() of all files of p.
Raised(p) ==
    [i \in Inodes |-> IF uses(List(p), i) = 0 THEN inode[i]
                      ELSE [inode[i] EXCEPT !.open = @ + uses(List(p), i)]]

\* listAdd() puts each copy in front of the ones before.
files_dup(p) == [NewFiles EXCEPT !.list = Reverse(List(p)), !.next = files[p].next]

sys_fork(p, c) ==
    /\ Calls(p) /\ files[c] = None /\ MayOpen(Len(List(p)))
    /\ files' = [files EXCEPT ![c] = files_dup(p)]
    /\ inode' = Raised(p)
    /\ UNCHANGED <<size, call>>

\* The address space cannot be copied: files_destroy() closes nothing.
ForkFails(p) ==
    /\ Calls(p) /\ MayOpen(Len(List(p))) /\ List(p) # << >>
    /\ inode' = Raised(p)
    /\ UNCHANGED <<size, files, call>>

\* The descriptors of a process that exits stay in memory, where nothing reaches
\* them, and their inodes open.
Exited == [NewFiles EXCEPT !.exited = TRUE]

exited(p) == files' = [files EXCEPT ![p] = Exited]

do_exit(p) == Calls(p) /\ exited(p) /\ UNCHANGED <<size, inode, call>>

Exec(i, at) == [op |-> at, i |-> i]

In(p, at) == Running(p) /\ call[p] # None /\ call[p].op = at

do_execve(p, i) ==
    /\ Calls(p) /\ MayOpen(1) /\ files[p].next < MaxFds
    /\ call' = [call EXCEPT ![p] = Exec(i, "closeall")]
    /\ UNCHANGED <<size, inode, files>>

\* The next file of files_closeall(): synced, and its inode not closed.
files_closeall(p) ==
    /\ In(p, "closeall") /\ List(p) # << >>
    /\ LET i == Head(List(p)).i
       IN  IF i \notin HasSync THEN UNCHANGED <<size, inode>>
           ELSE \E o \in fat_sync(inode[i], size[i]) : Store(i, o[1], o[2])
    /\ files' = [files EXCEPT ![p].list = Tail(@)]
    /\ UNCHANGED call

ReadOnly == [mode |-> "READ", and |-> {}]

ExecOpens(p) ==
    LET i == call[p].i
    IN  /\ In(p, "closeall") /\ List(p) = << >>
        /\ \E o \in vfs_open(i, ReadOnly) :
             /\ Store(i, o.n, o.s)
             /\ files' = [files EXCEPT ![p] =
                            IF o.ok THEN fileOpened(@, i, ReadOnly)
                            ELSE Exited]
             /\ call' = [call EXCEPT ![p] = IF o.ok THEN Exec(i, "load") ELSE None]

\* load_icode() seeks and reads; a file it cannot load ends the process.  The
\* last of the reads may have failed unnoticed.
ExecLoads(p) ==
    LET i == call[p].i
    IN  /\ In(p, "load") /\ i \in Files /\ ~inode[i].err
        /\ \E to \in 0 .. Min({inode[i].fsize, Capacity}), err \in BOOLEAN :
              inode' = [inode EXCEPT ![i].fptr = to, ![i].full = FALSE, ![i].err = err]
        /\ call' = [call EXCEPT ![p].op = "loaded"]
        /\ UNCHANGED <<size, files>>

ExecFails(p) ==
    LET i == call[p].i
    IN  /\ In(p, "load")
        /\ IF i \notin Files THEN UNCHANGED inode
           ELSE \E to \in 0 .. Capacity : \E n \in fat_lseek(inode[i], to) :
                  inode' = [inode EXCEPT ![i] = n]
        /\ Ended(p)
        /\ exited(p)
        /\ UNCHANGED size

ExecCloses(p) ==
    /\ In(p, "loaded")
    /\ file_close(p, Head(List(p)).fd)
    /\ Ended(p)

----------------------------------------------------------------------------
RwStep(p) == RwPiece(p) \/ CopyFails(p) \/ RwFails(p) \/ StdoutWrite(p) \/ RwReturns(p)

ExecStep(p) ==
    files_closeall(p) \/ ExecOpens(p) \/ ExecLoads(p) \/ ExecFails(p) \/ ExecCloses(p)

FileCall(p) ==
    \/ \E i \in Inodes, flags \in OpenFlags : sys_open(p, i, flags)
    \/ \E fd \in 0 .. MaxFds : sys_close(p, fd) \/ sys_fsync(p, fd)
    \/ \E fd \in 0 .. MaxFds, ofs \in Offsets, flag \in {"SET", "CUR", "END"} :
          file_seek(p, fd, ofs, flag)
    \/ \E fd \in 0 .. MaxFds, len \in Lengths : sysfile_read(p, fd, len)
    \/ \E fd \in 0 .. MaxFds, len \in Lengths : sysfile_write(p, fd, len)

TaskCall(p) ==
    \/ \E c \in Procs : sys_fork(p, c)
    \/ \E i \in Inodes : do_execve(p, i)
    \/ ForkFails(p)
    \/ do_exit(p)

Next ==
    \E p \in Procs : FileCall(p) \/ TaskCall(p) \/ RwStep(p) \/ ExecStep(p) \/ StdinRead(p)

\* A call that has begun runs, with interrupts masked, to its end.
Spec == Init /\ [][Next]_vars /\ \A p \in Procs : WF_vars(RwStep(p) \/ ExecStep(p))

----------------------------------------------------------------------------
(* Properties.                                                             *)

\* Every variable has its type, and the position of a file that works is inside
\* the file: what FATBase_FILE, File_t and FileStruct_t can hold.
TypeOK ==
    /\ size \in [Files -> Nat \cup {None}]
    /\ inode \in [Inodes -> INode \cup {None}]
    /\ files \in [Procs -> FileStruct_t \cup {None}]
    /\ call \in [Procs -> Rw \cup Execve \cup {None}]
    /\ \A i \in Inodes : inode[i] # None /\ ~inode[i].err => inode[i].fptr <= inode[i].fsize
    /\ \A p \in Procs : files[p] # None =>
          \A k \in DOMAIN List(p) : inode[List(p)[k].i] # None

\* The descriptors of all processes that refer to an inode.
Refs(i) ==
    {r \in Procs \X (0 .. MaxFds) :
        /\ files[r[1]] # None
        /\ \E k \in DOMAIN List(r[1]) : List(r[1])[k].fd = r[2] /\ List(r[1])[k].i = i}

\* The open count of an inode never falls below the number of descriptors that
\* refer to it: through the reuse of a File_t (file.c:107), fork (file_dup), a fork
\* that fails, exec (files_closeall), failed opens and closes.  A count too low
\* would allow an inode in use to be released.
OpenCovers == \A i \in Inodes : opens(i) >= Cardinality(Refs(i))

\* A descriptor number means one file: in each process the numbers differ, and are
\* below the next one given out, so that neither a child (files_dup) nor a program
\* after exec (files_closeall) gets one that is or was in use; and no two
\* descriptors of a process share an inode (file_open).
OneFilePerFd ==
    \A p \in Procs : files[p] # None =>
        \A k, l \in DOMAIN List(p) :
            /\ List(p)[k].fd < files[p].next
            /\ k # l => List(p)[k].fd # List(p)[l].fd /\ List(p)[k].i # List(p)[l].i

\* The size in the directory entry is the size the inode has, unless the inode is
\* marked as written: no open, create or truncation by one process changes the
\* file on the disk behind an inode that another one uses (vfs_open, fat_create).
EntryExact ==
    \A f \in Files : inode[f] # None => inode[f].wrt \/ size[f] = inode[f].fsize

\* The tables of open files and the inodes fit each other and the disk.
TablesOK == TypeOK /\ OneFilePerFd /\ EntryExact

\* What read and write return for a file whose disk accesses succeed is how far
\* they moved the position, over all pieces but those that could not be copied to
\* the user (sysfile_read, sysfile_write).
CountsExact ==
    \A p \in {q \in Procs : call[q] # None} :
        call[p].i \in Files /\ call[p].op \in {"read", "write"} =>
            call[p].copied = inode[call[p].i].fptr - call[p].start

\* Each piece of a read or write leaves less of the call to do, also past the end
\* of a file and on a full disk, or, if the piece could not be copied, less of the
\* file to read: the loops of sysfile_read and sysfile_write end.
CallsAdvance ==
    [][\A p \in Procs :
         (IF call[p] = None THEN FALSE ELSE call[p].op \in {"read", "write"}) =>
             \/ call'[p] = None
             \/ call'[p].left < call[p].left
             \/ call'[p].start > call[p].start
             \/ UNCHANGED <<call[p], files[p]>>]_vars

=============================================================================
