---------------------------- MODULE FilesProofs -----------------------------
(***************************************************************************)
(* For every number of processes and files and every size of the disk:     *)
(* the tables of descriptors and the inodes they share fit each other, no  *)
(* open count falls below the descriptors that use the inode, and reads    *)
(* and writes return what they moved and come to an end.                   *)
(***************************************************************************)
EXTENDS Files, FiniteSetTheorems, SequenceTheorems, TLAPS

\* What holds of inode i with contents n and the size s in its directory entry.
InodeOK(i, n, s) ==
    /\ n \in INode
    /\ ~n.err => n.fptr <= n.fsize
    /\ i \in Files => s \in Nat /\ (n.wrt \/ s = n.fsize)

InodesInv ==
    /\ size \in [Files -> Nat \cup {None}]
    /\ inode \in [Inodes -> INode \cup {None}]
    /\ \A i \in Inodes : inode[i] # None => InodeOK(i, inode[i], sizeOf(i))
    /\ \A i \in Inodes \ Files : inode[i] # None

\* A list of descriptors: the numbers are below n and differ, and so do the inodes.
ListOK(list, n) ==
    \A k, l \in DOMAIN list :
        /\ list[k].fd < n
        /\ k # l => list[k].fd # list[l].fd /\ list[k].i # list[l].i

ListsInv ==
    /\ files \in [Procs -> FileStruct_t \cup {None}]
    /\ \A p \in Procs : files[p] # None =>
          /\ ListOK(List(p), files[p].next)
          /\ \A k \in DOMAIN List(p) : inode[List(p)[k].i] # None

\* The list has inode i at descriptor fd.
Has(list, fd, i) == \E k \in DOMAIN list : list[k].fd = fd /\ list[k].i = i

\* What a process in a call relies on, from step to step: its descriptor is
\* still there, and an exec that has closed everything finds room to open.
CallInv(p) ==
    call[p] # None =>
        /\ files[p] # None
        /\ call[p].op \in {"read", "write"} =>
              /\ Has(List(p), call[p].fd, call[p].i)
              /\ call[p].i \in Files => call[p].copied = inode[call[p].i].fptr - call[p].start
        /\ call[p].op = "closeall" =>
              /\ files[p].next < MaxFds
              /\ \A i \in Inodes : opens(i) < MaxOpen
        /\ call[p].op \in {"load", "loaded"} =>
              List(p) # << >> /\ Head(List(p)).i = call[p].i

CallsInv ==
    /\ call \in [Procs -> Rw \cup Execve \cup {None}]
    /\ \A p \in Procs : CallInv(p)

FilesInv == InodesInv /\ ListsInv /\ OpenCovers /\ CallsInv

----------------------------------------------------------------------------
(* Numbers, sets and sequences.                                            *)

LEMMA Bounds ==
    /\ IOBUF_SIZE \in Nat /\ IOBUF_SIZE > 0 /\ Capacity \in Nat /\ Capacity > 0
    /\ MaxFds \in Nat /\ MaxFds > 0 /\ MaxOpen \in Nat /\ MaxOpen > 0 /\ MaxPos \in Nat
    /\ 0 \in 0 .. MaxOpen /\ 0 \in Nat /\ 0 \in 0 .. MaxFds
  BY BoundsAssumption

LEMMA MaxPair ==
    ASSUME NEW a \in Int, NEW b \in Int
    PROVE  Max({a, b}) \in Int /\ Max({a, b}) = IF a >= b THEN a ELSE b
  <1>1. \E x \in {a, b} : \A y \in {a, b} : x >= y
    OBVIOUS
  <1> DEFINE m == CHOOSE x \in {a, b} : \A y \in {a, b} : x >= y
  <1>2. m \in {a, b} /\ \A y \in {a, b} : m >= y
    BY <1>1
  <1>3. Max({a, b}) = m
    BY DEF Max
  <1> HIDE DEF m
  <1> QED
    BY <1>2, <1>3

LEMMA MinPair ==
    ASSUME NEW a \in Int, NEW b \in Int
    PROVE  Min({a, b}) \in Int /\ Min({a, b}) = IF a <= b THEN a ELSE b
  <1>1. \E x \in {a, b} : \A y \in {a, b} : x =< y
    OBVIOUS
  <1> DEFINE m == CHOOSE x \in {a, b} : \A y \in {a, b} : x =< y
  <1>2. m \in {a, b} /\ \A y \in {a, b} : m =< y
    BY <1>1
  <1>3. Min({a, b}) = m
    BY DEF Min
  <1> HIDE DEF m
  <1> QED
    BY <1>2, <1>3

LEMMA MinOne ==
    ASSUME NEW a \in Int, NEW S, a \in S, \A x \in S : x = a
    PROVE  Min(S) = a
  <1>1. \E x \in S : \A y \in S : x =< y
    OBVIOUS
  <1> DEFINE m == CHOOSE x \in S : \A y \in S : x =< y
  <1>2. m \in S
    BY <1>1
  <1>3. Min(S) = m
    BY DEF Min
  <1> HIDE DEF m
  <1> QED
    BY <1>2, <1>3

----------------------------------------------------------------------------
(* The operations on an inode.                                             *)

\* Moving the position, which may make the file longer.
LEMMA MovedOK ==
    ASSUME NEW i, NEW n, NEW s, InodeOK(i, n, s), NEW to \in Nat
    PROVE  /\ InodeOK(i, moved(n, to), s)
           /\ moved(n, to).open = n.open /\ moved(n, to).fptr = to
           /\ moved(n, to).err = n.err /\ (n.wrt => moved(n, to).wrt)
           /\ moved(n, to) \in INode
  <1>1. /\ n \in INode /\ n.fsize \in Nat /\ Capacity \in Nat
        /\ n.fsize \in Int /\ to \in Int /\ n.wrt \in BOOLEAN /\ n.err \in BOOLEAN
    BY Bounds DEF InodeOK, INode
  <1> DEFINE z == Max({n.fsize, to})
             w == n.wrt \/ to > n.fsize
             m == moved(n, to)
  <1>2. z = IF n.fsize >= to THEN n.fsize ELSE to
    BY <1>1, MaxPair
  <1>3. z \in Nat /\ to <= z /\ (w \/ z = n.fsize)
    <2> HIDE DEF z
    <2> QED
      BY <1>1, <1>2
  <1>4. w \in BOOLEAN /\ (n.wrt => w)
    OBVIOUS
  <1>5. m = [n EXCEPT !.fptr = to, !.fsize = z, !.wrt = w]
    BY <1>1 DEF moved
  <1> HIDE DEF z, w, m
  <1>6. /\ m \in INode /\ m.fptr = to /\ m.fsize = z /\ m.wrt = w
        /\ m.open = n.open /\ m.err = n.err
    BY <1>1, <1>3, <1>4, <1>5 DEF INode
  <1>7. InodeOK(i, m, s)
    BY <1>3, <1>4, <1>6 DEF InodeOK
  <1> QED
    BY <1>4, <1>6, <1>7 DEF m

\* A failed access to the disk.
LEMMA FailedOK ==
    ASSUME NEW i, NEW n, NEW s, n \in INode,
           i \in Files => s \in Nat /\ (n.wrt \/ s = n.fsize)
    PROVE  /\ InodeOK(i, failed(n), s)
           /\ failed(n).open = n.open /\ failed(n).err /\ failed(n).fptr = n.fptr
  <1>1. /\ failed(n) \in INode /\ failed(n).open = n.open /\ failed(n).err
        /\ failed(n).wrt = n.wrt /\ failed(n).fsize = n.fsize /\ failed(n).fptr = n.fptr
    BY DEF failed, INode
  <1> QED
    BY <1>1 DEF InodeOK

LEMMA ReachedType ==
    ASSUME NEW ofs
    PROVE  reached(ofs) \in Nat
  BY Bounds DEF reached

\* fatbase_lseek() moves the position and sets sect_clust anew.
LEMMA SoughtOK ==
    ASSUME NEW i, NEW n, NEW s, InodeOK(i, n, s), NEW ofs
    PROVE  /\ InodeOK(i, sought(n, ofs), s)
           /\ sought(n, ofs).open = n.open /\ sought(n, ofs).fptr = reached(ofs)
  <1>1. PICK m : m = moved(n, reached(ofs))
    OBVIOUS
  <1>2. InodeOK(i, m, s) /\ m \in INode /\ m.open = n.open /\ m.fptr = reached(ofs)
    BY <1>1, ReachedType, MovedOK
  <1>3. PICK v : v = sought(n, ofs)
    OBVIOUS
  <1>4. /\ v \in INode /\ v.open = m.open /\ v.fptr = m.fptr /\ v.fsize = m.fsize
        /\ v.err = m.err /\ v.wrt = m.wrt
    BY <1>1, <1>2, <1>3 DEF sought, INode
  <1> QED
    BY <1>2, <1>3, <1>4 DEF InodeOK

LEMMA LseekOK ==
    ASSUME NEW i, NEW n, NEW s, InodeOK(i, n, s), NEW ofs, NEW m \in fat_lseek(n, ofs)
    PROVE  /\ InodeOK(i, m, s) /\ m.open = n.open
           /\ m.err \/ m.fptr = reached(ofs)
  <1>2. CASE n.err
    <2>1. m = n
      BY <1>2 DEF fat_lseek
    <2> QED
      BY <1>2, <2>1
  <1>3. CASE ~n.err /\ m = sought(n, ofs)
    BY <1>3, SoughtOK
  <1>4. CASE m = failed(n)
    <2>1. n \in INode /\ (i \in Files => s \in Nat /\ (n.wrt \/ s = n.fsize))
      BY DEF InodeOK
    <2> QED
      BY <1>4, <2>1, FailedOK
  <1> QED
    BY <1>2, <1>3, <1>4 DEF fat_lseek

\* Truncation, also one that fails in the middle.
LEMMA TruncOK ==
    ASSUME NEW i, NEW n, NEW s, InodeOK(i, n, s), NEW m \in fat_truncate(n)
    PROVE  InodeOK(i, m, s) /\ m.open = n.open
  <1> DEFINE w == n.wrt \/ n.fsize > 0
             cut == [n EXCEPT !.fsize = 0, !.fptr = 0, !.wrt = w]
  <1>1. /\ n \in INode /\ n.fsize \in Nat /\ n.fptr \in Nat
        /\ 0 \in Nat /\ n.wrt \in BOOLEAN
        /\ i \in Files => s \in Nat /\ (n.wrt \/ s = n.fsize)
    BY Bounds DEF InodeOK, INode
  <1>2. w \in BOOLEAN /\ (n.wrt => w) /\ (w \/ n.fsize = 0)
    BY <1>1, Bounds
  <1>3. IF n.err THEN m = n ELSE m \in {sought(cut, n.fptr), failed(n), failed(cut)}
    BY DEF fat_truncate
  <1> HIDE DEF w
  <1>4. /\ cut \in INode /\ cut.open = n.open /\ cut.wrt = w /\ cut.fsize = 0 /\ cut.fptr = 0
    BY <1>1, <1>2 DEF INode
  <1> HIDE DEF cut
  <1>5. InodeOK(i, cut, s)
    BY <1>1, <1>2, <1>4 DEF InodeOK
  <1>6. CASE n.err
    BY <1>3, <1>6
  <1>7. CASE m = sought(cut, n.fptr)
    BY <1>4, <1>5, <1>7, SoughtOK
  <1>8. CASE m = failed(n)
    BY <1>1, <1>8, FailedOK
  <1>9. CASE m = failed(cut)
    <2>1. i \in Files => s \in Nat /\ (cut.wrt \/ s = cut.fsize)
      BY <1>5 DEF InodeOK
    <2> QED
      BY <1>4, <1>9, <2>1, FailedOK
  <1> QED
    BY <1>3, <1>6, <1>7, <1>8, <1>9

\* fat_sync() writes the size of the inode to the directory entry.
LEMMA SyncOK ==
    ASSUME NEW i \in Files, NEW n, NEW s, InodeOK(i, n, s), NEW o \in fat_sync(n, s)
    PROVE  InodeOK(i, o[1], o[2]) /\ o[1].open = n.open /\ o[2] \in Nat
           /\ o[1].fptr = n.fptr
  <1>1. n \in INode /\ n.fsize \in Nat /\ s \in Nat
    BY DEF InodeOK, INode
  <1>2. CASE o = <<n, s>>
    BY <1>1, <1>2
  <1>3. CASE o = <<[n EXCEPT !.wrt = FALSE], n.fsize>>
    <2> DEFINE m == [n EXCEPT !.wrt = FALSE]
    <2>1. /\ m \in INode /\ m.open = n.open /\ m.fsize = n.fsize /\ m.fptr = n.fptr
          /\ m.err = n.err
      BY <1>1 DEF INode
    <2> HIDE DEF m
    <2>2. InodeOK(i, m, n.fsize)
      BY <1>1, <2>1 DEF InodeOK
    <2> QED
      BY <1>1, <1>3, <2>1, <2>2 DEF m
  <1> QED
    BY <1>2, <1>3 DEF fat_sync

LEMMA NewOK ==
    ASSUME NEW i, NEW s \in Nat
    PROVE  InodeOK(i, NewInode(s), s) /\ NewInode(s).open = 0
  BY Bounds DEF InodeOK, INode, NewInode

\* iop_open and the truncation: one more user, whatever else happens.
LEMMA OpenInodeOK ==
    ASSUME NEW i, NEW n, NEW s, InodeOK(i, n, s), n.open < MaxOpen, NEW flags,
           NEW o \in OpenInode(i, n, s, flags)
    PROVE  InodeOK(i, o.n, s) /\ o.s = s /\ o.n.open = n.open + 1
  <1> DEFINE u == Opening(n)
  <1>1. InodeOK(i, u, s) /\ u.open = n.open + 1
    <2>1. n \in INode /\ n.open + 1 \in 0 .. MaxOpen
      BY Bounds DEF InodeOK, INode
    <2>2. /\ u \in INode /\ u.open = n.open + 1 /\ u.fsize = n.fsize /\ u.fptr = n.fptr
          /\ u.err = n.err /\ u.wrt = n.wrt
      BY <2>1 DEF INode, Opening
    <2> HIDE DEF u
    <2> QED
      BY <2>2 DEF InodeOK
  <1>2. \/ o = [ok |-> TRUE, n |-> u, s |-> s]
        \/ o = [ok |-> FALSE, n |-> u, s |-> s]
        \/ \E m \in fat_truncate(u) : o = [ok |-> TRUE, n |-> m, s |-> s]
    BY DEF OpenInode
  <1> HIDE DEF u
  <1>3. CASE \E m \in fat_truncate(u) : o = [ok |-> TRUE, n |-> m, s |-> s]
    <2>1. PICK m \in fat_truncate(u) : o = [ok |-> TRUE, n |-> m, s |-> s]
      BY <1>3
    <2>2. InodeOK(i, m, s) /\ m.open = u.open
      BY <1>1, TruncOK
    <2> QED
      BY <1>1, <2>1, <2>2
  <1> QED
    BY <1>1, <1>2, <1>3

\* What vfs_open() can come to: no inode, which is a failure, or an inode with
\* a user more, or, when the call is refused, as many as before.
OpenResult(i, o) ==
    \/ /\ ~o.ok /\ o.n = None /\ inode[i] = None /\ i \in Files
       /\ o.s \in Nat \cup {None}
    \/ /\ o.n # None /\ InodeOK(i, o.n, o.s)
       /\ o.n.open \in {opens(i), opens(i) + 1}
       /\ o.ok => o.n.open = opens(i) + 1

LEMMA NotNone ==
    /\ \A n \in INode : n # None
    /\ \A s \in Nat : s # None
    /\ \A f \in FileStruct_t : f # None
    /\ \A c \in Rw \cup Execve : c # None
  BY NoneAssumption

LEMMA OpensType ==
    ASSUME InodesInv, NEW i \in Inodes
    PROVE  opens(i) \in 0 .. MaxOpen
  BY Bounds DEF InodesInv, INode, opens

LEMMA OpenFound ==
    ASSUME InodesInv, NEW i \in Inodes, NEW n, NEW s, InodeOK(i, n, s), n.open = opens(i),
           opens(i) < MaxOpen, NEW flags, NEW o,
           o \in OpenInode(i, n, s, flags) \/ o = Refused(n, s)
    PROVE  OpenResult(i, o)
  <1>1. CASE o \in OpenInode(i, n, s, flags)
    <2>1. InodeOK(i, o.n, s) /\ o.s = s /\ o.n.open = n.open + 1
      BY <1>1, OpenInodeOK
    <2>2. o.n # None
      BY <2>1, NotNone DEF InodeOK
    <2> QED
      BY <2>1, <2>2 DEF OpenResult
  <1>2. CASE o = Refused(n, s)
    <2>1. o.n = n /\ o.s = s /\ o.ok = FALSE
      BY <1>2 DEF Refused
    <2>2. o.n # None
      BY <2>1, NotNone DEF InodeOK
    <2> QED
      BY <2>1, <2>2 DEF OpenResult
  <1> QED
    BY <1>1, <1>2

LEMMA VfsOpenOK ==
    ASSUME FilesInv, NEW i \in Inodes, opens(i) < MaxOpen, NEW flags,
           NEW o \in vfs_open(i, flags)
    PROVE  OpenResult(i, o)
  <1>0. InodesInv
    BY DEF FilesInv
  <1>1. PICK m \in vfs_lookup(i) :
           o \in IF m # None THEN Found(i, m, sizeOf(i), flags)
                 ELSE IF "CREATE" \in flags.and THEN Created(i, sizeOf(i), flags)
                 ELSE {Refused(None, sizeOf(i))}
    BY DEF vfs_open
  <1>2. i \in Files => sizeOf(i) = size[i] /\ size[i] \in Nat \cup {None}
    BY <1>0 DEF sizeOf, InodesInv
  <1>3. ASSUME NEW s \in Nat, NEW n, n = NewInode(s), i \in Files, inode[i] = None
        PROVE  n # None /\ InodeOK(i, n, s) /\ n.open = opens(i)
    <2>1. InodeOK(i, n, s) /\ n.open = 0
      BY <1>3, NewOK
    <2>2. opens(i) = 0
      BY <1>3 DEF opens
    <2> QED
      BY <2>1, <2>2, NotNone DEF InodeOK
  <1>4. CASE m # None
    <2>1. InodeOK(i, m, sizeOf(i)) /\ m.open = opens(i)
      <3>1. CASE inode[i] # None
        <4>1. m = inode[i]
          BY <3>1 DEF vfs_lookup, fat_lookup, vdev_get_root_inode, fat_find_inode
        <4> QED
          BY <1>0, <3>1, <4>1 DEF InodesInv, opens
      <3>2. CASE inode[i] = None
        <4>1. i \in Files
          BY <1>0, <3>2 DEF InodesInv
        <4>2. m = NewInode(size[i]) /\ size[i] # None
          BY <1>4, <3>2, <4>1 DEF vfs_lookup, fat_lookup, fat_find_inode
        <4>3. size[i] \in Nat
          BY <1>2, <4>1, <4>2
        <4> QED
          BY <1>2, <1>3, <3>2, <4>1, <4>2, <4>3
      <3> QED
        BY <3>1, <3>2
    <2>2. o \in OpenInode(i, m, sizeOf(i), flags) \/ o = Refused(m, sizeOf(i))
      BY <1>1, <1>4 DEF Found
    <2> QED
      BY <1>0, <2>1, <2>2, OpenFound
  <1>5. CASE m = None
    <2>1. inode[i] = None /\ i \in Files
      BY <1>0, <1>5 DEF InodesInv, vfs_lookup, fat_lookup, vdev_get_root_inode, fat_find_inode
    <2>2. ASSUME NEW t \in Nat \cup {None} PROVE OpenResult(i, Refused(None, t))
      BY <2>1 DEF OpenResult, Refused
    <2>3. CASE o = Refused(None, sizeOf(i))
      BY <1>2, <2>1, <2>2, <2>3
    <2>4. CASE o \in Created(i, sizeOf(i), flags)
      <3>0. PICK t \in fat_create(size[i]) : \E v \in fat_find_inode(None, t) :
               o \in IF v = None THEN {Refused(None, t)} ELSE OpenInode(i, v, t, flags)
        BY <1>2, <2>1, <2>4 DEF Created
      <3>1. PICK v \in fat_find_inode(None, t) :
               o \in IF v = None THEN {Refused(None, t)} ELSE OpenInode(i, v, t, flags)
        BY <3>0
      <3>2. t \in Nat \cup {None}
        BY <1>2, <2>1, Bounds DEF fat_create
      <3>3. CASE v = None
        BY <2>2, <3>1, <3>2, <3>3
      <3>4. CASE v # None
        <4>1. t # None /\ v = NewInode(t)
          BY <3>4 DEF fat_find_inode
        <4>2. t \in Nat
          BY <3>2, <4>1
        <4>3. InodeOK(i, v, t) /\ v.open = opens(i)
          BY <1>3, <2>1, <4>1, <4>2
        <4> QED
          BY <1>0, <3>1, <3>4, <4>3, OpenFound
      <3> QED
        BY <3>3, <3>4
    <2> QED
      BY <1>1, <1>5, <2>3, <2>4
  <1> QED
    BY <1>4, <1>5

----------------------------------------------------------------------------
(* What a step does to the inodes.                                         *)

\* No inode is lost, and none has fewer users.
Grows ==
    \A i \in Inodes : (inode[i] # None => inode'[i] # None) /\ opens(i)' >= opens(i)

LEMMA StoreInv ==
    ASSUME InodesInv, NEW i \in Inodes, NEW n, NEW s, Store(i, n, s),
           \/ n # None /\ InodeOK(i, n, s)
           \/ n = None /\ i \in Files /\ s \in Nat \cup {None}
    PROVE  /\ InodesInv' /\ inode'[i] = n
           /\ \A j \in Inodes \ {i} : inode'[j] = inode[j]
  <1>1. /\ inode' = [inode EXCEPT ![i] = n]
        /\ size' = IF i \in Files THEN [size EXCEPT ![i] = s] ELSE size
        /\ size \in [Files -> Nat \cup {None}]
        /\ inode \in [Inodes -> INode \cup {None}]
    BY DEF Store, InodesInv
  <1>2. n \in INode \cup {None} /\ (i \in Files => s \in Nat \cup {None})
    BY DEF InodeOK
  <1>3. /\ inode' \in [Inodes -> INode \cup {None}]
        /\ inode'[i] = n /\ \A j \in Inodes \ {i} : inode'[j] = inode[j]
    BY <1>1, <1>2
  <1>4. size' \in [Files -> Nat \cup {None}]
    BY <1>1, <1>2
  <1>5. ASSUME NEW j \in Inodes, inode'[j] # None
        PROVE  InodeOK(j, inode'[j], sizeOf(j)')
    <2>1. CASE j = i
      <3>1. InodeOK(i, n, s)
        BY <1>3, <1>5, <2>1
      <3>2. CASE i \in Files
        <4>1. sizeOf(i)' = s
          BY <1>1, <3>2 DEF sizeOf
        <4> QED
          BY <1>3, <2>1, <3>1, <4>1
      <3>3. CASE i \notin Files
        BY <1>3, <2>1, <3>1, <3>3 DEF InodeOK
      <3> QED
        BY <3>2, <3>3
    <2>2. CASE j # i
      <3>1. inode'[j] = inode[j] /\ sizeOf(j)' = sizeOf(j)
        BY <1>1, <1>3, <2>2 DEF sizeOf
      <3>2. InodeOK(j, inode[j], sizeOf(j))
        BY <1>5, <3>1 DEF InodesInv
      <3> QED
        BY <3>1, <3>2
    <2> QED
      BY <2>1, <2>2
  <1>6. ASSUME NEW j \in Inodes \ Files PROVE inode'[j] # None
    BY <1>3 DEF InodesInv
  <1>7. InodesInv'
    BY <1>3, <1>4, <1>5, <1>6 DEF InodesInv, Inodes
  <1> QED
    BY <1>3, <1>7

\* An inode in memory gets other contents, with at least as many users.
LEMMA StoreGrows ==
    ASSUME InodesInv, NEW i \in Inodes, NEW n, NEW s, Store(i, n, s), inode[i] # None,
           InodeOK(i, n, s), n.open >= inode[i].open
    PROVE  InodesInv' /\ Grows /\ inode'[i] = n
           /\ \A j \in Inodes \ {i} : inode'[j] = inode[j]
  <1>1. n # None
    BY NotNone DEF InodeOK
  <1>2. /\ InodesInv' /\ inode'[i] = n /\ \A j \in Inodes \ {i} : inode'[j] = inode[j]
    BY <1>1, StoreInv
  <1>3. ASSUME NEW j \in Inodes
        PROVE  (inode[j] # None => inode'[j] # None) /\ opens(j)' >= opens(j)
    <2>1. opens(j) \in Nat
      BY OpensType, Bounds
    <2>2. CASE j = i
      BY <1>1, <1>2, <2>2 DEF opens
    <2>3. CASE j # i
      <3>1. inode'[j] = inode[j]
        BY <1>2, <2>3
      <3>2. opens(j)' = opens(j)
        BY <3>1 DEF opens
      <3> QED
        BY <2>1, <3>1, <3>2
    <2> QED
      BY <2>2, <2>3
  <1> QED
    BY <1>2, <1>3 DEF Grows

LEMMA SameInodes ==
    ASSUME InodesInv, UNCHANGED <<size, inode>>
    PROVE  InodesInv' /\ Grows
  <1>1. InodesInv'
    BY DEF InodesInv, InodeOK, sizeOf
  <1>2. ASSUME NEW j \in Inodes
        PROVE  (inode[j] # None => inode'[j] # None) /\ opens(j)' >= opens(j)
    <2>1. opens(j) \in Nat
      BY OpensType, Bounds
    <2> QED
      BY <2>1 DEF opens
  <1> QED
    BY <1>1, <1>2 DEF Grows

\* An assignment to the inode alone.
LEMMA AssignStore ==
    ASSUME InodesInv, NEW i \in Files, NEW n, inode' = [inode EXCEPT ![i] = n], size' = size
    PROVE  Store(i, n, size[i]) /\ sizeOf(i) = size[i]
  BY DEF Store, sizeOf, InodesInv

----------------------------------------------------------------------------
(* What a step does to the lists of descriptors.                           *)

LEMMA AddOne ==
    ASSUME NEW S, NEW x, IsFiniteSet(S)
    PROVE  IsFiniteSet(S \cup {x}) /\ Cardinality(S \cup {x}) <= Cardinality(S) + 1
  <1>1. Cardinality(S) \in Nat
    BY FS_CardinalityType
  <1> QED
    BY <1>1, FS_AddElement

LEMMA EntryType ==
    ASSUME NEW list \in Seq(File_t), NEW k \in DOMAIN list
    PROVE  /\ k \in 1 .. Len(list) /\ list[k] \in File_t /\ list[k].fd \in 0 .. MaxFds
           /\ list[k].i \in Inodes /\ list[k].pos \in Int
  <1>1. k \in 1 .. Len(list) /\ list[k] \in File_t
    BY ElementOfSeq
  <1> QED
    BY <1>1 DEF File_t

LEMMA RefsFinite ==
    ASSUME NEW i
    PROVE  IsFiniteSet(Refs(i))
  <1>0. IsFiniteSet(0 .. MaxFds) /\ IsFiniteSet(Procs)
    BY FS_Interval, FilesAssumption, Bounds
  <1>1. IsFiniteSet(Procs \X (0 .. MaxFds))
    BY <1>0, FS_Product
  <1>2. Refs(i) \subseteq Procs \X (0 .. MaxFds)
    BY DEF Refs
  <1> QED
    BY <1>1, <1>2, FS_Subset

LEMMA RefsHas ==
    ASSUME NEW i, NEW q \in Procs, NEW fd \in 0 .. MaxFds
    PROVE  /\ <<q, fd>> \in Refs(i) <=> files[q] # None /\ Has(List(q), fd, i)
           /\ <<q, fd>> \in Refs(i)' <=> files'[q] # None /\ Has(List(q)', fd, i)
  BY DEF Refs, Has

LEMMA RefsPair ==
    ASSUME NEW i, NEW r
    PROVE  /\ r \in Refs(i) => \E q \in Procs, fd \in 0 .. MaxFds : r = <<q, fd>>
           /\ r \in Refs(i)' => \E q \in Procs, fd \in 0 .. MaxFds : r = <<q, fd>>
  BY DEF Refs

\* The descriptors of the processes other than p are as before.
LEMMA RefsOthers ==
    ASSUME NEW i, NEW p \in Procs, NEW q \in Procs \ {p}, NEW fd \in 0 .. MaxFds,
           NEW fs, ListsInv, files' = [files EXCEPT ![p] = fs]
    PROVE  <<q, fd>> \in Refs(i)' <=> <<q, fd>> \in Refs(i)
  <1>1. files'[q] = files[q]
    BY DEF ListsInv
  <1>2. List(q)' = List(q)
    BY <1>1 DEF List
  <1> QED
    BY <1>1, <1>2, RefsHas

\* The list of fs fits the inodes after the step.
FitsInodes(fs) ==
    /\ fs \in FileStruct_t /\ ListOK(fs.list, fs.next)
    /\ \A k \in DOMAIN fs.list : inode'[fs.list[k].i] # None

LEMMA ListsSet ==
    ASSUME NEW p \in Procs, NEW fs, ListsInv, InodesInv,
           files' = [files EXCEPT ![p] = fs], FitsInodes(fs),
           \A i \in Inodes : inode[i] # None => inode'[i] # None
    PROVE  ListsInv'
  <1>1. /\ files' \in [Procs -> FileStruct_t \cup {None}]
        /\ files'[p] = fs /\ \A q \in Procs \ {p} : files'[q] = files[q]
        /\ files \in [Procs -> FileStruct_t \cup {None}]
    BY DEF ListsInv, FitsInodes
  <1>2. ASSUME NEW q \in Procs, files'[q] # None
        PROVE  /\ ListOK(List(q)', files'[q].next)
               /\ \A k \in DOMAIN List(q)' : inode'[List(q)'[k].i] # None
    <2>1. CASE q = p
      BY <1>1, <2>1 DEF List, FitsInodes
    <2>2. CASE q # p
      <3>1. files'[q] = files[q] /\ List(q)' = List(q) /\ files[q] \in FileStruct_t
        BY <1>1, <1>2, <2>2 DEF List
      <3>2. List(q) \in Seq(File_t)
        BY <3>1 DEF List, FileStruct_t
      <3>3. \A k \in DOMAIN List(q) : List(q)[k].i \in Inodes
        BY <3>2, EntryType
      <3> QED
        BY <1>2, <3>1, <3>3 DEF ListsInv
    <2> QED
      BY <2>1, <2>2
  <1> QED
    BY <1>1, <1>2 DEF ListsInv

LEMMA ListsSame ==
    ASSUME ListsInv, files' = files, \A i \in Inodes : inode[i] # None => inode'[i] # None
    PROVE  ListsInv' /\ \A i \in Inodes : Refs(i)' = Refs(i)
  <1>1. ASSUME NEW q \in Procs, files[q] # None
        PROVE  \A k \in DOMAIN List(q) : List(q)[k].i \in Inodes
    <2>1. files[q] \in FileStruct_t
      BY <1>1 DEF ListsInv
    <2>2. List(q) \in Seq(File_t)
      BY <2>1 DEF List, FileStruct_t
    <2> QED
      BY <2>2, EntryType
  <1>2. \A q \in Procs : List(q)' = List(q)
    BY DEF List
  <1>3. ListsInv'
    BY <1>1, <1>2 DEF ListsInv
  <1>4. \A i \in Inodes : Refs(i)' = Refs(i)
    BY DEF Refs, List
  <1> QED
    BY <1>3, <1>4

\* The list of p is no longer than before, in what it refers to.
LEMMA CoversShrink ==
    ASSUME InodesInv, ListsInv, OpenCovers, Grows, NEW p \in Procs, files[p] # None,
           NEW fs \in FileStruct_t, files' = [files EXCEPT ![p] = fs],
           \A fd \in 0 .. MaxFds, i \in Inodes : Has(fs.list, fd, i) => Has(List(p), fd, i),
           InodesInv'
    PROVE  OpenCovers'
  <1> SUFFICES ASSUME NEW i \in Inodes PROVE opens(i)' >= Cardinality(Refs(i)')
    BY DEF OpenCovers
  <1>1. files'[p] = fs /\ List(p)' = fs.list
    BY DEF ListsInv, List
  <1>2. Refs(i)' \subseteq Refs(i)
    <2> SUFFICES ASSUME NEW r \in Refs(i)' PROVE r \in Refs(i)
      OBVIOUS
    <2>1. PICK q \in Procs, fd \in 0 .. MaxFds : r = <<q, fd>>
      BY RefsPair
    <2>2. CASE q = p
      BY <1>1, <2>1, <2>2, RefsHas
    <2>3. CASE q # p
      BY <2>1, <2>3, RefsOthers
    <2> QED
      BY <2>2, <2>3
  <1>3. Cardinality(Refs(i)') <= Cardinality(Refs(i)) /\ Cardinality(Refs(i)) \in Nat
        /\ Cardinality(Refs(i)') \in Nat
    BY <1>2, RefsFinite, FS_Subset, FS_CardinalityType
  <1>4. opens(i) >= Cardinality(Refs(i)) /\ opens(i)' >= opens(i)
    BY DEF OpenCovers, Grows
  <1>5. opens(i) \in Nat
    BY OpensType, Bounds
  <1>6. opens(i)' \in Nat
    <2>1. inode'[i] \in INode \cup {None}
      BY DEF InodesInv
    <2> QED
      BY <2>1, Bounds DEF opens, INode
  <1> QED
    BY <1>3, <1>4, <1>5, <1>6

LEMMA CoversSame ==
    ASSUME InodesInv, ListsInv, OpenCovers, Grows, files' = files, InodesInv'
    PROVE  OpenCovers'
  <1> SUFFICES ASSUME NEW i \in Inodes PROVE opens(i)' >= Cardinality(Refs(i)')
    BY DEF OpenCovers
  <1>1. Refs(i)' = Refs(i)
    BY ListsSame DEF Grows
  <1>2. opens(i) >= Cardinality(Refs(i)) /\ opens(i)' >= opens(i)
    BY DEF OpenCovers, Grows
  <1>3. opens(i) \in Nat /\ Cardinality(Refs(i)) \in Nat
    BY OpensType, Bounds, RefsFinite, FS_CardinalityType
  <1>4. opens(i)' \in Nat
    <2>1. inode'[i] \in INode \cup {None}
      BY DEF InodesInv
    <2> QED
      BY <2>1, Bounds DEF opens, INode
  <1> QED
    BY <1>1, <1>2, <1>3, <1>4

----------------------------------------------------------------------------
(* The calls in progress.                                                  *)

\* While p runs, the calls of the others wait for a key and rely on nothing but
\* their own descriptor.
LEMMA OthersKept ==
    ASSUME FilesInv, NEW p \in Procs, Running(p), NEW q \in Procs \ {p},
           call'[q] = call[q], call[q] = None \/ files'[q] = files[q]
    PROVE  CallInv(q)'
  <1>1. CASE call[q] = None
    BY <1>1 DEF CallInv
  <1>2. CASE call[q] # None
    <2>1. call[q].op = "read" /\ call[q].i = stdin /\ stdin \notin Files
      BY <1>2, FilesAssumption DEF Running, Waiting
    <2>2. files'[q] = files[q] /\ List(q)' = List(q)
      BY <1>2 DEF List
    <2>3. CallInv(q)
      BY DEF FilesInv, CallsInv
    <2>4. files[q] # None /\ Has(List(q), call[q].fd, call[q].i)
      BY <1>2, <2>1, <2>3 DEF CallInv
    <2> QED
      BY <2>1, <2>2, <2>4 DEF CallInv
  <1> QED
    BY <1>1, <1>2

LEMMA CallsSet ==
    ASSUME FilesInv, NEW p \in Procs, Running(p), NEW c \in Rw \cup Execve \cup {None},
           call' = [call EXCEPT ![p] = c], CallInv(p)',
           \A q \in Procs \ {p} : call[q] = None \/ files'[q] = files[q]
    PROVE  CallsInv'
  <1>1. /\ call' \in [Procs -> Rw \cup Execve \cup {None}]
        /\ \A q \in Procs \ {p} : call'[q] = call[q]
    BY DEF FilesInv, CallsInv
  <1>2. \A q \in Procs \ {p} : CallInv(q)'
    BY <1>1, OthersKept
  <1> QED
    BY <1>1, <1>2 DEF CallsInv

\* A step of p outside a call, or the one that ends it.
LEMMA CallsIdle ==
    ASSUME FilesInv, NEW p \in Procs, Running(p),
           call' = [call EXCEPT ![p] = None] \/ (call[p] = None /\ call' = call),
           \A q \in Procs \ {p} : call[q] = None \/ files'[q] = files[q]
    PROVE  CallsInv'
  <1>1. call' = [call EXCEPT ![p] = None] /\ call'[p] = None
    BY DEF FilesInv, CallsInv
  <1>2. CallInv(p)'
    BY <1>1 DEF CallInv
  <1> QED
    BY <1>1, <1>2, CallsSet

----------------------------------------------------------------------------
(* One descriptor of a process.                                            *)

LEMMA ListType ==
    ASSUME ListsInv, NEW p \in Procs, files[p] # None
    PROVE  /\ files[p] \in FileStruct_t /\ List(p) \in Seq(File_t)
           /\ files[p].next \in 0 .. MaxFds /\ ListOK(List(p), files[p].next)
           /\ \A k \in DOMAIN List(p) : inode[List(p)[k].i] # None
  BY DEF ListsInv, FileStruct_t, List

\* find_file_with_fd() finds the only one.
LEMMA FoundFd ==
    ASSUME ListsInv, NEW p \in Procs, files[p] # None, NEW fd, NEW i, Has(List(p), fd, i)
    PROVE  /\ At(p, fd) \in DOMAIN List(p)
           /\ List(p)[At(p, fd)].fd = fd /\ List(p)[At(p, fd)].i = i
           /\ TheFile(p, fd).i = i /\ TheFile(p, fd).pos \in Int
           /\ fd \in 0 .. MaxFds /\ i \in Inodes /\ inode[i] # None
           /\ \A k \in DOMAIN List(p) : List(p)[k].fd = fd => k = At(p, fd)
  <1>1. PICK k \in DOMAIN List(p) : List(p)[k].fd = fd /\ List(p)[k].i = i
    BY DEF Has
  <1>2. /\ List(p) \in Seq(File_t) /\ ListOK(List(p), files[p].next)
        /\ inode[i] # None
    BY <1>1, ListType
  <1>3. k \in 1 .. Len(List(p)) /\ fd \in 0 .. MaxFds /\ i \in Inodes /\ List(p)[k].pos \in Int
    BY <1>1, <1>2, EntryType
  <1>4. \A l \in DOMAIN List(p) : List(p)[l].fd = fd => l = k
    BY <1>1, <1>2 DEF ListOK
  <1>5. At(p, fd) = k
    <2>1. PICK S : S = Index(p, fd)
      OBVIOUS
    <2>2. k \in S /\ \A x \in S : x = k
      BY <1>1, <1>4, <2>1 DEF Index
    <2>3. k \in Int
      BY <1>3
    <2>4. Min(S) = k
      BY <2>2, <2>3, MinOne
    <2> QED
      BY <2>1, <2>4 DEF At
  <1> QED
    BY <1>1, <1>2, <1>3, <1>4, <1>5 DEF TheFile

LEMMA FdHas ==
    ASSUME ListsInv, NEW p \in Procs, files[p] # None, NEW fd \in Fds(p)
    PROVE  Has(List(p), fd, TheFile(p, fd).i)
  <1>1. PICK k \in DOMAIN List(p) : List(p)[k].fd = fd
    BY DEF Fds
  <1>2. Has(List(p), fd, List(p)[k].i)
    BY <1>1 DEF Has
  <1> QED
    BY <1>2, FoundFd

\* The position of a descriptor changes.
LEMMA PosSet ==
    ASSUME FilesInv, NEW p \in Procs, files[p] # None, NEW k \in DOMAIN List(p), NEW v \in Int,
           files' = [files EXCEPT ![p].list[k].pos = v], Grows, InodesInv'
    PROVE  /\ ListsInv' /\ OpenCovers' /\ files'[p] # None
           /\ \A q \in Procs \ {p} : files'[q] = files[q]
           /\ \A fd, i : Has(List(p), fd, i) => Has(List(p)', fd, i)
  <1>1. /\ InodesInv /\ ListsInv /\ OpenCovers
        /\ files \in [Procs -> FileStruct_t \cup {None}]
    BY DEF FilesInv, ListsInv
  <1>2. /\ files[p] \in FileStruct_t /\ List(p) \in Seq(File_t)
        /\ ListOK(List(p), files[p].next)
        /\ \A l \in DOMAIN List(p) : inode[List(p)[l].i] # None
    BY <1>1, ListType
  <1> DEFINE e == [List(p)[k] EXCEPT !.pos = v]
             list == [List(p) EXCEPT ![k] = e]
  <1>3. PICK fs : fs = [files[p] EXCEPT !.list = list]
    OBVIOUS
  <1>4. files' = [files EXCEPT ![p] = fs] /\ files'[p] = fs
    BY <1>1, <1>3 DEF List
  <1>5. List(p)[k] \in File_t
    BY <1>2, EntryType
  <1>6. e \in File_t /\ e.fd = List(p)[k].fd /\ e.i = List(p)[k].i
    BY <1>5 DEF File_t
  <1> HIDE DEF e
  <1>7. list \in Seq(File_t) /\ DOMAIN list = DOMAIN List(p)
    BY <1>2, <1>6, ExceptSeq
  <1>8. \A l \in DOMAIN list : list[l].fd = List(p)[l].fd /\ list[l].i = List(p)[l].i
    BY <1>2, <1>6, <1>7
  <1>9. \A l \in DOMAIN List(p) : List(p)[l].i \in Inodes
    BY <1>2, EntryType
  <1> HIDE DEF list
  <1>10. fs \in FileStruct_t /\ fs.list = list /\ fs.next = files[p].next
    BY <1>2, <1>3, <1>7 DEF FileStruct_t
  <1>11. ListOK(fs.list, fs.next)
    BY <1>2, <1>7, <1>8, <1>10 DEF ListOK
  <1>12. \A fd, i : Has(fs.list, fd, i) <=> Has(List(p), fd, i)
    BY <1>7, <1>8, <1>10 DEF Has
  <1>13. \A i \in Inodes : inode[i] # None => inode'[i] # None
    BY DEF Grows
  <1>14. \A l \in DOMAIN fs.list : inode'[fs.list[l].i] # None
    <2> SUFFICES ASSUME NEW l \in DOMAIN fs.list PROVE inode'[fs.list[l].i] # None
      OBVIOUS
    <2>1. l \in DOMAIN List(p) /\ fs.list[l].i = List(p)[l].i
      BY <1>7, <1>8, <1>10
    <2>2. List(p)[l].i \in Inodes /\ inode[List(p)[l].i] # None
      BY <1>2, <1>9, <2>1
    <2> QED
      BY <1>13, <2>1, <2>2
  <1>15. ListsInv'
    <2>1. FitsInodes(fs)
      BY <1>10, <1>11, <1>14 DEF FitsInodes
    <2> QED
      BY <1>1, <1>4, <1>13, <2>1, ListsSet
  <1>16. OpenCovers'
    BY <1>1, <1>4, <1>10, <1>12, CoversShrink
  <1>17. List(p)' = fs.list /\ files'[p] # None
    BY <1>4, <1>10, NotNone DEF List
  <1>18. \A q \in Procs \ {p} : files'[q] = files[q]
    BY <1>1, <1>4
  <1> QED
    BY <1>12, <1>15, <1>16, <1>17, <1>18

----------------------------------------------------------------------------
(* The steps that leave the lists as they are, but for positions.          *)

LEMMA RunningFacts ==
    ASSUME FilesInv, NEW p \in Procs, Running(p)
    PROVE  /\ InodesInv /\ ListsInv /\ OpenCovers /\ CallsInv /\ files[p] # None /\ CallInv(p)
           /\ call[p] \in Rw \cup Execve \cup {None}
  BY DEF FilesInv, CallsInv, Running

\* A step that changes no list.
LEMMA SameLists ==
    ASSUME FilesInv, InodesInv', Grows, files' = files, CallsInv'
    PROVE  FilesInv'
  <1>1. InodesInv /\ ListsInv /\ OpenCovers
    BY DEF FilesInv
  <1>2. ListsInv'
    BY <1>1, ListsSame DEF Grows
  <1>3. OpenCovers'
    BY <1>1, CoversSame
  <1> QED
    BY <1>2, <1>3 DEF FilesInv

LEMMA FsyncKeeps ==
    ASSUME FilesInv, NEW p \in Procs, NEW fd, sys_fsync(p, fd)
    PROVE  FilesInv'
  <1> DEFINE i == TheFile(p, fd).i
  <1>1. /\ Running(p) /\ call[p] = None /\ fd \in Fds(p) /\ i \in Files
        /\ files' = files /\ call' = call
    BY DEF sys_fsync, Calls, HasSync
  <1>2. PICK o \in fat_sync(inode[i], size[i]) : Store(i, o[1], o[2])
    BY DEF sys_fsync
  <1>3. InodesInv /\ ListsInv /\ files[p] # None
    BY <1>1, RunningFacts
  <1>4. Has(List(p), fd, i)
    BY <1>1, <1>3, FdHas
  <1>5. inode[i] # None /\ i \in Inodes
    BY <1>3, <1>4, FoundFd
  <1> HIDE DEF i
  <1>6. sizeOf(i) = size[i] /\ InodeOK(i, inode[i], size[i]) /\ inode[i].open \in Int
    BY <1>1, <1>3, <1>5, Bounds DEF InodesInv, sizeOf, InodeOK, INode
  <1>7. InodeOK(i, o[1], o[2]) /\ o[1].open = inode[i].open
    BY <1>1, <1>2, <1>6, SyncOK
  <1>8. InodesInv' /\ Grows
    BY <1>2, <1>3, <1>5, <1>6, <1>7, StoreGrows
  <1>9. CallsInv'
    BY <1>1, CallsIdle
  <1> QED
    BY <1>1, <1>8, <1>9, SameLists

LEMMA SeekKeeps ==
    ASSUME FilesInv, NEW p \in Procs, NEW fd, NEW ofs \in Offsets,
           NEW flag \in {"SET", "CUR", "END"}, file_seek(p, fd, ofs, flag)
    PROVE  FilesInv'
  <1> DEFINE i == TheFile(p, fd).i
             to == Target(p, fd, ofs, flag)
  <1>1. /\ Running(p) /\ call[p] = None /\ fd \in Fds(p) /\ i \in Files
        /\ size' = size /\ call' = call
    BY DEF file_seek, Calls, HasLseek
  <1>2. PICK n \in fat_lseek(inode[i], to) :
             /\ inode' = [inode EXCEPT ![i] = n]
             /\ files' = IF n.err THEN files ELSE [files EXCEPT ![p].list[At(p, fd)].pos = to]
    BY DEF file_seek
  <1>3. InodesInv /\ ListsInv /\ files[p] # None
    BY <1>1, RunningFacts
  <1>4. Has(List(p), fd, i)
    BY <1>1, <1>3, FdHas
  <1>5. /\ inode[i] # None /\ i \in Inodes /\ At(p, fd) \in DOMAIN List(p)
        /\ TheFile(p, fd).pos \in Int
    BY <1>3, <1>4, FoundFd
  <1>6. to \in Int
    <2>1. ofs \in Int
      BY BoundsAssumption
    <2>2. size[i] \in Int
      BY <1>1, <1>3, <1>5, Bounds DEF InodesInv, InodeOK, sizeOf
    <2> QED
      BY <1>5, <2>1, <2>2 DEF Target
  <1> HIDE DEF i, to
  <1>7. sizeOf(i) = size[i] /\ InodeOK(i, inode[i], size[i]) /\ inode[i].open \in Int
    BY <1>1, <1>3, <1>5, Bounds DEF InodesInv, sizeOf, InodeOK, INode
  <1>8. InodeOK(i, n, size[i]) /\ n.open = inode[i].open
    BY <1>2, <1>7, LseekOK
  <1>9. Store(i, n, size[i])
    BY <1>1, <1>2, <1>3, AssignStore
  <1>10. InodesInv' /\ Grows
    BY <1>3, <1>5, <1>7, <1>8, <1>9, StoreGrows
  <1>11. CASE files' = files
    <2>1. CallsInv'
      BY <1>1, <1>11, CallsIdle
    <2> QED
      BY <1>10, <1>11, <2>1, SameLists
  <1>12. CASE files' = [files EXCEPT ![p].list[At(p, fd)].pos = to]
    <2>1. /\ ListsInv' /\ OpenCovers' /\ \A q \in Procs \ {p} : files'[q] = files[q]
      BY <1>3, <1>5, <1>6, <1>10, <1>12, PosSet
    <2>2. CallsInv'
      BY <1>1, <2>1, CallsIdle
    <2> QED
      BY <1>10, <2>1, <2>2 DEF FilesInv
  <1> QED
    BY <1>2, <1>11, <1>12

LEMMA RwBeginsKeeps ==
    ASSUME FilesInv, NEW p \in Procs, NEW op \in {"read", "write"}, NEW right, NEW fd,
           NEW len \in Lengths, RwBegins(p, op, right, fd, len)
    PROVE  FilesInv'
  <1> DEFINE i == TheFile(p, fd).i
             c == RwCall(op, i, fd, len)
  <1>1. /\ Running(p) /\ call[p] = None /\ fd \in Fds(p)
        /\ UNCHANGED <<size, inode>> /\ files' = files
        /\ call' = [call EXCEPT ![p] = c]
    BY DEF RwBegins, Calls
  <1>2. InodesInv /\ ListsInv /\ files[p] # None /\ CallsInv
    BY <1>1, RunningFacts
  <1>3. Has(List(p), fd, i)
    BY <1>1, <1>2, FdHas
  <1>4. inode[i] # None /\ i \in Inodes /\ fd \in 0 .. MaxFds
    BY <1>2, <1>3, FoundFd
  <1> HIDE DEF i
  <1>5. inode[i].fptr \in Nat
    BY <1>2, <1>4, Bounds DEF InodesInv, INode
  <1>6. len \in Nat
    BY BoundsAssumption
  <1>7. /\ c \in Rw /\ c.op = op /\ c.i = i /\ c.fd = fd /\ c.copied = 0
        /\ c.start = inode[i].fptr
    BY <1>4, <1>5, <1>6 DEF RwCall, Rw
  <1> HIDE DEF c
  <1>8. call'[p] = c
    BY <1>1, <1>2 DEF CallsInv
  <1>9. CallInv(p)'
    <2>1. List(p)' = List(p)
      BY <1>1 DEF List
    <2>2. c.copied = inode[i].fptr - c.start
      BY <1>5, <1>7
    <2> QED
      BY <1>1, <1>2, <1>3, <1>7, <1>8, <2>1, <2>2 DEF CallInv
  <1>10. CallsInv'
    BY <1>1, <1>7, <1>9, CallsSet
  <1>11. InodesInv' /\ Grows
    BY <1>1, <1>2, SameInodes
  <1> QED
    BY <1>1, <1>10, <1>11, SameLists

\* A process inside read or write.
LEMMA InRwFacts ==
    ASSUME FilesInv, NEW p \in Procs, InRw(p)
    PROVE  /\ Running(p) /\ InodesInv /\ ListsInv /\ CallsInv /\ files[p] # None
           /\ call[p] \in Rw /\ call[p] # None /\ call[p].op \in {"read", "write"}
           /\ Has(List(p), call[p].fd, call[p].i)
           /\ call[p].i \in Inodes /\ inode[call[p].i] # None
           /\ At(p, call[p].fd) \in DOMAIN List(p)
           /\ List(p)[At(p, call[p].fd)].pos \in Int
           /\ call[p].i \in Files => call[p].copied = inode[call[p].i].fptr - call[p].start
           /\ call[p].left \in Nat /\ call[p].copied \in Int /\ call[p].start \in Int
  <1>1. Running(p) /\ call[p] # None /\ call[p].op \in {"read", "write"}
    BY DEF InRw
  <1>2. /\ InodesInv /\ ListsInv /\ CallsInv /\ files[p] # None /\ CallInv(p)
        /\ call[p] \in Rw \cup Execve
    BY <1>1, RunningFacts
  <1>3. call[p] \in Rw
    BY <1>1, <1>2 DEF Execve
  <1>4. /\ Has(List(p), call[p].fd, call[p].i)
        /\ call[p].i \in Files => call[p].copied = inode[call[p].i].fptr - call[p].start
    BY <1>1, <1>2 DEF CallInv
  <1>5. /\ call[p].i \in Inodes /\ inode[call[p].i] # None
        /\ At(p, call[p].fd) \in DOMAIN List(p)
        /\ TheFile(p, call[p].fd).pos \in Int
    BY <1>2, <1>4, FoundFd
  <1>6. call[p].left \in Nat /\ call[p].copied \in Int /\ call[p].start \in Int
    BY <1>3 DEF Rw
  <1> QED
    BY <1>1, <1>2, <1>3, <1>4, <1>5, <1>6 DEF TheFile

LEMMA AlenOK ==
    ASSUME FilesInv, NEW p \in Procs, InRw(p)
    PROVE  /\ alen(p) \in Nat /\ alen(p) <= call[p].left
           /\ call[p].left > 0 => alen(p) > 0
  <1>1. call[p].left \in Nat /\ call[p].left \in Int /\ IOBUF_SIZE \in Int
    BY InRwFacts, Bounds
  <1>2. alen(p) = IF IOBUF_SIZE <= call[p].left THEN IOBUF_SIZE ELSE call[p].left
    BY <1>1, MinPair DEF alen
  <1> QED
    BY <1>1, <1>2, Bounds

\* A piece gets through in part or as a whole.
LEMMA ThroughOK ==
    ASSUME FilesInv, NEW p \in Procs, InRw(p), call[p].i \in Files, NEW k \in through(p)
    PROVE  /\ k \in Nat /\ k <= alen(p)
           /\ inode[call[p].i].fptr \in Nat
           /\ inode[call[p].i].fptr + k \in Nat
  <1> DEFINE n == inode[call[p].i]
             end == IF call[p].op = "read" THEN n.fsize ELSE Capacity
             m == Min({alen(p), end - n.fptr})
  <1>1. n \in INode
    BY InRwFacts DEF InodesInv, InodeOK
  <1>2. n.fptr \in Nat /\ end \in Nat
    BY <1>1, Bounds DEF INode
  <1>3. alen(p) \in Nat
    BY AlenOK
  <1>4. k = Max({0, m}) \/ k = alen(p)
    BY DEF through
  <1> HIDE DEF n, end
  <1>5. m \in Int /\ m = IF alen(p) <= end - n.fptr THEN alen(p) ELSE end - n.fptr
    <2>1. end - n.fptr \in Int /\ alen(p) \in Int
      BY <1>2, <1>3
    <2>2. PICK d : d = end - n.fptr
      OBVIOUS
    <2> QED
      BY <2>1, <2>2, MinPair
  <1> HIDE DEF m
  <1>6. Max({0, m}) = IF 0 >= m THEN 0 ELSE m
    BY <1>5, MaxPair
  <1>7. k \in Nat /\ k <= alen(p) /\ n.fptr \in Nat /\ n.fptr + k \in Nat
    BY <1>2, <1>3, <1>4, <1>5, <1>6
  <1> QED
    BY <1>7 DEF n

LEMMA PieceKeeps ==
    ASSUME FilesInv, NEW p \in Procs, RwPiece(p)
    PROVE  FilesInv'
  <1>0. PICK k \in through(p) :
           /\ inode' = [inode EXCEPT ![call[p].i] =
                          advanced(inode[call[p].i], k, call[p].op, alen(p))]
           /\ Counted(p, k, atEnd(k))
    BY DEF RwPiece
  <1> DEFINE i == call[p].i
             at == At(p, call[p].fd)
             n1 == moved(inode[i], inode[i].fptr + k)
             n == [n1 EXCEPT !.wrt = @ \/ call[p].op = "write",
                             !.full = @ \/ (call[p].op = "write" /\ k < alen(p))]
             v == List(p)[at].pos + alen(p)
             l == IF atEnd(k) THEN 0 ELSE call[p].left - k
             c == [call[p] EXCEPT !.copied = @ + k, !.left = l]
  <1>1. InRw(p) /\ call[p].left > 0 /\ i \in Files /\ size' = size
    BY DEF RwPiece
  <1>2. inode' = [inode EXCEPT ![i] = n]
    BY <1>0 DEF advanced
  <1>3. files' = [files EXCEPT ![p].list[at].pos = v]
    BY DEF RwPiece, List
  <1>4. call' = [call EXCEPT ![p] = c]
    BY <1>0 DEF Counted
  <1>5. /\ Running(p) /\ InodesInv /\ ListsInv /\ CallsInv /\ files[p] # None
        /\ call[p] \in Rw /\ call[p].op \in {"read", "write"}
        /\ Has(List(p), call[p].fd, i) /\ i \in Inodes /\ inode[i] # None
        /\ at \in DOMAIN List(p) /\ List(p)[at].pos \in Int
        /\ call[p].copied = inode[i].fptr - call[p].start
        /\ call[p].left \in Nat /\ call[p].copied \in Int /\ call[p].start \in Int
    BY <1>1, InRwFacts
  <1>6. alen(p) \in Nat /\ alen(p) <= call[p].left
    BY <1>1, AlenOK
  <1>7. /\ k \in Nat /\ k <= alen(p) /\ inode[i].fptr \in Nat
        /\ inode[i].fptr + k \in Nat
    BY <1>1, ThroughOK
  <1>8. v \in Int /\ l \in Nat
    BY <1>5, <1>6, <1>7
  <1> HIDE DEF v, l, at
  <1>9. InodeOK(i, inode[i], size[i])
    BY <1>1, <1>5 DEF InodesInv, sizeOf
  <1>10. InodeOK(i, n1, size[i]) /\ n1.open = inode[i].open /\ n1.fptr = inode[i].fptr + k
    <2>1. PICK to \in Nat : to = inode[i].fptr + k
      BY <1>7
    <2>2. InodeOK(i, moved(inode[i], to), size[i])
          /\ moved(inode[i], to).open = inode[i].open /\ moved(inode[i], to).fptr = to
      BY <1>9, MovedOK
    <2> QED
      BY <2>1, <2>2
  <1> HIDE DEF n1
  <1>11. InodeOK(i, n, size[i]) /\ n.open = inode[i].open /\ n.fptr = inode[i].fptr + k
    <2>1. n1 \in INode /\ n1.wrt \in BOOLEAN /\ n1.full \in BOOLEAN
      BY <1>10 DEF InodeOK, INode
    <2>2. /\ n \in INode /\ n.open = n1.open /\ n.fptr = n1.fptr /\ n.fsize = n1.fsize
          /\ n.err = n1.err /\ (n1.wrt => n.wrt)
      BY <2>1 DEF INode
    <2> HIDE DEF n
    <2> QED
      BY <1>10, <2>2 DEF InodeOK
  <1> HIDE DEF n
  <1>12. Store(i, n, size[i])
    BY <1>1, <1>2, <1>5, AssignStore
  <1>13. InodesInv' /\ Grows /\ inode'[i] = n
    <2>1. inode[i].open \in Int
      BY <1>9, Bounds DEF InodeOK, INode
    <2> QED
      BY <1>5, <1>11, <1>12, <2>1, StoreGrows
  <1>14. /\ ListsInv' /\ OpenCovers' /\ files'[p] # None
         /\ \A q \in Procs \ {p} : files'[q] = files[q]
         /\ Has(List(p)', call[p].fd, i)
    BY <1>3, <1>5, <1>8, <1>13, PosSet
  <1>15. /\ c \in Rw /\ c.op = call[p].op /\ c.i = i /\ c.fd = call[p].fd
         /\ c.copied = call[p].copied + k /\ c.start = call[p].start
    <2>1. PICK s : s = call[p].copied + k /\ s \in Int
      BY <1>5, <1>7
    <2>2. c = [call[p] EXCEPT !.copied = s, !.left = l]
      BY <2>1
    <2> QED
      BY <1>5, <1>8, <2>1, <2>2 DEF Rw
  <1> HIDE DEF c
  <1>16. call'[p] = c
    BY <1>4, <1>5 DEF CallsInv
  <1>17. c.copied = n.fptr - c.start
    BY <1>5, <1>7, <1>11, <1>15
  <1>18. CallInv(p)'
    <2>1. /\ call'[p].op \in {"read", "write"} /\ call'[p].i = i /\ call'[p].fd = call[p].fd
          /\ call'[p].copied = inode'[i].fptr - call'[p].start
      BY <1>5, <1>13, <1>15, <1>16, <1>17
    <2> QED
      BY <1>14, <2>1 DEF CallInv
  <1>19. CallsInv'
    BY <1>4, <1>5, <1>14, <1>15, <1>18, CallsSet
  <1> QED
    BY <1>13, <1>14, <1>19 DEF FilesInv

\* A step that changes the inode of a file below a read or write of p, which it
\* ends.
LEMMA CallEnds ==
    ASSUME FilesInv, NEW p \in Procs, Running(p), Ended(p), InodesInv', Grows, files' = files
    PROVE  FilesInv'
  <1>1. CallsInv'
    BY CallsIdle DEF Ended
  <1> QED
    BY <1>1, SameLists

LEMMA CopyFailsKeeps ==
    ASSUME FilesInv, NEW p \in Procs, CopyFails(p)
    PROVE  FilesInv'
  <1> DEFINE i == call[p].i
             at == At(p, call[p].fd)
             n(k) == moved(inode[i], inode[i].fptr + k)
             v == List(p)[at].pos + alen(p)
             c(k) == [call[p] EXCEPT !.start = @ + k]
  <1>1. InRw(p) /\ call[p].left > 0 /\ size' = size
    BY DEF CopyFails
  <1>2. /\ Running(p) /\ InodesInv /\ ListsInv /\ CallsInv /\ files[p] # None
        /\ call[p] \in Rw /\ call[p].op \in {"read", "write"}
        /\ Has(List(p), call[p].fd, i) /\ i \in Inodes /\ inode[i] # None
        /\ at \in DOMAIN List(p) /\ List(p)[at].pos \in Int
        /\ i \in Files => call[p].copied = inode[i].fptr - call[p].start
        /\ call[p].copied \in Int /\ call[p].start \in Int
    BY <1>1, InRwFacts
  <1>3. CASE Ended(p) /\ UNCHANGED <<inode, files>>
    <2>1. InodesInv' /\ Grows
      BY <1>1, <1>2, <1>3, SameInodes
    <2> QED
      BY <1>2, <1>3, <2>1, CallEnds
  <1>4. ASSUME NEW k \in through(p), i \in Files, inode' = [inode EXCEPT ![i] = n(k)],
               files' = [files EXCEPT ![p].list[at].pos = v],
               call' = [call EXCEPT ![p] = c(k)]
        PROVE  FilesInv'
    <2>0. PICK m, d : m = n(k) /\ d = c(k)
      OBVIOUS
    <2>1. alen(p) \in Nat
      BY <1>1, AlenOK
    <2>2. k \in Nat /\ inode[i].fptr \in Nat /\ inode[i].fptr + k \in Nat
      BY <1>1, <1>4, ThroughOK
    <2>3. v \in Int
      BY <1>2, <2>1
    <2> HIDE DEF v, at
    <2>4. InodeOK(i, inode[i], size[i])
      BY <1>2, <1>4 DEF InodesInv, sizeOf
    <2>5. InodeOK(i, m, size[i]) /\ m.open = inode[i].open /\ m.fptr = inode[i].fptr + k
      <3>1. PICK to \in Nat : to = inode[i].fptr + k
        BY <2>2
      <3>2. InodeOK(i, moved(inode[i], to), size[i])
            /\ moved(inode[i], to).open = inode[i].open /\ moved(inode[i], to).fptr = to
        BY <2>4, MovedOK
      <3> QED
        BY <2>0, <3>1, <3>2
    <2> HIDE DEF n
    <2>6. Store(i, m, size[i])
      BY <2>0, <1>1, <1>2, <1>4, AssignStore
    <2>7. InodesInv' /\ Grows /\ inode'[i] = m
      <3>1. inode[i].open \in Int
        BY <2>4, Bounds DEF InodeOK, INode
      <3> QED
        BY <1>2, <2>5, <2>6, <3>1, StoreGrows
    <2>8. /\ ListsInv' /\ OpenCovers' /\ files'[p] # None
          /\ \A q \in Procs \ {p} : files'[q] = files[q]
          /\ Has(List(p)', call[p].fd, i)
      BY <1>2, <1>4, <2>3, <2>7, PosSet
    <2>9. /\ d \in Rw /\ d.op = call[p].op /\ d.i = i /\ d.fd = call[p].fd
          /\ d.copied = call[p].copied /\ d.start = call[p].start + k
      <3>1. PICK s : s = call[p].start + k /\ s \in Int
        BY <1>2, <2>2
      <3>2. d = [call[p] EXCEPT !.start = s]
        BY <2>0, <3>1
      <3> QED
        BY <1>2, <3>1, <3>2 DEF Rw
    <2> HIDE DEF c
    <2>10. call'[p] = d
      BY <2>0, <1>2, <1>4 DEF CallsInv
    <2>11. d.copied = m.fptr - d.start
      BY <1>2, <1>4, <2>2, <2>5, <2>9
    <2>12. CallInv(p)'
      <3>1. /\ call'[p].op \in {"read", "write"} /\ call'[p].i = i
            /\ call'[p].fd = call[p].fd
            /\ call'[p].copied = inode'[i].fptr - call'[p].start
        BY <1>2, <2>7, <2>9, <2>10, <2>11
      <3> QED
        BY <2>8, <3>1 DEF CallInv
    <2>13. CallsInv'
      BY <2>0, <1>2, <1>4, <2>8, <2>9, <2>12, CallsSet
    <2> QED
      BY <2>7, <2>8, <2>13 DEF FilesInv
  <1>5. \/ Ended(p) /\ UNCHANGED <<inode, files>>
        \/ \E k \in through(p) :
             /\ i \in Files /\ inode' = [inode EXCEPT ![i] = n(k)]
             /\ files' = [files EXCEPT ![p].list[at].pos = v]
             /\ call' = [call EXCEPT ![p] = c(k)]
    BY DEF CopyFails, List
  <1> QED
    BY <1>3, <1>4, <1>5

LEMMA RwFailsKeeps ==
    ASSUME FilesInv, NEW p \in Procs, RwFails(p)
    PROVE  FilesInv'
  <1> DEFINE i == call[p].i
  <1>1. /\ InRw(p) /\ Ended(p) /\ size' = size /\ files' = files
        /\ inode' = IF i \in Files THEN [inode EXCEPT ![i] = failed(inode[i])] ELSE inode
    BY DEF RwFails
  <1>2. Running(p) /\ InodesInv /\ i \in Inodes /\ inode[i] # None
    BY <1>1, InRwFacts
  <1> HIDE DEF i
  <1>3. CASE i \in Files
    <2>1. InodeOK(i, inode[i], size[i])
      BY <1>2, <1>3 DEF InodesInv, sizeOf
    <2>2. /\ inode[i] \in INode /\ inode[i].open \in Int
          /\ size[i] \in Nat /\ (inode[i].wrt \/ size[i] = inode[i].fsize)
      BY <1>3, <2>1, Bounds DEF InodeOK, INode
    <2>3. PICK n : n = failed(inode[i])
      OBVIOUS
    <2>4. InodeOK(i, n, size[i]) /\ n.open = inode[i].open
      BY <2>2, <2>3, FailedOK
    <2>5. Store(i, n, size[i])
      BY <1>1, <1>2, <1>3, <2>3, AssignStore
    <2>6. InodesInv' /\ Grows
      BY <1>2, <2>2, <2>4, <2>5, StoreGrows
    <2> QED
      BY <1>1, <1>2, <2>6, CallEnds
  <1>4. CASE i \notin Files
    <2>1. InodesInv' /\ Grows
      BY <1>1, <1>2, <1>4, SameInodes
    <2> QED
      BY <1>1, <1>2, <2>1, CallEnds
  <1> QED
    BY <1>3, <1>4

LEMMA EndsKeep ==
    ASSUME FilesInv, NEW p \in Procs, Running(p), Ended(p), UNCHANGED <<size, inode, files>>
    PROVE  FilesInv'
  <1>1. InodesInv' /\ Grows
    BY RunningFacts, SameInodes
  <1> QED
    BY <1>1, CallEnds

----------------------------------------------------------------------------
(* The bound on what can be opened.                                        *)

LEMMA MayOpenRoom ==
    ASSUME FilesInv, NEW n \in Nat, MayOpen(n), NEW i \in Inodes
    PROVE  opens(i) + n <= MaxOpen
  <1> DEFINE S == {o \in Inodes \X (1 .. MaxOpen) : o[2] <= opens(o[1])}
             T == {i} \X (1 .. opens(i))
  <1>1. opens(i) \in 0 .. MaxOpen
    BY OpensType DEF FilesInv
  <1>2. IsFiniteSet(Inodes)
    <2>1. IsFiniteSet({root, stdin, stdout})
      <3>1. IsFiniteSet({root}) /\ IsFiniteSet({stdin}) /\ IsFiniteSet({stdout})
        BY FS_Singleton
      <3>2. PICK A, B : A = {root} \cup {stdin} /\ B = {stdout}
        OBVIOUS
      <3>3. IsFiniteSet(A) /\ IsFiniteSet(B)
        BY <3>1, <3>2, FS_Union
      <3>4. IsFiniteSet(A \cup B)
        BY <3>3, FS_Union
      <3>5. {root, stdin, stdout} = A \cup B
        BY <3>2
      <3> QED
        BY <3>4, <3>5
    <2> QED
      BY <2>1, FS_Union, FilesAssumption DEF Inodes
  <1>3. IsFiniteSet(Inodes \X (1 .. MaxOpen))
    <2>1. IsFiniteSet(1 .. MaxOpen)
      BY FS_Interval, Bounds
    <2> QED
      BY <1>2, <2>1, FS_Product
  <1>4. IsFiniteSet(S) /\ Cardinality(S) \in Nat
    <2>1. S \subseteq Inodes \X (1 .. MaxOpen)
      OBVIOUS
    <2> QED
      BY <1>3, <2>1, FS_Subset, FS_CardinalityType
  <1>5. T \subseteq S
    <2> SUFFICES ASSUME NEW t \in T PROVE t \in S
      OBVIOUS
    <2>1. t \in Inodes \X (1 .. MaxOpen) /\ t[1] = i /\ t[2] <= opens(i)
      BY <1>1, Bounds
    <2> QED
      BY <2>1
  <1>6. Cardinality(T) = opens(i)
    <2>1. IsFiniteSet({i}) /\ Cardinality({i}) = 1
      BY FS_Singleton
    <2>2. IsFiniteSet(1 .. opens(i)) /\ Cardinality(1 .. opens(i)) = opens(i)
      BY <1>1, Bounds, FS_Interval
    <2>3. Cardinality(T) = Cardinality({i}) * Cardinality(1 .. opens(i))
      BY <2>1, <2>2, FS_Product
    <2> QED
      BY <1>1, <2>1, <2>2, <2>3, Bounds
  <1>7. Cardinality(T) <= Cardinality(S)
    BY <1>4, <1>5, FS_Subset
  <1>8. Cardinality(S) + n <= MaxOpen
    BY DEF MayOpen
  <1> HIDE DEF S, T
  <1> QED
    BY <1>1, <1>4, <1>6, <1>7, <1>8, Bounds

----------------------------------------------------------------------------
(* Opening a file.                                                         *)

\* One more user of i.
OneMoreUser(i) == inode'[i] # None /\ opens(i)' = opens(i) + 1

LEMMA OpenStep ==
    ASSUME FilesInv, NEW i \in Inodes, NEW o, OpenResult(i, o), Store(i, o.n, o.s)
    PROVE  /\ InodesInv' /\ Grows
           /\ o.ok => OneMoreUser(i)
  <1>1. InodesInv /\ opens(i) \in Nat
    BY OpensType, Bounds DEF FilesInv
  <1>2. /\ InodesInv' /\ inode'[i] = o.n
        /\ \A j \in Inodes \ {i} : inode'[j] = inode[j]
    BY <1>1, StoreInv DEF OpenResult
  <1>3. /\ inode[i] # None => inode'[i] # None
        /\ opens(i)' >= opens(i)
        /\ o.ok => inode'[i] # None /\ opens(i)' = opens(i) + 1
    BY <1>1, <1>2 DEF OpenResult, opens
  <1>4. ASSUME NEW j \in Inodes \ {i}
        PROVE  (inode[j] # None => inode'[j] # None) /\ opens(j)' >= opens(j)
    <2>1. opens(j) \in Nat
      BY <1>1, OpensType, Bounds
    <2>2. inode'[j] = inode[j] /\ opens(j)' = opens(j)
      BY <1>2 DEF opens
    <2> QED
      BY <2>1, <2>2
  <1>5. Grows
    BY <1>3, <1>4 DEF Grows
  <1> QED
    BY <1>2, <1>3, <1>5 DEF OneMoreUser

\* The flags of open and exec.
OpenedWith(flags) == flags \in OpenFlags \/ flags = ReadOnly

LEMMA RightsType ==
    ASSUME NEW flags, OpenedWith(flags)
    PROVE  Rights(flags) \in SUBSET {"r", "w"}
  <1>1. flags.mode \in {"READ", "WRITE", "RW"}
    BY FlagsAssumption DEF ReadOnly, OpenedWith
  <1> QED
    BY <1>1 DEF Rights

\* The lists before and after: one entry for i, new or the one there was.
OneMore(p, i, fs) ==
    /\ fs \in FileStruct_t /\ ListOK(fs.list, fs.next)
    /\ \A k \in DOMAIN fs.list :
          fs.list[k].i = i \/ \E l \in DOMAIN List(p) : fs.list[k].i = List(p)[l].i
    /\ \E d \in 0 .. MaxFds : \A fd, j :
          Has(fs.list, fd, j) => Has(List(p), fd, j) \/ (fd = d /\ j = i)
    /\ List(p) = << >> => fs.list # << >> /\ Head(fs.list).i = i

LEMMA OpenedList ==
    ASSUME ListsInv, NEW p \in Procs, files[p] # None, files[p].next < MaxFds, NEW i \in Inodes,
           NEW flags, OpenedWith(flags), NEW fs, fs = fileOpened(files[p], i, flags)
    PROVE  OneMore(p, i, fs)
  <1> DEFINE same == {k \in DOMAIN List(p) : List(p)[k].i = i}
             file(fd) == [fd |-> fd, i |-> i, pos |-> 0, rights |-> Rights(flags)]
  <1>1. /\ files[p] \in FileStruct_t /\ List(p) \in Seq(File_t)
        /\ files[p].next \in 0 .. MaxFds /\ ListOK(List(p), files[p].next)
        /\ files[p].list = List(p)
    BY ListType DEF List
  <1>2. ASSUME NEW fd \in 0 .. MaxFds
        PROVE  file(fd) \in File_t /\ file(fd).fd = fd /\ file(fd).i = i
    BY RightsType DEF File_t
  <1>3. CASE same # {}
    <2>1. PICK m \in DOMAIN List(p) : List(p)[m].i = i
      BY <1>3
    <2>2. /\ m \in 1 .. Len(List(p)) /\ List(p)[m].fd \in 0 .. MaxFds
      BY <1>1, EntryType
    <2>3. Min(same) = m
      <3>1. PICK S : S = same
        OBVIOUS
      <3>2. m \in S /\ \A x \in S : x = m
        BY <1>1, <2>1, <3>1 DEF ListOK
      <3>3. m \in Int
        BY <2>2
      <3>4. Min(S) = m
        BY <3>2, <3>3, MinOne
      <3> QED
        BY <3>1, <3>4
    <2>4. PICK e : e = file(List(p)[m].fd)
      OBVIOUS
    <2>5. e \in File_t /\ e.fd = List(p)[m].fd /\ e.i = i
      BY <1>2, <2>2, <2>4
    <2>6. fs = [files[p] EXCEPT !.list = [List(p) EXCEPT ![m] = e]]
      BY <1>1, <1>3, <2>3, <2>4 DEF fileOpened
    <2>7. PICK list : list = [List(p) EXCEPT ![m] = e]
      OBVIOUS
    <2>8. list \in Seq(File_t) /\ DOMAIN list = DOMAIN List(p) /\ Len(list) = Len(List(p))
      BY <1>1, <2>5, <2>7, ExceptSeq
    <2>9. \A l \in DOMAIN list : list[l].fd = List(p)[l].fd /\ list[l].i = List(p)[l].i
      BY <1>1, <2>1, <2>5, <2>7, <2>8
    <2>10. fs \in FileStruct_t /\ fs.list = list /\ fs.next = files[p].next
      BY <1>1, <2>6, <2>7, <2>8 DEF FileStruct_t
    <2>11. ListOK(fs.list, fs.next)
      BY <1>1, <2>8, <2>9, <2>10 DEF ListOK
    <2>12. \A fd, j : Has(fs.list, fd, j) => Has(List(p), fd, j)
      BY <2>8, <2>9, <2>10 DEF Has
    <2>13. List(p) # << >>
      BY <2>2
    <2> HIDE DEF file, same
    <2> QED
      BY <2>2, <2>8, <2>9, <2>10, <2>11, <2>12, <2>13 DEF OneMore
  <1>4. CASE same = {}
    <2>1. PICK d \in 0 .. MaxFds : d = files[p].next
      BY <1>1
    <2>2. PICK e : e = file(d)
      OBVIOUS
    <2>3. e \in File_t /\ e.fd = d /\ e.i = i
      BY <1>2, <2>2
    <2>4. PICK list : list = <<e>> \o List(p)
      OBVIOUS
    <2>5. fs = [files[p] EXCEPT !.list = list, !.next = d + 1]
      BY <1>1, <1>4, <2>1, <2>2, <2>4 DEF fileOpened
    <2>6. /\ list \in Seq(File_t) /\ Len(list) = Len(List(p)) + 1 /\ list[1] = e
          /\ \A k \in 2 .. Len(list) : list[k] = List(p)[k - 1]
      BY <1>1, <2>3, <2>4
    <2>7. d + 1 \in 0 .. MaxFds
      BY <2>1, Bounds
    <2>8. fs \in FileStruct_t /\ fs.list = list /\ fs.next = d + 1
      BY <1>1, <2>5, <2>6, <2>7 DEF FileStruct_t
    <2>9. \A k \in DOMAIN List(p) : List(p)[k].i # i /\ List(p)[k].fd < d
          /\ List(p)[k].fd \in Nat
      BY <1>1, <1>4, <2>1, EntryType, Bounds DEF ListOK
    <2>10. ASSUME NEW k \in DOMAIN list
           PROVE  \/ k = 1 /\ list[k] = e
                  \/ k - 1 \in DOMAIN List(p) /\ list[k] = List(p)[k - 1] /\ k \in Nat
      BY <1>1, <2>6
    <2> HIDE DEF file, same
    <2>11. ListOK(list, d + 1)
      <3> SUFFICES ASSUME NEW k \in DOMAIN list, NEW l \in DOMAIN list
                   PROVE  /\ list[k].fd < d + 1
                          /\ k # l => list[k].fd # list[l].fd /\ list[k].i # list[l].i
        BY DEF ListOK
      <3>1. list[k].fd < d + 1
        BY <2>1, <2>3, <2>9, <2>10, Bounds
      <3>2. ASSUME k # l PROVE list[k].fd # list[l].fd /\ list[k].i # list[l].i
        <4>1. CASE list[k] = e /\ k = 1
          BY <2>1, <2>3, <2>9, <2>10, <3>2, <4>1, Bounds
        <4>2. CASE list[l] = e /\ l = 1
          BY <2>1, <2>3, <2>9, <2>10, <3>2, <4>2, Bounds
        <4>3. CASE /\ k - 1 \in DOMAIN List(p) /\ list[k] = List(p)[k - 1] /\ k \in Nat
                   /\ l - 1 \in DOMAIN List(p) /\ list[l] = List(p)[l - 1] /\ l \in Nat
          <5>1. k - 1 # l - 1
            BY <3>2, <4>3
          <5> QED
            BY <1>1, <4>3, <5>1 DEF ListOK
        <4> QED
          BY <2>10, <4>1, <4>2, <4>3
      <3> QED
        BY <3>1, <3>2
    <2>12. \A fd, j : Has(list, fd, j) => Has(List(p), fd, j) \/ (fd = d /\ j = i)
      BY <2>3, <2>10 DEF Has
    <2>13. list # << >> /\ Head(list).i = i
      BY <1>1, <2>3, <2>6
    <2>14. \A k \in DOMAIN list :
               list[k].i = i \/ \E l \in DOMAIN List(p) : list[k].i = List(p)[l].i
      BY <2>3, <2>10
    <2> QED
      BY <2>1, <2>8, <2>11, <2>12, <2>13, <2>14 DEF OneMore
  <1> QED
    BY <1>3, <1>4

\* p gets a descriptor for i more, or none, and i a user more.
LEMMA OpenedKeeps ==
    ASSUME FilesInv, NEW p \in Procs, files[p] # None, files[p].next < MaxFds, NEW i \in Inodes,
           NEW fs, OneMore(p, i, fs), files' = [files EXCEPT ![p] = fs],
           InodesInv', Grows, OneMoreUser(i)
    PROVE  /\ ListsInv' /\ OpenCovers' /\ files'[p] # None
           /\ List(p) = << >> => List(p)' # << >> /\ Head(List(p)').i = i
  <1>0. InodesInv /\ ListsInv /\ OpenCovers
    BY DEF FilesInv
  <1>2. /\ fs \in FileStruct_t /\ ListOK(fs.list, fs.next)
        /\ \A k \in DOMAIN fs.list :
              fs.list[k].i = i \/ \E l \in DOMAIN List(p) : fs.list[k].i = List(p)[l].i
        /\ List(p) = << >> => fs.list # << >> /\ Head(fs.list).i = i
    BY DEF OneMore
  <1>3. PICK d \in 0 .. MaxFds : \A fd, j :
              Has(fs.list, fd, j) => Has(List(p), fd, j) \/ (fd = d /\ j = i)
    BY DEF OneMore
  <1>4. files'[p] = fs /\ List(p)' = fs.list
    BY <1>0 DEF ListsInv, List
  <1>5. \A j \in Inodes : inode[j] # None => inode'[j] # None
    BY DEF Grows
  <1>6. \A k \in DOMAIN fs.list : inode'[fs.list[k].i] # None
    <2>1. List(p) \in Seq(File_t) /\ \A l \in DOMAIN List(p) : inode[List(p)[l].i] # None
      BY <1>0, ListType
    <2>2. \A l \in DOMAIN List(p) : List(p)[l].i \in Inodes
      BY <2>1, EntryType
    <2> QED
      BY <1>2, <1>5, <2>1, <2>2 DEF OneMoreUser
  <1>7. ListsInv'
    <2>1. FitsInodes(fs)
      BY <1>2, <1>6 DEF FitsInodes
    <2> QED
      BY <1>0, <1>5, <2>1, ListsSet
  <1>8. ASSUME NEW j \in Inodes PROVE opens(j)' >= Cardinality(Refs(j)')
    <2>1. opens(j) >= Cardinality(Refs(j)) /\ opens(j)' >= opens(j)
          /\ opens(j) \in Nat /\ opens(j)' \in Nat
      <3>1. inode'[j] \in INode \cup {None}
        BY DEF InodesInv
      <3>2. opens(j)' \in Nat
        BY <3>1, Bounds DEF opens, INode
      <3> QED
        BY <1>0, <3>2, OpensType, Bounds DEF OpenCovers, Grows
    <2>2. ASSUME NEW r \in Refs(j)' PROVE r \in Refs(j) \/ (r = <<p, d>> /\ j = i)
      <3>1. PICK q \in Procs, fd \in 0 .. MaxFds : r = <<q, fd>>
        BY RefsPair
      <3>2. CASE q = p
        <4>1. Has(fs.list, fd, j)
          BY <1>4, <3>1, <3>2, RefsHas
        <4>2. Has(List(p), fd, j) \/ (fd = d /\ j = i)
          BY <1>3, <4>1
        <4> QED
          BY <3>1, <3>2, <4>2, RefsHas
      <3>3. CASE q # p
        BY <1>0, <1>4, <3>1, <3>3, RefsOthers
      <3> QED
        BY <3>2, <3>3
    <2>3. IsFiniteSet(Refs(j)) /\ Cardinality(Refs(j)) \in Nat
      BY RefsFinite, FS_CardinalityType
    <2>4. CASE j = i
      <3>1. Refs(j)' \subseteq Refs(j) \cup {<<p, d>>}
        BY <2>2
      <3>2. IsFiniteSet(Refs(j) \cup {<<p, d>>})
            /\ Cardinality(Refs(j) \cup {<<p, d>>}) <= Cardinality(Refs(j)) + 1
        BY <2>3, AddOne
      <3>3. Cardinality(Refs(j)') <= Cardinality(Refs(j) \cup {<<p, d>>})
            /\ Cardinality(Refs(j)') \in Nat /\ Cardinality(Refs(j) \cup {<<p, d>>}) \in Nat
        BY <3>1, <3>2, FS_Subset, FS_CardinalityType
      <3> QED
        BY <2>1, <2>3, <2>4, <3>2, <3>3 DEF OneMoreUser
    <2>5. CASE j # i
      <3>1. Refs(j)' \subseteq Refs(j)
        BY <2>2, <2>5
      <3>2. Cardinality(Refs(j)') <= Cardinality(Refs(j)) /\ Cardinality(Refs(j)') \in Nat
        BY <2>3, <3>1, FS_Subset, FS_CardinalityType
      <3> QED
        BY <2>1, <2>3, <3>2
    <2> QED
      BY <2>4, <2>5
  <1>9. OpenCovers'
    BY <1>8 DEF OpenCovers
  <1> QED
    BY <1>2, <1>4, <1>7, <1>9, NotNone

LEMMA OpenKeeps ==
    ASSUME FilesInv, NEW p \in Procs, NEW i \in Inodes, NEW flags \in OpenFlags,
           sys_open(p, i, flags)
    PROVE  FilesInv'
  <1>1. /\ Running(p) /\ call[p] = None /\ call' = call /\ MayOpen(1)
        /\ files[p].next < MaxFds
    BY DEF sys_open, Calls
  <1>2. PICK o \in vfs_open(i, flags) : file_open(p, i, flags, o)
    BY DEF sys_open
  <1>3. InodesInv /\ ListsInv /\ files[p] # None
    BY <1>1, RunningFacts
  <1>4. opens(i) < MaxOpen
    <2>1. opens(i) + 1 <= MaxOpen /\ opens(i) \in Nat
      BY <1>1, <1>3, MayOpenRoom, OpensType, Bounds
    <2> QED
      BY <2>1, Bounds
  <1>5. OpenResult(i, o)
    BY <1>2, <1>4, VfsOpenOK
  <1>6. /\ InodesInv' /\ Grows
        /\ o.ok => OneMoreUser(i)
    BY <1>2, <1>5, OpenStep DEF file_open
  <1>7. CASE o.ok
    <2>0. PICK fs : fs = fileOpened(files[p], i, flags)
      OBVIOUS
    <2>1. files' = [files EXCEPT ![p] = fs]
      BY <1>2, <1>7, <2>0 DEF file_open
    <2>2. ListsInv' /\ OpenCovers'
      <3>1. OpenedWith(flags)
        BY DEF OpenedWith
      <3>2. OneMore(p, i, fs)
        BY <1>1, <1>3, <2>0, <3>1, OpenedList
      <3> QED
        BY <1>1, <1>3, <1>6, <1>7, <2>1, <3>2, OpenedKeeps
    <2>3. \A q \in Procs \ {p} : files'[q] = files[q]
      BY <1>3, <2>1 DEF ListsInv
    <2>4. CallsInv'
      BY <1>1, <2>3, CallsIdle
    <2> QED
      BY <1>6, <2>2, <2>4 DEF FilesInv
  <1>8. CASE ~o.ok
    <2>1. files' = files
      BY <1>2, <1>8 DEF file_open
    <2>2. CallsInv'
      BY <1>1, <2>1, CallsIdle
    <2> QED
      BY <1>6, <2>1, <2>2, SameLists
  <1> QED
    BY <1>7, <1>8

----------------------------------------------------------------------------
(* Closing files.                                                          *)

\* Taking one element out.
LEMMA RemoveAtElements ==
    ASSUME NEW S, NEW q \in Seq(S), NEW k \in 1 .. Len(q)
    PROVE  /\ RemoveAt(q, k) \in Seq(S)
           /\ Len(RemoveAt(q, k)) = Len(q) - 1
           /\ \A j \in 1 .. Len(q) - 1 :
                 RemoveAt(q, k)[j] = IF j < k THEN q[j] ELSE q[j + 1]
  <1> DEFINE a == SubSeq(q, 1, k - 1)
             b == SubSeq(q, k + 1, Len(q))
  <1>1. /\ a \in Seq(S) /\ Len(a) = k - 1
        /\ \A j \in 1 .. k - 1 : a[j] = q[j]
    BY SubSeqProperties
  <1>2. /\ b \in Seq(S) /\ Len(b) = Len(q) - k
        /\ \A j \in 1 .. Len(q) - k : b[j] = q[k + j]
    BY SubSeqProperties
  <1>3. RemoveAt(q, k) = a \o b
    BY DEF RemoveAt
  <1> HIDE DEF a, b
  <1>4. /\ a \o b \in Seq(S) /\ Len(a \o b) = Len(a) + Len(b)
        /\ \A j \in 1 .. Len(a) + Len(b) :
              (a \o b)[j] = IF j <= Len(a) THEN a[j] ELSE b[j - Len(a)]
    BY <1>1, <1>2, ConcatProperties
  <1>5. ASSUME NEW j \in 1 .. Len(q) - 1
        PROVE  (a \o b)[j] = IF j < k THEN q[j] ELSE q[j + 1]
    <2>1. CASE j < k
      BY <1>1, <1>2, <1>4, <2>1
    <2>2. CASE ~(j < k)
      <3>1. /\ j - (k - 1) \in 1 .. Len(q) - k /\ k + (j - (k - 1)) = j + 1
            /\ j \in 1 .. Len(a) + Len(b) /\ ~(j <= Len(a))
        BY <1>1, <1>2, <2>2
      <3>2. (a \o b)[j] = b[j - (k - 1)]
        BY <1>1, <1>4, <3>1
      <3>3. b[j - (k - 1)] = q[k + (j - (k - 1))]
        BY <1>2, <3>1
      <3> QED
        BY <2>2, <3>1, <3>2, <3>3
    <2> QED
      BY <2>1, <2>2
  <1>6. Len(a \o b) = Len(q) - 1
    BY <1>1, <1>2, <1>4
  <1> QED
    BY <1>3, <1>4, <1>5, <1>6

\* r is the list q without its element k.
Dropped(r, q, k) ==
    /\ r \in Seq(File_t) /\ Len(r) = Len(q) - 1
    /\ \A j \in 1 .. Len(q) - 1 : r[j] = q[IF j < k THEN j ELSE j + 1]

LEMMA DroppedOK ==
    ASSUME NEW q \in Seq(File_t), NEW n \in Nat, ListOK(q, n), NEW k \in 1 .. Len(q),
           NEW r, Dropped(r, q, k)
    PROVE  /\ r \in Seq(File_t) /\ ListOK(r, n)
           /\ \A fd, i : Has(r, fd, i) => Has(q, fd, i) /\ fd # q[k].fd
  <1> DEFINE f(j) == IF j < k THEN j ELSE j + 1
  <1>1. /\ r \in Seq(File_t) /\ DOMAIN r = 1 .. Len(q) - 1 /\ DOMAIN q = 1 .. Len(q)
        /\ Len(q) \in Nat
    BY DEF Dropped
  <1>2. \A j \in DOMAIN r : f(j) \in DOMAIN q /\ f(j) # k /\ r[j] = q[f(j)]
    BY <1>1 DEF Dropped
  <1>3. \A j, l \in DOMAIN r : j # l => f(j) # f(l)
    BY <1>1
  <1> HIDE DEF f
  <1>4. ListOK(r, n)
    BY <1>2, <1>3 DEF ListOK
  <1>5. ASSUME NEW fd, NEW i, Has(r, fd, i) PROVE Has(q, fd, i) /\ fd # q[k].fd
    <2>1. PICK j \in DOMAIN r : r[j].fd = fd /\ r[j].i = i
      BY <1>5 DEF Has
    <2>2. f(j) \in DOMAIN q /\ f(j) # k /\ q[f(j)].fd = fd /\ q[f(j)].i = i
      BY <1>2, <2>1
    <2> QED
      BY <1>1, <2>2 DEF Has, ListOK
  <1> QED
    BY <1>1, <1>4, <1>5

LEMMA RemovedDropped ==
    ASSUME NEW q \in Seq(File_t), NEW k \in 1 .. Len(q)
    PROVE  Dropped(RemoveAt(q, k), q, k)
  <1>1. PICK r : r = RemoveAt(q, k)
    OBVIOUS
  <1>2. /\ r \in Seq(File_t) /\ Len(r) = Len(q) - 1
        /\ \A j \in 1 .. Len(q) - 1 : r[j] = IF j < k THEN q[j] ELSE q[j + 1]
    BY <1>1, RemoveAtElements
  <1> QED
    BY <1>1, <1>2 DEF Dropped

LEMMA TailDropped ==
    ASSUME NEW q \in Seq(File_t), q # << >>
    PROVE  Dropped(Tail(q), q, 1) /\ 1 \in 1 .. Len(q) /\ Head(q) = q[1]
  <1>1. Len(q) \in Nat /\ Len(q) > 0 /\ Tail(q) \in Seq(File_t)
    OBVIOUS
  <1>2. Len(Tail(q)) = Len(q) - 1 /\ \A j \in 1 .. Len(q) - 1 : Tail(q)[j] = q[j + 1]
    BY <1>1
  <1> QED
    BY <1>1, <1>2 DEF Dropped

\* p drops descriptors, and no inode is closed.
LEMMA ShrinkKeeps ==
    ASSUME FilesInv, NEW p \in Procs, files[p] # None, NEW fs \in FileStruct_t,
           files' = [files EXCEPT ![p] = fs], ListOK(fs.list, fs.next),
           \A fd, i : Has(fs.list, fd, i) => Has(List(p), fd, i), Grows, InodesInv'
    PROVE  /\ ListsInv' /\ OpenCovers' /\ files'[p] = fs /\ fs # None
           /\ \A q \in Procs \ {p} : files'[q] = files[q]
  <1>1. /\ InodesInv /\ ListsInv /\ OpenCovers
        /\ files \in [Procs -> FileStruct_t \cup {None}]
    BY DEF FilesInv, ListsInv
  <1>2. \A j \in Inodes : inode[j] # None => inode'[j] # None
    BY DEF Grows
  <1>3. ASSUME NEW k \in DOMAIN fs.list PROVE inode'[fs.list[k].i] # None
    <2>1. Has(fs.list, fs.list[k].fd, fs.list[k].i)
      BY DEF Has
    <2>2. Has(List(p), fs.list[k].fd, fs.list[k].i)
      BY <2>1
    <2>3. inode[fs.list[k].i] # None /\ fs.list[k].i \in Inodes
      BY <1>1, <2>2, FoundFd
    <2> QED
      BY <1>2, <2>3
  <1>4. ListsInv'
    <2>1. FitsInodes(fs)
      BY <1>3 DEF FitsInodes
    <2> QED
      BY <1>1, <1>2, <2>1, ListsSet
  <1>5. OpenCovers'
    BY <1>1, CoversShrink
  <1> QED
    BY <1>1, <1>4, <1>5, NotNone

LEMMA ExitedOK ==
    /\ Exited \in FileStruct_t /\ ListOK(Exited.list, Exited.next)
    /\ \A fd, i : ~Has(Exited.list, fd, i)
  <1>1. NewFiles \in FileStruct_t /\ NewFiles.list = << >>
    BY Bounds DEF NewFiles, FileStruct_t
  <1>2. Exited \in FileStruct_t /\ Exited.list = << >>
    BY <1>1 DEF Exited, FileStruct_t
  <1>3. DOMAIN << >> = {}
    OBVIOUS
  <1> QED
    BY <1>2, <1>3 DEF ListOK, Has

LEMMA ExitKeeps ==
    ASSUME FilesInv, NEW p \in Procs, Running(p), exited(p),
           call' = [call EXCEPT ![p] = None] \/ (call[p] = None /\ call' = call),
           InodesInv', Grows
    PROVE  FilesInv'
  <1>1. files[p] # None
    BY RunningFacts
  <1>2. files' = [files EXCEPT ![p] = Exited]
    BY DEF exited
  <1>3. /\ ListsInv' /\ OpenCovers'
        /\ \A q \in Procs \ {p} : files'[q] = files[q]
    BY <1>1, <1>2, ExitedOK, ShrinkKeeps
  <1>4. CallsInv'
    BY <1>3, CallsIdle
  <1> QED
    BY <1>3, <1>4 DEF FilesInv

\* fat_sync() and the count one lower: it was at least 1.
LEMMA ClosingOK ==
    ASSUME NEW i \in Files, NEW n, NEW s, InodeOK(i, n, s), n.open > 0,
           NEW o \in fat_sync(n, s)
    PROVE  /\ InodeOK(i, Closing(o[1]), o[2])
           /\ Closing(o[1]).open = n.open - 1
  <1>1. InodeOK(i, o[1], o[2]) /\ o[1].open = n.open
    BY SyncOK
  <1>2. PICK m : m = o[1]
    OBVIOUS
  <1>3. m \in INode /\ m.open - 1 \in 0 .. MaxOpen
    BY <1>1, <1>2, Bounds DEF InodeOK, INode
  <1>4. PICK c : c = Closing(m)
    OBVIOUS
  <1>5. /\ c \in INode /\ c.open = m.open - 1 /\ c.fptr = m.fptr /\ c.fsize = m.fsize
        /\ c.err = m.err /\ c.wrt = m.wrt
    BY <1>3, <1>4 DEF Closing, INode
  <1>6. InodeOK(i, c, o[2])
    BY <1>1, <1>2, <1>5 DEF InodeOK
  <1> QED
    BY <1>1, <1>2, <1>4, <1>5, <1>6

LEMMA RemoveOne ==
    ASSUME NEW S, NEW T, NEW x \in S, IsFiniteSet(S), T \subseteq S \ {x}
    PROVE  Cardinality(T) <= Cardinality(S) - 1 /\ Cardinality(T) \in Nat
           /\ Cardinality(S) \in Nat /\ Cardinality(S) > 0
  <1>1. IsFiniteSet(S \ {x}) /\ Cardinality(S \ {x}) = Cardinality(S) - 1
    BY FS_RemoveElement
  <1>2. IsFiniteSet(T) /\ Cardinality(T) <= Cardinality(S \ {x})
    BY <1>1, FS_Subset
  <1>3. Cardinality(T) \in Nat /\ Cardinality(S) \in Nat /\ Cardinality(S \ {x}) \in Nat
    BY <1>1, <1>2, FS_CardinalityType
  <1> QED
    BY <1>1, <1>2, <1>3

LEMMA CloseKeeps ==
    ASSUME FilesInv, NEW p \in Procs, files[p] # None, NEW fd, fd \in Fds(p), file_close(p, fd)
    PROVE  /\ InodesInv' /\ ListsInv' /\ OpenCovers'
           /\ \A q \in Procs \ {p} : files'[q] = files[q]
  <1>0. /\ InodesInv /\ ListsInv /\ OpenCovers
        /\ files \in [Procs -> FileStruct_t \cup {None}]
    BY DEF FilesInv, ListsInv
  <1>1. PICK i : i = TheFile(p, fd).i
    OBVIOUS
  <1>2. PICK k : k = At(p, fd)
    OBVIOUS
  <1>3. Has(List(p), fd, i)
    BY <1>0, <1>1, FdHas
  <1>4. /\ k \in DOMAIN List(p) /\ List(p)[k].fd = fd
        /\ fd \in 0 .. MaxFds /\ i \in Inodes /\ inode[i] # None
    BY <1>0, <1>2, <1>3, FoundFd
  <1>5. /\ files[p] \in FileStruct_t /\ List(p) \in Seq(File_t)
        /\ files[p].next \in 0 .. MaxFds /\ ListOK(List(p), files[p].next)
    BY <1>0, ListType
  <1>6. PICK fs : fs = closed(files[p], k)
    OBVIOUS
  <1>7. files' = [files EXCEPT ![p] = fs] /\ vfs_close(i)
    BY <1>1, <1>2, <1>6 DEF file_close
  <1>8. Dropped(RemoveAt(List(p), k), List(p), k) /\ k \in 1 .. Len(List(p))
    BY <1>4, <1>5, RemovedDropped, EntryType
  <1>9. /\ RemoveAt(List(p), k) \in Seq(File_t)
        /\ ListOK(RemoveAt(List(p), k), files[p].next)
        /\ \A d, j : Has(RemoveAt(List(p), k), d, j) => Has(List(p), d, j) /\ d # fd
    <2>1. files[p].next \in Nat
      BY <1>5, Bounds
    <2> QED
      BY <1>4, <1>5, <1>8, <2>1, DroppedOK
  <1>10. fs \in FileStruct_t /\ fs.list = RemoveAt(List(p), k) /\ fs.next = files[p].next
    BY <1>5, <1>6, <1>9 DEF closed, FileStruct_t, List
  <1>11. files'[p] = fs /\ List(p)' = fs.list
    BY <1>0, <1>7 DEF List
  \* One descriptor less refers to i, and none more to anything.
  <1>12. ASSUME NEW j \in Inodes PROVE Refs(j)' \subseteq Refs(j) \ {<<p, fd>>}
    <2> SUFFICES ASSUME NEW r \in Refs(j)' PROVE r \in Refs(j) /\ r # <<p, fd>>
      OBVIOUS
    <2>1. PICK q \in Procs, d \in 0 .. MaxFds : r = <<q, d>>
      BY RefsPair
    <2>2. CASE q = p
      <3>1. Has(fs.list, d, j)
        BY <1>11, <2>1, <2>2, RefsHas
      <3>2. Has(List(p), d, j) /\ d # fd
        BY <1>9, <1>10, <3>1
      <3> QED
        BY <2>1, <2>2, <3>2, RefsHas
    <2>3. CASE q # p
      BY <1>0, <1>7, <2>1, <2>3, RefsOthers
    <2> QED
      BY <2>2, <2>3
  <1>13. <<p, fd>> \in Refs(i)
    BY <1>3, <1>4, RefsHas
  <1>14. /\ IsFiniteSet(Refs(i))
         /\ \A j \in Inodes : IsFiniteSet(Refs(j)) /\ Cardinality(Refs(j)) \in Nat
                              /\ opens(j) >= Cardinality(Refs(j)) /\ opens(j) \in Nat
    BY <1>0, RefsFinite, FS_CardinalityType, OpensType, Bounds DEF OpenCovers
  <1>15. /\ Cardinality(Refs(i)') <= Cardinality(Refs(i)) - 1 /\ Cardinality(Refs(i)') \in Nat
         /\ Cardinality(Refs(i)) > 0
    BY <1>4, <1>12, <1>13, <1>14, RemoveOne
  <1>16. ASSUME NEW j \in Inodes
         PROVE  Cardinality(Refs(j)') <= Cardinality(Refs(j)) /\ Cardinality(Refs(j)') \in Nat
    <2>1. Refs(j)' \subseteq Refs(j)
      BY <1>12
    <2> QED
      BY <1>14, <2>1, FS_Subset, FS_CardinalityType
  <1>17. ASSUME i \in Files
         PROVE  InodesInv' /\ OpenCovers' /\ \A j \in Inodes : inode[j] # None => inode'[j] # None
    <2>1. PICK o \in fat_sync(inode[i], size[i]) : Store(i, Closing(o[1]), o[2])
      BY <1>7, <1>17 DEF vfs_close, HasSync
    <2>2. InodeOK(i, inode[i], size[i]) /\ inode[i].open = opens(i)
      BY <1>0, <1>4, <1>17 DEF InodesInv, sizeOf, opens
    <2>3. PICK n, s : n = Closing(o[1]) /\ s = o[2]
      OBVIOUS
    <2>4. InodeOK(i, n, s) /\ n.open = opens(i) - 1 /\ n # None
      <3>1. inode[i].open > 0
        BY <1>4, <1>14, <1>15, <2>2
      <3>2. InodeOK(i, n, s) /\ n.open = opens(i) - 1
        BY <1>17, <2>1, <2>2, <2>3, <3>1, ClosingOK
      <3> QED
        BY <3>2, NotNone DEF InodeOK
    <2>5. /\ InodesInv' /\ inode'[i] = n
          /\ \A j \in Inodes \ {i} : inode'[j] = inode[j]
      BY <1>0, <1>4, <2>1, <2>3, <2>4, StoreInv
    <2>6. \A j \in Inodes : inode[j] # None => inode'[j] # None
      BY <2>4, <2>5
    <2>7. opens(i)' = opens(i) - 1 /\ \A j \in Inodes \ {i} : opens(j)' = opens(j)
      BY <2>4, <2>5 DEF opens
    <2>8. OpenCovers'
      <3> SUFFICES ASSUME NEW j \in Inodes PROVE opens(j)' >= Cardinality(Refs(j)')
        BY DEF OpenCovers
      <3>1. CASE j = i
        BY <1>4, <1>14, <1>15, <2>7, <3>1
      <3>2. CASE j # i
        BY <1>14, <1>16, <2>7, <3>2
      <3> QED
        BY <3>1, <3>2
    <2> QED
      BY <2>5, <2>6, <2>8
  <1>18. ASSUME i \notin Files
         PROVE  InodesInv' /\ OpenCovers' /\ \A j \in Inodes : inode[j] # None => inode'[j] # None
    <2>1. UNCHANGED <<size, inode>>
      BY <1>7, <1>18 DEF vfs_close, HasSync
    <2>2. InodesInv'
      BY <1>0, <2>1, SameInodes
    <2>3. \A j \in Inodes : opens(j)' = opens(j)
      BY <2>1 DEF opens
    <2>4. OpenCovers'
      BY <1>14, <1>16, <2>3 DEF OpenCovers
    <2> QED
      BY <2>1, <2>2, <2>4
  <1>19. InodesInv' /\ OpenCovers' /\ \A j \in Inodes : inode[j] # None => inode'[j] # None
    BY <1>17, <1>18
  <1>20. \A l \in DOMAIN fs.list : inode'[fs.list[l].i] # None
    <2> SUFFICES ASSUME NEW l \in DOMAIN fs.list PROVE inode'[fs.list[l].i] # None
      OBVIOUS
    <2>1. Has(fs.list, fs.list[l].fd, fs.list[l].i)
      BY DEF Has
    <2>2. Has(List(p), fs.list[l].fd, fs.list[l].i)
      BY <1>9, <1>10, <2>1
    <2>3. inode[fs.list[l].i] # None /\ fs.list[l].i \in Inodes
      BY <1>0, <2>2, FoundFd
    <2> QED
      BY <1>19, <2>3
  <1>21. ListsInv'
    <2>1. FitsInodes(fs)
      BY <1>9, <1>10, <1>20 DEF FitsInodes
    <2> QED
      BY <1>0, <1>7, <1>19, <2>1, ListsSet
  <1> QED
    BY <1>0, <1>7, <1>19, <1>21

LEMMA SysCloseKeeps ==
    ASSUME FilesInv, NEW p \in Procs, NEW fd, sys_close(p, fd)
    PROVE  FilesInv'
  <1>1. Running(p) /\ call[p] = None /\ fd \in Fds(p) /\ file_close(p, fd) /\ call' = call
    BY DEF sys_close, Calls
  <1>2. files[p] # None
    BY <1>1, RunningFacts
  <1>3. /\ InodesInv' /\ ListsInv' /\ OpenCovers'
        /\ \A q \in Procs \ {p} : files'[q] = files[q]
    BY <1>1, <1>2, CloseKeeps
  <1>4. CallsInv'
    BY <1>1, <1>3, CallsIdle
  <1> QED
    BY <1>3, <1>4 DEF FilesInv

LEMMA DoExitKeeps ==
    ASSUME FilesInv, NEW p \in Procs, do_exit(p)
    PROVE  FilesInv'
  <1>1. Running(p) /\ call[p] = None /\ exited(p) /\ UNCHANGED <<size, inode>> /\ call' = call
    BY DEF do_exit, Calls
  <1>2. InodesInv' /\ Grows
    BY <1>1, RunningFacts, SameInodes
  <1> QED
    BY <1>1, <1>2, ExitKeeps

----------------------------------------------------------------------------
(* Exec.                                                                   *)

LEMMA ExecType ==
    ASSUME NEW i \in Inodes, NEW at \in {"closeall", "load", "loaded"}
    PROVE  /\ Exec(i, at) \in Execve /\ Exec(i, at) # None
           /\ Exec(i, at).op = at /\ Exec(i, at).i = i
  <1>1. Exec(i, at) \in Execve /\ Exec(i, at).op = at /\ Exec(i, at).i = i
    BY DEF Exec, Execve
  <1> QED
    BY <1>1, NotNone

\* A process inside exec.
LEMMA InExecFacts ==
    ASSUME FilesInv, NEW p \in Procs, NEW at \in {"closeall", "load", "loaded"}, In(p, at)
    PROVE  /\ Running(p) /\ InodesInv /\ ListsInv /\ OpenCovers /\ CallsInv
           /\ files[p] # None /\ call[p] # None /\ call[p].op = at /\ call[p] \in Execve
           /\ call[p].i \in Inodes
           /\ at = "closeall" => files[p].next < MaxFds /\ \A i \in Inodes : opens(i) < MaxOpen
           /\ at \in {"load", "loaded"} => List(p) # << >> /\ Head(List(p)).i = call[p].i
  <1>1. Running(p) /\ call[p] # None /\ call[p].op = at
    BY DEF In
  <1>2. /\ InodesInv /\ ListsInv /\ OpenCovers /\ CallsInv /\ files[p] # None /\ CallInv(p)
        /\ call[p] \in Rw \cup Execve
    BY <1>1, RunningFacts
  <1>3. call[p] \in Execve
    BY <1>1, <1>2 DEF Rw
  <1>4. call[p].i \in Inodes
    BY <1>3 DEF Execve
  <1> QED
    BY <1>1, <1>2, <1>3, <1>4 DEF CallInv

LEMMA DoExecveKeeps ==
    ASSUME FilesInv, NEW p \in Procs, NEW i \in Inodes, do_execve(p, i)
    PROVE  FilesInv'
  <1>1. /\ Running(p) /\ call[p] = None /\ MayOpen(1) /\ files[p].next < MaxFds
        /\ call' = [call EXCEPT ![p] = Exec(i, "closeall")]
        /\ UNCHANGED <<size, inode>> /\ files' = files
    BY DEF do_execve, Calls
  <1>2. InodesInv /\ ListsInv /\ CallsInv /\ files[p] # None
    BY <1>1, RunningFacts
  <1>3. PICK c \in Execve : c = Exec(i, "closeall") /\ c.op = "closeall"
    BY ExecType
  <1>4. call'[p] = c
    BY <1>1, <1>2, <1>3 DEF CallsInv
  <1>5. \A j \in Inodes : opens(j) < MaxOpen
    <2> SUFFICES ASSUME NEW j \in Inodes PROVE opens(j) < MaxOpen
      OBVIOUS
    <2>1. opens(j) + 1 <= MaxOpen /\ opens(j) \in Nat
      BY <1>1, <1>2, MayOpenRoom, OpensType, Bounds
    <2> QED
      BY <2>1, Bounds
  <1>6. CallInv(p)'
    <2>1. \A j \in Inodes : opens(j)' = opens(j)
      BY <1>1 DEF opens
    <2> QED
      BY <1>1, <1>2, <1>3, <1>4, <1>5, <2>1 DEF CallInv
  <1>7. CallsInv'
    BY <1>1, <1>3, <1>6, CallsSet
  <1>8. InodesInv' /\ Grows
    BY <1>1, <1>2, SameInodes
  <1> QED
    BY <1>1, <1>7, <1>8, SameLists

LEMMA CloseallKeeps ==
    ASSUME FilesInv, NEW p \in Procs, files_closeall(p)
    PROVE  FilesInv'
  <1> DEFINE i == Head(List(p)).i
  <1>1. /\ In(p, "closeall") /\ List(p) # << >> /\ call' = call
        /\ files' = [files EXCEPT ![p].list = Tail(List(p))]
        /\ IF i \notin HasSync THEN UNCHANGED <<size, inode>>
           ELSE \E o \in fat_sync(inode[i], size[i]) : Store(i, o[1], o[2])
    BY DEF files_closeall, List
  <1>2. /\ Running(p) /\ InodesInv /\ ListsInv /\ CallsInv
        /\ files[p] # None /\ call[p] # None /\ call[p].op = "closeall"
        /\ files[p].next < MaxFds /\ \A j \in Inodes : opens(j) < MaxOpen
    BY <1>1, InExecFacts
  <1>3. /\ files[p] \in FileStruct_t /\ List(p) \in Seq(File_t)
        /\ files[p].next \in 0 .. MaxFds /\ ListOK(List(p), files[p].next)
        /\ \A k \in DOMAIN List(p) : inode[List(p)[k].i] # None
    BY <1>2, ListType
  <1>4. Dropped(Tail(List(p)), List(p), 1) /\ 1 \in 1 .. Len(List(p)) /\ Head(List(p)) = List(p)[1]
    BY <1>1, <1>3, TailDropped
  <1>5. /\ Tail(List(p)) \in Seq(File_t) /\ ListOK(Tail(List(p)), files[p].next)
        /\ \A d, j : Has(Tail(List(p)), d, j) => Has(List(p), d, j)
    <2>1. files[p].next \in Nat
      BY <1>3, Bounds
    <2> QED
      BY <1>3, <1>4, <2>1, DroppedOK
  <1>6. inode[i] # None /\ i \in Inodes
    BY <1>3, <1>4, EntryType
  <1> HIDE DEF i
  <1>7. /\ InodesInv' /\ Grows /\ \A j \in Inodes : opens(j)' = opens(j)
    <2>1. CASE i \in Files
      <3>1. PICK o \in fat_sync(inode[i], size[i]) : Store(i, o[1], o[2])
        BY <1>1, <2>1 DEF HasSync
      <3>2. sizeOf(i) = size[i] /\ InodeOK(i, inode[i], size[i]) /\ inode[i].open \in Int
        BY <1>2, <1>6, <2>1, Bounds DEF InodesInv, sizeOf, InodeOK, INode
      <3>3. PICK n, s : n = o[1] /\ s = o[2]
        OBVIOUS
      <3>4. InodeOK(i, n, s) /\ n.open = inode[i].open
        BY <2>1, <3>1, <3>2, <3>3, SyncOK
      <3>5. /\ InodesInv' /\ Grows /\ inode'[i] = n
            /\ \A j \in Inodes \ {i} : inode'[j] = inode[j]
        BY <1>2, <1>6, <3>1, <3>2, <3>3, <3>4, StoreGrows
      <3>6. n # None
        BY <3>4, NotNone DEF InodeOK
      <3>7. \A j \in Inodes : opens(j)' = opens(j)
        BY <1>6, <3>4, <3>5, <3>6 DEF opens
      <3> QED
        BY <3>5, <3>7
    <2>2. CASE i \notin Files
      <3>1. UNCHANGED <<size, inode>>
        BY <1>1, <2>2 DEF HasSync
      <3> QED
        BY <1>2, <3>1, SameInodes DEF opens
    <2> QED
      BY <2>1, <2>2
  <1>8. PICK fs : fs = [files[p] EXCEPT !.list = Tail(List(p))]
    OBVIOUS
  <1>9. files' = [files EXCEPT ![p] = fs]
    BY <1>1, <1>8
  <1>10. fs \in FileStruct_t /\ fs.list = Tail(List(p)) /\ fs.next = files[p].next
    BY <1>3, <1>5, <1>8 DEF FileStruct_t
  <1>11. /\ ListsInv' /\ OpenCovers' /\ files'[p] = fs /\ fs # None
         /\ \A q \in Procs \ {p} : files'[q] = files[q]
    BY <1>2, <1>5, <1>7, <1>9, <1>10, ShrinkKeeps
  <1>12. CallInv(p)'
    BY <1>1, <1>2, <1>7, <1>10, <1>11 DEF CallInv
  <1>13. CallsInv'
    <2>1. call' = [call EXCEPT ![p] = call[p]] /\ call[p] \in Rw \cup Execve \cup {None}
      BY <1>1, <1>2 DEF CallsInv
    <2>2. PICK c \in Rw \cup Execve \cup {None} : c = call[p]
      BY <2>1
    <2> QED
      BY <1>2, <1>11, <1>12, <2>1, <2>2, CallsSet
  <1> QED
    BY <1>7, <1>11, <1>13 DEF FilesInv

LEMMA ExecOpensKeeps ==
    ASSUME FilesInv, NEW p \in Procs, ExecOpens(p)
    PROVE  FilesInv'
  <1>0. PICK i : i = call[p].i
    OBVIOUS
  <1>1. In(p, "closeall") /\ List(p) = << >>
    BY DEF ExecOpens
  <1>2. PICK o \in vfs_open(i, ReadOnly) :
           /\ Store(i, o.n, o.s)
           /\ files' = [files EXCEPT ![p] = IF o.ok THEN fileOpened(files[p], i, ReadOnly)
                                            ELSE Exited]
           /\ call' = [call EXCEPT ![p] = IF o.ok THEN Exec(i, "load") ELSE None]
    BY <1>0 DEF ExecOpens
  <1>3. /\ Running(p) /\ InodesInv /\ ListsInv /\ CallsInv
        /\ files[p] # None /\ i \in Inodes
        /\ files[p].next < MaxFds /\ opens(i) < MaxOpen
    BY <1>0, <1>1, InExecFacts
  <1>4. OpenResult(i, o)
    BY <1>2, <1>3, VfsOpenOK
  <1>5. /\ InodesInv' /\ Grows /\ (o.ok => OneMoreUser(i))
    BY <1>2, <1>3, <1>4, OpenStep
  <1>6. CASE o.ok
    <2>1. PICK fs : fs = fileOpened(files[p], i, ReadOnly)
      OBVIOUS
    <2>2. files' = [files EXCEPT ![p] = fs]
      BY <1>2, <1>6, <2>1
    <2>3. OneMore(p, i, fs)
      <3>1. OpenedWith(ReadOnly)
        BY DEF OpenedWith
      <3> QED
        BY <1>3, <2>1, <3>1, OpenedList
    <2>4. /\ ListsInv' /\ OpenCovers' /\ files'[p] # None
          /\ List(p)' # << >> /\ Head(List(p)').i = i
      BY <1>1, <1>3, <1>5, <1>6, <2>2, <2>3, OpenedKeeps
    <2>5. PICK c \in Execve : c = Exec(i, "load") /\ c.op = "load" /\ c.i = i
      BY <1>3, ExecType
    <2>6. call' = [call EXCEPT ![p] = c] /\ call'[p] = c
      BY <1>2, <1>3, <1>6, <2>5 DEF CallsInv
    <2>7. CallInv(p)'
      BY <2>4, <2>5, <2>6 DEF CallInv
    <2>8. \A q \in Procs \ {p} : files'[q] = files[q]
      BY <1>3, <2>2 DEF ListsInv
    <2>9. CallsInv'
      BY <1>3, <2>5, <2>6, <2>7, <2>8, CallsSet
    <2> QED
      BY <1>5, <2>4, <2>9 DEF FilesInv
  <1>7. CASE ~o.ok
    <2>1. exited(p) /\ call' = [call EXCEPT ![p] = None]
      BY <1>2, <1>7 DEF exited
    <2> QED
      BY <1>3, <1>5, <2>1, ExitKeeps
  <1> QED
    BY <1>6, <1>7

LEMMA ExecLoadsKeeps ==
    ASSUME FilesInv, NEW p \in Procs, ExecLoads(p)
    PROVE  FilesInv'
  <1>0. PICK i : i = call[p].i
    OBVIOUS
  <1>1. In(p, "load") /\ i \in Files /\ ~inode[i].err /\ size' = size /\ files' = files
    BY <1>0 DEF ExecLoads
  <1>2. PICK to \in 0 .. Min({inode[i].fsize, Capacity}), err \in BOOLEAN :
           inode' = [inode EXCEPT ![i].fptr = to, ![i].full = FALSE, ![i].err = err]
    BY <1>0 DEF ExecLoads
  <1>3. /\ Running(p) /\ InodesInv /\ ListsInv /\ CallsInv /\ files[p] # None
        /\ i \in Inodes /\ call[p] \in Execve /\ List(p) # << >> /\ Head(List(p)).i = i
    BY <1>0, <1>1, InExecFacts
  <1>4. inode[i] # None
    <2>1. /\ List(p) \in Seq(File_t) /\ \A k \in DOMAIN List(p) : inode[List(p)[k].i] # None
      BY <1>3, ListType
    <2>2. 1 \in 1 .. Len(List(p)) /\ Head(List(p)) = List(p)[1]
      BY <1>3, <2>1, TailDropped
    <2> QED
      BY <1>3, <2>1, <2>2
  <1>5. InodeOK(i, inode[i], size[i])
    BY <1>1, <1>3, <1>4 DEF InodesInv, sizeOf
  <1>6. PICK n : n = [inode[i] EXCEPT !.fptr = to, !.full = FALSE, !.err = err]
    OBVIOUS
  <1>7. inode[i] \in INode /\ to \in Nat /\ to <= inode[i].fsize /\ inode[i].open \in Int
    <2>1. inode[i] \in INode /\ inode[i].fsize \in Nat /\ inode[i].open \in Int
      BY <1>5, Bounds DEF InodeOK, INode
    <2>2. PICK m : m = Min({inode[i].fsize, Capacity})
      OBVIOUS
    <2>3. m \in Nat /\ m <= inode[i].fsize
      BY <2>1, <2>2, MinPair, Bounds
    <2> QED
      BY <2>1, <2>2, <2>3
  <1>8. /\ n \in INode /\ n.open = inode[i].open /\ n.fptr = to /\ n.fsize = inode[i].fsize
        /\ n.wrt = inode[i].wrt
    BY <1>6, <1>7 DEF INode
  <1>9. InodeOK(i, n, size[i])
    BY <1>5, <1>7, <1>8 DEF InodeOK
  <1>10. inode' = [inode EXCEPT ![i] = n]
    BY <1>2, <1>6
  <1>11. Store(i, n, size[i])
    BY <1>1, <1>3, <1>10, AssignStore
  <1>12. InodesInv' /\ Grows
    BY <1>3, <1>4, <1>7, <1>8, <1>9, <1>11, StoreGrows
  <1>13. PICK c : c = [call[p] EXCEPT !.op = "loaded"]
    OBVIOUS
  <1>14. call' = [call EXCEPT ![p] = c] /\ call'[p] = c
    BY <1>3, <1>13 DEF ExecLoads, CallsInv
  <1>15. c \in Execve /\ c.op = "loaded" /\ c.i = i
    BY <1>0, <1>3, <1>13 DEF Execve
  <1>16. CallInv(p)'
    <2>1. List(p)' = List(p)
      BY <1>1 DEF List
    <2> QED
      BY <1>1, <1>3, <1>14, <1>15, <2>1 DEF CallInv
  <1>17. CallsInv'
    BY <1>1, <1>3, <1>14, <1>15, <1>16, CallsSet
  <1> QED
    BY <1>1, <1>12, <1>17, SameLists

LEMMA ExecFailsKeeps ==
    ASSUME FilesInv, NEW p \in Procs, ExecFails(p)
    PROVE  FilesInv'
  <1>0. PICK i : i = call[p].i
    OBVIOUS
  <1>1. /\ In(p, "load") /\ Ended(p) /\ exited(p) /\ size' = size
        /\ IF i \notin Files THEN inode' = inode
           ELSE \E to \in 0 .. Capacity : \E n \in fat_lseek(inode[i], to) :
                  inode' = [inode EXCEPT ![i] = n]
    BY <1>0 DEF ExecFails
  <1>2. /\ Running(p) /\ InodesInv /\ ListsInv /\ files[p] # None
        /\ i \in Inodes /\ List(p) # << >> /\ Head(List(p)).i = i
    BY <1>0, <1>1, InExecFacts
  <1>3. InodesInv' /\ Grows
    <2>1. CASE i \notin Files
      BY <1>1, <1>2, <2>1, SameInodes
    <2>2. CASE i \in Files
      <3>1. inode[i] # None
        <4>1. /\ List(p) \in Seq(File_t)
              /\ \A k \in DOMAIN List(p) : inode[List(p)[k].i] # None
          BY <1>2, ListType
        <4>2. 1 \in 1 .. Len(List(p)) /\ Head(List(p)) = List(p)[1]
          BY <1>2, <4>1, TailDropped
        <4> QED
          BY <1>2, <4>1, <4>2
      <3>2. PICK to \in 0 .. Capacity : \E n \in fat_lseek(inode[i], to) :
               inode' = [inode EXCEPT ![i] = n]
        BY <1>1, <2>2
      <3>3. PICK n \in fat_lseek(inode[i], to) : inode' = [inode EXCEPT ![i] = n]
        BY <3>2
      <3>4. InodeOK(i, inode[i], size[i]) /\ inode[i].open \in Int
        BY <1>2, <2>2, <3>1, Bounds DEF InodesInv, sizeOf, InodeOK, INode
      <3>5. InodeOK(i, n, size[i]) /\ n.open = inode[i].open
        BY <3>3, <3>4, LseekOK
      <3>6. Store(i, n, size[i])
        BY <1>1, <1>2, <2>2, <3>3, AssignStore
      <3> QED
        BY <1>2, <3>1, <3>4, <3>5, <3>6, StoreGrows
    <2> QED
      BY <2>1, <2>2
  <1>4. call' = [call EXCEPT ![p] = None]
    BY <1>1 DEF Ended
  <1> QED
    BY <1>1, <1>2, <1>3, <1>4, ExitKeeps

LEMMA ExecClosesKeeps ==
    ASSUME FilesInv, NEW p \in Procs, ExecCloses(p)
    PROVE  FilesInv'
  <1>1. In(p, "loaded") /\ file_close(p, Head(List(p)).fd) /\ call' = [call EXCEPT ![p] = None]
    BY DEF ExecCloses, Ended
  <1>2. Running(p) /\ ListsInv /\ files[p] # None /\ List(p) # << >>
    BY <1>1, InExecFacts
  <1>3. PICK fd : fd = Head(List(p)).fd
    OBVIOUS
  <1>4. fd \in Fds(p)
    <2>1. List(p) \in Seq(File_t)
      BY <1>2, ListType
    <2>2. 1 \in DOMAIN List(p) /\ Head(List(p)) = List(p)[1]
      BY <1>2, <2>1, TailDropped
    <2> QED
      BY <1>3, <2>2 DEF Fds
  <1>5. /\ InodesInv' /\ ListsInv' /\ OpenCovers'
        /\ \A q \in Procs \ {p} : files'[q] = files[q]
    BY <1>1, <1>2, <1>3, <1>4, CloseKeeps
  <1>6. CallsInv'
    BY <1>1, <1>2, <1>5, CallsIdle
  <1> QED
    BY <1>5, <1>6 DEF FilesInv

----------------------------------------------------------------------------
(* Fork.                                                                   *)

\* A list has an inode once or not at all.
LEMMA UsesOK ==
    ASSUME NEW list \in Seq(File_t), NEW n, ListOK(list, n), NEW i
    PROVE  \/ uses(list, i) = 0 /\ \A d : ~Has(list, d, i)
           \/ /\ uses(list, i) = 1 /\ Len(list) >= 1
              /\ \E d \in 0 .. MaxFds : \A fd : Has(list, fd, i) => fd = d
              /\ \E k \in DOMAIN list : list[k].i = i
  <1> DEFINE K == {k \in DOMAIN list : list[k].i = i}
  <1>1. CASE K = {}
    <2>1. uses(list, i) = 0
      BY <1>1, FS_EmptySet DEF uses
    <2> QED
      BY <1>1, <2>1 DEF Has
  <1>2. CASE K # {}
    <2>1. PICK k \in DOMAIN list : list[k].i = i
      BY <1>2
    <2>2. K = {k}
      BY <2>1 DEF ListOK
    <2>3. uses(list, i) = 1
      BY <2>2, FS_Singleton DEF uses
    <2>4. k \in 1 .. Len(list) /\ list[k].fd \in 0 .. MaxFds
      BY EntryType
    <2>5. \A fd : Has(list, fd, i) => fd = list[k].fd
      BY <2>2 DEF Has
    <2>6. Len(list) >= 1
      BY <2>4
    <2> QED
      BY <2>1, <2>3, <2>4, <2>5, <2>6
  <1> QED
    BY <1>1, <1>2

\* file_dup() of all files of p: the count of each inode in the list is one higher.
LEMMA RaisedOK ==
    ASSUME FilesInv, NEW p \in Procs, files[p] # None, MayOpen(Len(List(p))),
           inode' = Raised(p), size' = size
    PROVE  /\ InodesInv' /\ Grows
           /\ \A i \in Inodes : opens(i)' = opens(i) + uses(List(p), i)
  <1>0. InodesInv /\ ListsInv
    BY DEF FilesInv
  <1>1. /\ List(p) \in Seq(File_t) /\ ListOK(List(p), files[p].next)
        /\ \A k \in DOMAIN List(p) : inode[List(p)[k].i] # None
    BY <1>0, ListType
  <1>2. ASSUME NEW i \in Inodes
        PROVE  /\ inode'[i] \in INode \cup {None}
               /\ inode'[i] # None => InodeOK(i, inode'[i], sizeOf(i)')
               /\ inode[i] # None <=> inode'[i] # None
               /\ opens(i)' = opens(i) + uses(List(p), i) /\ opens(i)' >= opens(i)
    <2>1. sizeOf(i)' = sizeOf(i)
      BY DEF sizeOf
    <2>2. opens(i) \in Nat
      BY <1>0, OpensType, Bounds
    <2>3. CASE uses(List(p), i) = 0
      <3>1. inode'[i] = inode[i]
        BY <2>3 DEF Raised
      <3>2. opens(i)' = opens(i)
        BY <3>1 DEF opens
      <3> QED
        BY <1>0, <2>1, <2>2, <2>3, <3>1, <3>2 DEF InodesInv
    <2>4. CASE uses(List(p), i) # 0
      <3>1. /\ uses(List(p), i) = 1 /\ Len(List(p)) >= 1 /\ Len(List(p)) \in Nat
            /\ \E k \in DOMAIN List(p) : List(p)[k].i = i
        BY <1>1, <2>4, UsesOK
      <3>2. inode[i] # None
        BY <1>1, <3>1
      <3>3. opens(i) + Len(List(p)) <= MaxOpen
        BY <3>1, MayOpenRoom
      <3>4. InodeOK(i, inode[i], sizeOf(i)) /\ inode[i].open = opens(i)
        BY <1>0, <3>2 DEF InodesInv, opens
      <3>5. PICK n : n = [inode[i] EXCEPT !.open = opens(i) + 1]
        OBVIOUS
      <3>6. inode'[i] = n
        BY <2>4, <3>1, <3>4, <3>5 DEF Raised
      <3>7. inode[i] \in INode /\ opens(i) + 1 \in 0 .. MaxOpen
        BY <2>2, <3>1, <3>3, <3>4, Bounds DEF InodeOK
      <3>8. /\ n \in INode /\ n.open = opens(i) + 1 /\ n.fptr = inode[i].fptr
            /\ n.fsize = inode[i].fsize /\ n.err = inode[i].err /\ n.wrt = inode[i].wrt
        BY <3>5, <3>7 DEF INode
      <3>9. InodeOK(i, n, sizeOf(i))
        BY <3>4, <3>8 DEF InodeOK
      <3>10. n # None
        BY <3>8, NotNone
      <3>11. opens(i)' = opens(i) + 1
        BY <3>6, <3>8, <3>10 DEF opens
      <3> QED
        BY <2>1, <2>2, <3>1, <3>2, <3>6, <3>8, <3>9, <3>10, <3>11
    <2> QED
      BY <2>3, <2>4
  <1>3. InodesInv'
    <2>1. inode' \in [Inodes -> INode \cup {None}]
      <3>1. DOMAIN inode' = Inodes /\ inode' = [i \in Inodes |-> inode'[i]]
        BY DEF Raised
      <3> QED
        BY <1>2, <3>1
    <2> QED
      BY <1>0, <1>2, <2>1 DEF InodesInv
  <1> QED
    BY <1>2, <1>3 DEF Grows

LEMMA ForkFailsKeeps ==
    ASSUME FilesInv, NEW p \in Procs, ForkFails(p)
    PROVE  FilesInv'
  <1>1. /\ Running(p) /\ call[p] = None /\ MayOpen(Len(List(p))) /\ inode' = Raised(p)
        /\ size' = size /\ files' = files /\ call' = call
    BY DEF ForkFails, Calls
  <1>2. files[p] # None
    BY <1>1, RunningFacts
  <1>3. InodesInv' /\ Grows
    BY <1>1, <1>2, RaisedOK
  <1>4. CallsInv'
    BY <1>1, CallsIdle
  <1> QED
    BY <1>1, <1>3, <1>4, SameLists

\* The copies of the descriptors, the last one first, are the same descriptors.
LEMMA ReverseOK ==
    ASSUME NEW l \in Seq(File_t), NEW n, ListOK(l, n), NEW r, r = Reverse(l)
    PROVE  /\ r \in Seq(File_t) /\ ListOK(r, n)
           /\ \A k \in DOMAIN r : \E j \in DOMAIN l : r[k] = l[j]
           /\ \A fd, i : Has(r, fd, i) => Has(l, fd, i)
  <1>1. /\ Len(l) \in Nat /\ DOMAIN l = 1 .. Len(l)
        /\ \A k \in 1 .. Len(l) : l[k] \in File_t
    OBVIOUS
  <1>2. r = [k \in 1 .. Len(l) |-> l[Len(l) - k + 1]]
    BY DEF Reverse
  <1>3. \A k \in 1 .. Len(l) : Len(l) - k + 1 \in 1 .. Len(l)
    BY <1>1
  <1>4. DOMAIN r = 1 .. Len(l) /\ \A k \in DOMAIN r : r[k] = l[Len(l) - k + 1]
    BY <1>2
  <1>5. r \in Seq(File_t)
    BY <1>1, <1>2, <1>3, SeqDef
  <1>6. ListOK(r, n)
    <2> SUFFICES ASSUME NEW k \in DOMAIN r, NEW j \in DOMAIN r
                 PROVE  /\ r[k].fd < n
                        /\ k # j => r[k].fd # r[j].fd /\ r[k].i # r[j].i
      BY DEF ListOK
    <2>1. PICK a, b : a = Len(l) - k + 1 /\ b = Len(l) - j + 1
      OBVIOUS
    <2>2. a \in DOMAIN l /\ b \in DOMAIN l /\ (k # j => a # b)
      BY <1>1, <1>3, <1>4, <2>1
    <2> QED
      BY <1>4, <2>1, <2>2 DEF ListOK
  <1> QED
    BY <1>1, <1>3, <1>4, <1>5, <1>6 DEF Has

LEMMA ForkKeeps ==
    ASSUME FilesInv, NEW p \in Procs, NEW c \in Procs, sys_fork(p, c)
    PROVE  FilesInv'
  <1>1. /\ Running(p) /\ call[p] = None /\ files[c] = None /\ MayOpen(Len(List(p)))
        /\ files' = [files EXCEPT ![c] = files_dup(p)] /\ inode' = Raised(p)
        /\ size' = size /\ call' = call
    BY DEF sys_fork, Calls
  <1>2. InodesInv /\ ListsInv /\ OpenCovers /\ CallsInv /\ files[p] # None
    BY <1>1, RunningFacts
  <1>3. /\ InodesInv' /\ Grows
        /\ \A i \in Inodes : opens(i)' = opens(i) + uses(List(p), i)
    BY <1>1, <1>2, RaisedOK
  <1>4. /\ List(p) \in Seq(File_t) /\ ListOK(List(p), files[p].next)
        /\ files[p].next \in 0 .. MaxFds
        /\ \A k \in DOMAIN List(p) : inode[List(p)[k].i] # None
    BY <1>2, ListType
  <1>5. PICK fs : fs = files_dup(p)
    OBVIOUS
  <1>6. /\ fs \in FileStruct_t /\ ListOK(fs.list, fs.next)
        /\ \A k \in DOMAIN fs.list : \E j \in DOMAIN List(p) : fs.list[k] = List(p)[j]
        /\ \A fd, i : Has(fs.list, fd, i) => Has(List(p), fd, i)
    <2>1. NewFiles \in FileStruct_t
      BY Bounds DEF NewFiles, FileStruct_t
    <2>2. PICK r : r = Reverse(List(p))
      OBVIOUS
    <2>3. /\ r \in Seq(File_t) /\ ListOK(r, files[p].next)
          /\ \A k \in DOMAIN r : \E j \in DOMAIN List(p) : r[k] = List(p)[j]
          /\ \A fd, i : Has(r, fd, i) => Has(List(p), fd, i)
      BY <1>4, <2>2, ReverseOK
    <2>4. fs \in FileStruct_t /\ fs.list = r /\ fs.next = files[p].next
      BY <1>4, <1>5, <2>1, <2>2, <2>3 DEF files_dup, FileStruct_t
    <2> QED
      BY <2>3, <2>4
  <1>7. files' = [files EXCEPT ![c] = fs] /\ files'[c] = fs /\ List(c)' = fs.list
    BY <1>1, <1>2, <1>5, <1>6 DEF ListsInv, List
  <1>8. \A i \in Inodes : inode[i] # None => inode'[i] # None
    BY <1>3 DEF Grows
  <1>9. ListsInv'
    <2>1. \A k \in DOMAIN List(p) : List(p)[k].i \in Inodes
      BY <1>4, EntryType
    <2>2. \A k \in DOMAIN fs.list : inode'[fs.list[k].i] # None
      BY <1>4, <1>6, <1>8, <2>1
    <2>3. FitsInodes(fs)
      BY <1>6, <2>2 DEF FitsInodes
    <2> QED
      BY <1>2, <1>7, <1>8, <2>3, ListsSet
  <1>10. ASSUME NEW i \in Inodes PROVE opens(i)' >= Cardinality(Refs(i)')
    <2>1. /\ opens(i) >= Cardinality(Refs(i)) /\ opens(i) \in Nat
          /\ IsFiniteSet(Refs(i)) /\ Cardinality(Refs(i)) \in Nat
      BY <1>2, RefsFinite, FS_CardinalityType, OpensType, Bounds DEF OpenCovers
    <2>2. ASSUME NEW r \in Refs(i)'
          PROVE  r \in Refs(i) \/ \E d : r = <<c, d>> /\ Has(List(p), d, i)
      <3>1. PICK q \in Procs, d \in 0 .. MaxFds : r = <<q, d>>
        BY RefsPair
      <3>2. CASE q = c
        BY <1>6, <1>7, <3>1, <3>2, RefsHas
      <3>3. CASE q # c
        BY <1>2, <1>7, <3>1, <3>3, RefsOthers
      <3> QED
        BY <3>2, <3>3
    <2>3. CASE uses(List(p), i) = 0 /\ \A d : ~Has(List(p), d, i)
      <3>1. Refs(i)' \subseteq Refs(i)
        BY <2>2, <2>3
      <3>2. Cardinality(Refs(i)') <= Cardinality(Refs(i)) /\ Cardinality(Refs(i)') \in Nat
        BY <2>1, <3>1, FS_Subset, FS_CardinalityType
      <3>3. opens(i)' = opens(i)
        BY <1>3, <2>1, <2>3
      <3> QED
        BY <2>1, <3>2, <3>3
    <2>4. CASE /\ uses(List(p), i) = 1
               /\ \E d \in 0 .. MaxFds : \A fd : Has(List(p), fd, i) => fd = d
      <3>1. PICK d \in 0 .. MaxFds : \A fd : Has(List(p), fd, i) => fd = d
        BY <2>4
      <3>2. PICK x : x = <<c, d>>
        OBVIOUS
      <3>3. Refs(i)' \subseteq Refs(i) \cup {x}
        BY <2>2, <3>1, <3>2
      <3>4. /\ IsFiniteSet(Refs(i) \cup {x})
            /\ Cardinality(Refs(i) \cup {x}) <= Cardinality(Refs(i)) + 1
        BY <2>1, AddOne
      <3>5. /\ Cardinality(Refs(i)') <= Cardinality(Refs(i) \cup {x})
            /\ Cardinality(Refs(i)') \in Nat /\ Cardinality(Refs(i) \cup {x}) \in Nat
        BY <3>3, <3>4, FS_Subset, FS_CardinalityType
      <3>6. opens(i)' = opens(i) + 1
        BY <1>3, <2>4
      <3> QED
        BY <2>1, <3>4, <3>5, <3>6
    <2> QED
      BY <1>4, <2>3, <2>4, UsesOK
  <1>11. OpenCovers'
    BY <1>10 DEF OpenCovers
  <1>12. \A q \in Procs \ {p} : call[q] = None \/ files'[q] = files[q]
    <2>1. CallInv(c)
      BY <1>2 DEF CallsInv
    <2>2. call[c] = None
      BY <1>1, <2>1 DEF CallInv
    <2>3. \A q \in Procs \ {c} : files'[q] = files[q]
      BY <1>2, <1>7 DEF ListsInv
    <2> QED
      BY <2>2, <2>3
  <1>13. CallsInv'
    BY <1>1, <1>12, CallsIdle
  <1> QED
    BY <1>3, <1>9, <1>11, <1>13 DEF FilesInv

----------------------------------------------------------------------------
(* The invariant.                                                          *)

LEMMA InitInv == Init => FilesInv
  <1> SUFFICES ASSUME Init PROVE FilesInv
    OBVIOUS
  <1>0. NewInode(0) \in INode /\ NewInode(0).open = 0 /\ NewInode(0) # None
        /\ NewInode(0).fptr = 0 /\ NewInode(0).fsize = 0
    <2>1. NewInode(0) \in INode /\ NewInode(0).open = 0
          /\ NewInode(0).fptr = 0 /\ NewInode(0).fsize = 0
      BY Bounds DEF NewInode, INode
    <2> QED
      BY <2>1, NotNone
  <1>1. InodesInv
    <2>1. 1 \in Nat
      BY Bounds
    <2>2. size \in [Files -> Nat \cup {None}]
      BY <2>1 DEF Init
    <2>3. /\ inode = [i \in Inodes |-> IF i \in Files THEN None ELSE NewInode(0)]
      BY DEF Init
    <2>4. inode \in [Inodes -> INode \cup {None}]
      BY <1>0, <2>3
    <2>5. \A i \in Inodes : inode[i] # None => i \notin Files /\ inode[i] = NewInode(0)
      BY <2>3
    <2>6. \A i \in Inodes : inode[i] # None => InodeOK(i, inode[i], sizeOf(i))
      BY <1>0, <2>5 DEF InodeOK
    <2>7. \A i \in Inodes \ Files : inode[i] # None
      BY <1>0, <2>3
    <2> QED
      BY <2>2, <2>4, <2>6, <2>7 DEF InodesInv
  <1>2. NewFiles \in FileStruct_t /\ NewFiles.list = << >> /\ DOMAIN << >> = {}
    BY Bounds DEF NewFiles, FileStruct_t
  <1>3. /\ files \in [Procs -> FileStruct_t \cup {None}]
        /\ \A p \in Procs : files[p] # None => List(p) = << >>
    BY <1>2 DEF Init, List
  <1>4. ListsInv
    BY <1>2, <1>3 DEF ListsInv, ListOK
  <1>5. OpenCovers
    <2> SUFFICES ASSUME NEW i \in Inodes PROVE opens(i) >= Cardinality(Refs(i))
      BY DEF OpenCovers
    <2>1. ASSUME NEW r \in Refs(i) PROVE FALSE
      <3>1. PICK q \in Procs, fd \in 0 .. MaxFds : r = <<q, fd>>
        BY RefsPair
      <3>2. files[q] # None /\ Has(List(q), fd, i)
        BY <3>1, RefsHas
      <3> QED
        BY <1>2, <1>3, <3>2 DEF Has
    <2>2. Cardinality(Refs(i)) = 0
      <3>1. Refs(i) = {}
        BY <2>1
      <3> QED
        BY <3>1, FS_EmptySet
    <2>3. opens(i) \in Nat
      BY <1>1, OpensType, Bounds
    <2> QED
      BY <2>2, <2>3
  <1>6. CallsInv
    BY DEF Init, CallsInv, CallInv
  <1> QED
    BY <1>1, <1>4, <1>5, <1>6 DEF FilesInv

LEMMA StutterInv ==
    ASSUME FilesInv, UNCHANGED vars
    PROVE  FilesInv'
  <1>1. UNCHANGED <<size, inode>> /\ files' = files /\ call' = call
    BY DEF vars
  <1>2. InodesInv' /\ Grows
    BY <1>1, SameInodes DEF FilesInv
  <1>3. CallsInv'
    <2>1. CallsInv
      BY DEF FilesInv
    <2> QED
      BY <1>1, <2>1 DEF CallsInv, CallInv, List, opens
  <1> QED
    BY <1>1, <1>2, <1>3, SameLists

LEMMA FileCallInv ==
    ASSUME FilesInv, NEW p \in Procs, FileCall(p)
    PROVE  FilesInv'
  <1>1. CASE \E i \in Inodes, flags \in OpenFlags : sys_open(p, i, flags)
    BY <1>1, OpenKeeps
  <1>2. CASE \E fd \in 0 .. MaxFds : sys_close(p, fd) \/ sys_fsync(p, fd)
    BY <1>2, SysCloseKeeps, FsyncKeeps
  <1>3. CASE \E fd \in 0 .. MaxFds, ofs \in Offsets, flag \in {"SET", "CUR", "END"} :
                file_seek(p, fd, ofs, flag)
    BY <1>3, SeekKeeps
  <1>4. CASE \E fd \in 0 .. MaxFds, len \in Lengths : sysfile_read(p, fd, len)
    <2>1. PICK fd \in 0 .. MaxFds, len \in Lengths : sysfile_read(p, fd, len)
      BY <1>4
    <2>2. PICK op \in {"read", "write"} : op = "read"
      OBVIOUS
    <2>3. RwBegins(p, op, "r", fd, len)
      BY <2>1, <2>2 DEF sysfile_read
    <2> QED
      BY <2>3, RwBeginsKeeps
  <1>5. CASE \E fd \in 0 .. MaxFds, len \in Lengths : sysfile_write(p, fd, len)
    <2>1. PICK fd \in 0 .. MaxFds, len \in Lengths : sysfile_write(p, fd, len)
      BY <1>5
    <2>2. PICK op \in {"read", "write"} : op = "write"
      OBVIOUS
    <2>3. RwBegins(p, op, "w", fd, len)
      BY <2>1, <2>2 DEF sysfile_write
    <2> QED
      BY <2>3, RwBeginsKeeps
  <1> QED
    BY <1>1, <1>2, <1>3, <1>4, <1>5 DEF FileCall

LEMMA StepInv == FilesInv /\ [Next]_vars => FilesInv'
  <1> SUFFICES ASSUME FilesInv, [Next]_vars PROVE FilesInv'
    OBVIOUS
  <1>1. CASE UNCHANGED vars
    BY <1>1, StutterInv
  <1>2. ASSUME NEW p \in Procs, FileCall(p) PROVE FilesInv'
    BY <1>2, FileCallInv
  <1>3. ASSUME NEW p \in Procs, TaskCall(p) PROVE FilesInv'
    BY <1>3, ForkKeeps, DoExecveKeeps, ForkFailsKeeps, DoExitKeeps DEF TaskCall
  <1>4. ASSUME NEW p \in Procs, RwStep(p) PROVE FilesInv'
    <2>1. ASSUME StdoutWrite(p) \/ RwReturns(p) PROVE FilesInv'
      <3>1. Running(p) /\ Ended(p) /\ UNCHANGED <<size, inode, files>>
        BY <2>1 DEF StdoutWrite, RwReturns, InRw
      <3> QED
        BY <3>1, EndsKeep
    <2> QED
      BY <1>4, <2>1, PieceKeeps, CopyFailsKeeps, RwFailsKeeps DEF RwStep
  <1>5. ASSUME NEW p \in Procs, ExecStep(p) PROVE FilesInv'
    BY <1>5, CloseallKeeps, ExecOpensKeeps, ExecLoadsKeeps, ExecFailsKeeps, ExecClosesKeeps
       DEF ExecStep
  <1>6. ASSUME NEW p \in Procs, StdinRead(p) PROVE FilesInv'
    <2>1. Running(p) /\ Ended(p) /\ UNCHANGED <<size, inode, files>>
      BY <1>6 DEF StdinRead, InRw
    <2> QED
      BY <2>1, EndsKeep
  <1> QED
    BY <1>1, <1>2, <1>3, <1>4, <1>5, <1>6 DEF Next

\* FilesInv is invariant: inodes that work, lists of descriptors that fit them,
\* counts that cover the lists, and calls in progress that find what they rely on,
\* whatever the others do while one of them waits for a key.
THEOREM FilesInvariant == Spec => []FilesInv
  BY InitInv, StepInv, PTL DEF Spec

----------------------------------------------------------------------------
(* The properties.                                                         *)

LEMMA InvTables == FilesInv => TablesOK
  <1> SUFFICES ASSUME FilesInv PROVE TablesOK
    OBVIOUS
  <1>1. InodesInv /\ ListsInv /\ CallsInv
    BY DEF FilesInv
  <1>2. TypeOK
    <2>1. \A i \in Inodes : inode[i] # None /\ ~inode[i].err => inode[i].fptr <= inode[i].fsize
      BY <1>1 DEF InodesInv, InodeOK
    <2>2. \A p \in Procs : files[p] # None =>
              \A k \in DOMAIN List(p) : inode[List(p)[k].i] # None
      BY <1>1 DEF ListsInv
    <2> QED
      BY <1>1, <2>1, <2>2 DEF TypeOK, InodesInv, ListsInv, CallsInv
  <1>3. OneFilePerFd
    BY <1>1 DEF OneFilePerFd, ListsInv, ListOK
  <1>4. EntryExact
    BY <1>1 DEF EntryExact, InodesInv, InodeOK, sizeOf, Inodes
  <1> QED
    BY <1>2, <1>3, <1>4 DEF TablesOK

\* In every process a descriptor number means one file, the inodes it uses are in
\* memory with a position inside the file, and the size in the directory entry is
\* right unless the inode is marked (file.c, vfs_open, fat_truncate, fat_sync).
THEOREM TablesCorrect == Spec => []TablesOK
  BY FilesInvariant, InvTables, PTL

\* The open count of an inode covers the descriptors that use it, for any number
\* of processes that open, share by fork, exec, close and exit.
THEOREM OpenCountsCover == Spec => []OpenCovers
  <1>1. FilesInv => OpenCovers
    BY DEF FilesInv
  <1> QED
    BY <1>1, FilesInvariant, PTL

\* What a read or write has counted is how far it has moved the position.
THEOREM CountsCorrect == Spec => []CountsExact
  <1>1. FilesInv => CountsExact
    <2> SUFFICES ASSUME FilesInv, NEW p \in Procs, call[p] # None, call[p].i \in Files,
                        call[p].op \in {"read", "write"}
                 PROVE  call[p].copied = inode[call[p].i].fptr - call[p].start
      BY DEF CountsExact
    <2>1. CallInv(p)
      BY DEF FilesInv, CallsInv
    <2> QED
      BY <2>1 DEF CallInv
  <1> QED
    BY <1>1, FilesInvariant, PTL

----------------------------------------------------------------------------
(* What a step may do to a call.                                           *)

\* A step of q changes the descriptors and the call of q alone.
OwnOnly(q) ==
    /\ files' = files \/ \E fs : files' = [files EXCEPT ![q] = fs]
    /\ call' = call \/ \E c : call' = [call EXCEPT ![q] = c]

LEMMA StepsOwn ==
    ASSUME NEW q \in Procs
    PROVE  /\ FileCall(q) => OwnOnly(q)
           /\ RwStep(q) => OwnOnly(q)
           /\ ExecStep(q) => OwnOnly(q)
           /\ StdinRead(q) => OwnOnly(q)
           /\ ForkFails(q) \/ do_exit(q) => OwnOnly(q)
           /\ \A i : do_execve(q, i) => OwnOnly(q)
  <1>1. \A i, flags : sys_open(q, i, flags) => OwnOnly(q)
    BY DEF sys_open, file_open, OwnOnly
  <1>2. \A fd : sys_close(q, fd) \/ sys_fsync(q, fd) => OwnOnly(q)
    BY DEF sys_close, file_close, sys_fsync, OwnOnly
  <1>3. \A fd, ofs, flag : file_seek(q, fd, ofs, flag) => OwnOnly(q)
    BY DEF file_seek, OwnOnly
  <1>4. \A fd, len : sysfile_read(q, fd, len) \/ sysfile_write(q, fd, len) => OwnOnly(q)
    BY DEF sysfile_read, sysfile_write, RwBegins, OwnOnly
  <1>5. FileCall(q) => OwnOnly(q)
    BY <1>1, <1>2, <1>3, <1>4 DEF FileCall
  <1>6. RwPiece(q) => OwnOnly(q)
    BY DEF RwPiece, Counted, OwnOnly
  <1>7. CopyFails(q) => OwnOnly(q)
    BY DEF CopyFails, Ended, OwnOnly
  <1>8. RwFails(q) \/ StdoutWrite(q) \/ RwReturns(q) \/ StdinRead(q) => OwnOnly(q)
    BY DEF RwFails, StdoutWrite, RwReturns, StdinRead, Ended, OwnOnly
  <1>9. files_closeall(q) => OwnOnly(q)
    BY DEF files_closeall, OwnOnly
  <1>10. ExecOpens(q) => OwnOnly(q)
    BY DEF ExecOpens, OwnOnly
  <1>11. ExecLoads(q) => OwnOnly(q)
    BY DEF ExecLoads, OwnOnly
  <1>12. ExecFails(q) \/ ExecCloses(q) => OwnOnly(q)
    BY DEF ExecFails, ExecCloses, exited, Ended, file_close, OwnOnly
  <1>13. ForkFails(q) \/ do_exit(q) => OwnOnly(q)
    BY DEF ForkFails, do_exit, exited, OwnOnly
  <1>14. \A i : do_execve(q, i) => OwnOnly(q)
    BY DEF do_execve, OwnOnly
  <1> QED
    BY <1>5, <1>6, <1>7, <1>8, <1>9, <1>10, <1>11, <1>12, <1>13, <1>14 DEF RwStep, ExecStep

\* The call of p stands still while another process takes a step.
LEMMA OthersStand ==
    ASSUME FilesInv, NEW q \in Procs, NEW p \in Procs \ {q}, call[p] # None,
           FileCall(q) \/ TaskCall(q) \/ RwStep(q) \/ ExecStep(q) \/ StdinRead(q)
    PROVE  call'[p] = call[p] /\ files'[p] = files[p]
  <1>0. ListsInv /\ CallsInv
    BY DEF FilesInv
  <1>1. ASSUME OwnOnly(q) PROVE call'[p] = call[p] /\ files'[p] = files[p]
    BY <1>0, <1>1 DEF OwnOnly, ListsInv, CallsInv
  <1>2. ASSUME NEW c \in Procs, sys_fork(q, c) PROVE call'[p] = call[p] /\ files'[p] = files[p]
    <2>1. CallInv(p)
      BY <1>0 DEF CallsInv
    <2>2. files[p] # None
      BY <2>1 DEF CallInv
    <2>3. files[c] = None /\ files' = [files EXCEPT ![c] = files_dup(q)] /\ call' = call
      BY <1>2 DEF sys_fork
    <2> QED
      BY <1>0, <2>2, <2>3 DEF ListsInv
  <1> QED
    BY <1>1, <1>2, StepsOwn DEF TaskCall

InReadWrite(p) == IF call[p] = None THEN FALSE ELSE call[p].op \in {"read", "write"}

Advance(p) ==
    \/ call'[p] = None
    \/ call'[p].left < call[p].left
    \/ call'[p].start > call[p].start
    \/ UNCHANGED <<call[p], files[p]>>

LEMMA PieceAdvances ==
    ASSUME FilesInv, NEW p \in Procs, RwPiece(p)
    PROVE  call'[p].left < call[p].left
  <1>1. InRw(p) /\ call[p].left > 0 /\ call[p].i \in Files
    BY DEF RwPiece
  <1>2. CallsInv /\ call[p] \in Rw /\ call[p].left \in Nat
    BY <1>1, InRwFacts
  <1>3. PICK k \in through(p) : Counted(p, k, atEnd(k))
    BY DEF RwPiece
  <1>4. k \in Nat /\ k <= alen(p) /\ alen(p) \in Nat
    BY <1>1, ThroughOK, AlenOK
  <1>5. PICK l : l = IF atEnd(k) THEN 0 ELSE call[p].left - k
    OBVIOUS
  <1>6. call' = [call EXCEPT ![p] = [call[p] EXCEPT !.copied = @ + k, !.left = l]]
    BY <1>3, <1>5 DEF Counted
  <1>7. call'[p].left = l
    BY <1>2, <1>6 DEF CallsInv, Rw
  <1>8. l < call[p].left
    BY <1>1, <1>2, <1>4, <1>5 DEF atEnd
  <1> QED
    BY <1>7, <1>8

LEMMA CopyFailsAdvances ==
    ASSUME FilesInv, NEW p \in Procs, CopyFails(p)
    PROVE  call'[p] = None \/ call'[p].start > call[p].start
  <1>1. InRw(p) /\ call[p].left > 0
    BY DEF CopyFails
  <1>2. CallsInv /\ call[p] \in Rw /\ call[p].start \in Int
    BY <1>1, InRwFacts
  <1>3. CASE Ended(p)
    BY <1>2, <1>3 DEF Ended, CallsInv
  <1>4. CASE ~Ended(p)
    <2>1. call[p].i \in Files
      BY <1>4 DEF CopyFails
    <2>2. PICK k \in through(p) :
             k > 0 /\ call' = [call EXCEPT ![p] = [call[p] EXCEPT !.start = @ + k]]
      BY <1>4 DEF CopyFails
    <2>3. k \in Nat
      BY <1>1, <2>1, ThroughOK
    <2>4. call'[p].start = call[p].start + k
      BY <1>2, <2>2 DEF CallsInv, Rw
    <2> QED
      BY <1>2, <2>2, <2>3, <2>4
  <1> QED
    BY <1>3, <1>4

\* The loops of sysfile_read and sysfile_write come to an end: every step of a read
\* or write ends it, leaves less of it, or has less of the file before it.
THEOREM CallsCorrect == Spec => CallsAdvance
  <1>1. FilesInv /\ [Next]_vars =>
           [\A p \in Procs : InReadWrite(p) => Advance(p)]_vars
    <2> SUFFICES ASSUME FilesInv, Next, NEW p \in Procs, InReadWrite(p) PROVE Advance(p)
      OBVIOUS
    <2>1. PICK q \in Procs :
             FileCall(q) \/ TaskCall(q) \/ RwStep(q) \/ ExecStep(q) \/ StdinRead(q)
      BY DEF Next
    <2>2. call[p] # None /\ call[p].op \in {"read", "write"}
      BY DEF InReadWrite
    <2>3. CASE q # p
      <3>1. call'[p] = call[p] /\ files'[p] = files[p]
        BY <2>1, <2>2, <2>3, OthersStand
      <3> QED
        BY <3>1 DEF Advance
    <2>4. CASE q = p
      <3>1. call \in [Procs -> Rw \cup Execve \cup {None}]
        BY DEF FilesInv, CallsInv
      <3>2. ~FileCall(p)
        BY <2>2 DEF FileCall, sys_open, sys_close, sys_fsync, file_seek, sysfile_read,
           sysfile_write, RwBegins, Calls
      <3>3. ~TaskCall(p)
        BY <2>2 DEF TaskCall, sys_fork, do_execve, ForkFails, do_exit, Calls
      <3>4. ~ExecStep(p)
        BY <2>2 DEF ExecStep, files_closeall, ExecOpens, ExecLoads, ExecFails, ExecCloses, In
      <3>5. ASSUME Ended(p) PROVE Advance(p)
        BY <3>1, <3>5 DEF Ended, Advance
      <3>6. ASSUME StdinRead(p) PROVE Advance(p)
        BY <3>5, <3>6 DEF StdinRead
      <3>7. ASSUME RwStep(p) PROVE Advance(p)
        <4>1. ASSUME RwFails(p) \/ StdoutWrite(p) \/ RwReturns(p) PROVE Advance(p)
          BY <3>5, <4>1 DEF RwFails, StdoutWrite, RwReturns
        <4>2. ASSUME RwPiece(p) PROVE Advance(p)
          BY <4>2, PieceAdvances DEF Advance
        <4>3. ASSUME CopyFails(p) PROVE Advance(p)
          BY <4>3, CopyFailsAdvances DEF Advance
        <4> QED
          BY <3>7, <4>1, <4>2, <4>3 DEF RwStep
      <3> QED
        BY <2>1, <2>4, <3>2, <3>3, <3>4, <3>6, <3>7
    <2> QED
      BY <2>3, <2>4
  <1>2. FilesInv /\ [Next]_vars =>
           [\A p \in Procs :
              (IF call[p] = None THEN FALSE ELSE call[p].op \in {"read", "write"}) =>
                  \/ call'[p] = None
                  \/ call'[p].left < call[p].left
                  \/ call'[p].start > call[p].start
                  \/ UNCHANGED <<call[p], files[p]>>]_vars
    BY <1>1 DEF InReadWrite, Advance
  <1> QED
    BY <1>2, FilesInvariant, PTL DEF Spec, CallsAdvance

=============================================================================
