-------------------------------- MODULE Files --------------------------------
(***************************************************************************)
(* One ext2 file system behind the system calls: kernel/src/vfs.c over     *)
(* kernel/src/filesystems/ext2 with the path helpers of util.c.            *)
(*                                                                         *)
(* On the device: the bitmaps IMAP and DMAP, the inode TABLE and the data  *)
(* blocks.  In memory: each task's descriptors, and in each its own copy   *)
(* of the inode as it was when the file was opened; and, while a task is   *)
(* inside a call, the copies it has read and the numbers free_map chose    *)
(* for it, which may be out of date when it writes.                        *)
(*                                                                         *)
(* open runs under lock_vfs and is three steps (look up and choose a free  *)
(* inode; create; take a descriptor).  mkdir, rmdir, unlink, write and the *)
(* second half of link take no lock: each is a step that reads and a step  *)
(* that writes, and the steps of other calls may come in between.  A       *)
(* directory's data is counted in entries and fits its first block; a      *)
(* file's is counted in characters.                                        *)
(*                                                                         *)
(* Spec is what the code does whoever calls it.  CarefulSpec is the part   *)
(* of it in which the callers keep to the definition Careful: nothing in   *)
(* the code makes them.  The guards marked "caller" exclude calls on which *)
(* the kernel crashes.                                                     *)
(*                                                                         *)
(* A definition whose name begins with Faulty is a variant of the one that *)
(* follows it with a slip in it, there to see a property fail.             *)
(***************************************************************************)
EXTENDS Integers, Sequences, FiniteSets, FiniteSetsExt, SequencesExt

CONSTANTS
  Tasks,
  Names,        \* names of files and directories, without the dots
  Paths,        \* paths below the mount point: sequences of one name or two
  Chars,
  ITABLE,       \* inodes in the table
  NBLOCKS,      \* data blocks
  BLOCK_BYTES,  \* characters in a block
  NOFILE,       \* descriptors of a task
  MaxEntries,   \* bound: entries ever made in a directory
  MaxSize,      \* bound: characters in a file
  NULL

ASSUME FilesAssumption ==
  /\ {ITABLE, NBLOCKS, BLOCK_BYTES, NOFILE, MaxEntries} \subseteq Nat \ {0}
  /\ MaxSize \in Nat
  /\ Paths \subseteq {p \in Seq(Names) : Len(p) \in 1 .. 2}
  /\ {".", ".."} \cap Names = {}
  /\ NULL \notin Names \cup Nat \cup Tasks

Inodes == 0 .. ITABLE - 1
Blocks == 0 .. NBLOCKS - 1
Slots == 0 .. NOFILE - 1

VARIABLES
  imap,      \* IMAP: the inodes in use
  dmap,      \* DMAP: the blocks in use
  table,     \* TABLE
  data,      \* DATA: entries of a directory or characters of a file
  flides,    \* descriptors: a copy of the inode and an offset
  lock_vfs,  \* the task that holds it
  call,      \* where each task is inside a call, and what it has read
  asserted   \* FALSE once an assertion of write_map has failed and the kernel halted

disk == <<imap, dmap, table, data>>
vars == <<disk, flides, lock_vfs, call, asserted>>

Inode == [index : Inodes, type : {"NF", "DR"}, size : Nat, link : Seq(Blocks),
          dir_len : Nat, link_num : Nat]
Entry == [inode : Inodes, name : Names \cup {".", ".."}, type : {"NF", "DR", "XX"}]
Idle == [pc |-> "idle"]

(* NULL is no descriptor. *)
ASSUME NullAssumption ==
  NULL \notin [inode : Inode, offset : Nat] \cup [node : Inodes, offset : Nat]

Put(f, k, x) == [f EXCEPT ![k] = x]
Ent(i, n, type) == [inode |-> i, name |-> n, type |-> type]

-----------------------------------------------------------------------------
(* Looking up *)

Entries(dir) == SubSeq(data[dir.link[1]], 1, dir.size)

Live(e) == e.type # "XX"

(* The inode of the first live entry of that name, or NULL for -1. *)
DirLookup(dir, n) ==
  LET es == Entries(dir)
      found == {k \in DOMAIN es : Live(es[k]) /\ es[k].name = n}
  IN  IF found = {} THEN NULL ELSE es[Min(found)].inode

(* The loop takes rootdir, the first name, then postname, which is the last one. *)
Lookup(p) ==
  IF p = <<>> THEN 0
  ELSE LET first == DirLookup(table[0], Head(p))
       IN  IF first = NULL \/ Len(p) = 1 THEN first
           ELSE DirLookup(table[first], Last(p))

Father(p) == Lookup(Front(p))
IsDir(i) == i # NULL /\ table[i].type = "DR"

(* caller: what a path goes through is a directory, where there is one. *)
Proper(p) == Len(p) = 2 => Father(p) = NULL \/ IsDir(Father(p))

(* free_map, which is asked only when something is free. *)
FreeInode == Min(Inodes \ imap)
FreeBlock == Min(Blocks \ dmap)
FirstSlot(t) == Min({s \in Slots : flides[t][s] = NULL})

-----------------------------------------------------------------------------
(* Creating *)

(* ext2_append_data of an entry to the directory inode dir: the inode it leaves
   in memory and in the TABLE. *)
Appended(dir) == [dir EXCEPT !.dir_len = @ + 1, !.size = @ + 1]
WithEntry(dir, e) == Append(Entries(dir), e)

NewInode(i, type, link) ==
  [index |-> i, type |-> type, size |-> 2 * Len(link), link |-> link,
   dir_len |-> 2 * Len(link), link_num |-> 1]

HasRoom(dir) == dir.size < MaxEntries

(* ext2_create_file of a normal file: the father as it was read, the inode as
   free_map chose it. *)
CreateFile(father, i, n) ==
  /\ asserted' = (i \notin imap)
  /\ imap' = imap \cup {i}
  /\ table' = Put(Put(table, father.index, Appended(father)), i, NewInode(i, "NF", <<>>))
  /\ data' = Put(data, father.link[1], WithEntry(father, Ent(i, n, "NF")))
  /\ UNCHANGED dmap

FaultyDots(i, father) == <<Ent(i, ".", "DR"), Ent(i, "..", "DR")>>

Dots(i, father) == <<Ent(i, ".", "DR"), Ent(father, "..", "DR")>>

(* ext2_create_file of a directory: a block for its dots, then as above. *)
CreateDir(father, i, b, n) ==
  /\ asserted' = (i \notin imap /\ b \notin dmap)
  /\ imap' = imap \cup {i}
  /\ dmap' = dmap \cup {b}
  /\ table' = Put(Put(table, father.index, Appended(father)), i, NewInode(i, "DR", <<b>>))
  /\ data' = Put(Put(data, b, Dots(i, father.index)), father.link[1],
                 WithEntry(father, Ent(i, n, "DR")))

(* ext2_init: an empty root. *)
Init ==
  /\ imap = {0}
  /\ dmap = {0}
  /\ table = [i \in Inodes |-> IF i = 0 THEN NewInode(0, "DR", <<0>>)
                                        ELSE [NewInode(0, "NF", <<>>) EXCEPT !.link_num = 0]]
  /\ data = [b \in Blocks |-> IF b = 0 THEN Dots(0, 0) ELSE <<>>]
  /\ flides = [t \in Tasks |-> [s \in Slots |-> NULL]]
  /\ lock_vfs = NULL
  /\ call = [t \in Tasks |-> Idle]
  /\ asserted = TRUE

-----------------------------------------------------------------------------
(* open and close *)

FaultyUnlocked == TRUE

Unlocked == lock_vfs = NULL

(* Without O_CREAT, an open of what is not there takes the lock and gives it back. *)
OpenMissing(t, p) ==
  /\ call[t] = Idle
  /\ Unlocked
  /\ Proper(p)
  /\ Lookup(p) = NULL
  /\ UNCHANGED vars

(* caller: the new name has a directory to be in, with room for it. *)
Fits(p) == Proper(p) /\ Father(p) # NULL /\ HasRoom(table[Father(p)])

(* Up to the lookup, or, with O_CREAT, up to the father and free_map of the
   inode.  As the first half of vfs_link, q is the new path and there is no
   O_CREAT. *)
OpenLook(t, p, q) ==
  /\ call[t] = Idle
  /\ Unlocked
  /\ \E s \in Slots : flides[t][s] = NULL  \* caller: get_free_flides finds one
  /\ Proper(p)
  /\ \/ /\ Lookup(p) # NULL
        /\ q # <<>> => Fits(q)
        /\ call' = [call EXCEPT ![t] = [pc |-> "slot", path |-> p, new |-> q,
                                        cur |-> table[Lookup(p)]]]
     \/ /\ Lookup(p) = NULL
        /\ q = <<>>                           \* caller: link opens what is there
        /\ Fits(p)
        /\ Inodes \ imap # {}                 \* caller: the table is not full
        /\ call' = [call EXCEPT ![t] = [pc |-> "create", path |-> p,
                                        father |-> table[Father(p)], index |-> FreeInode]]
  /\ lock_vfs' = t
  /\ UNCHANGED <<disk, flides, asserted>>

OpenCreate(t) ==
  /\ call[t].pc = "create"
  /\ CreateFile(call[t].father, call[t].index, Last(call[t].path))
  /\ call' = [call EXCEPT ![t] = [pc |-> "slot", path |-> call[t].path, new |-> <<>>,
                                  cur |-> table'[call[t].index]]]
  /\ UNCHANGED <<flides, lock_vfs>>

(* vfs_link goes on without the lock. *)
OpenSlot(t) ==
  /\ call[t].pc = "slot"
  /\ flides' = [flides EXCEPT ![t][FirstSlot(t)] = [inode |-> call[t].cur, offset |-> 0]]
  /\ call' = [call EXCEPT ![t] = IF call[t].new = <<>> THEN Idle
                                 ELSE [pc |-> "link", path |-> call[t].new, slot |-> FirstSlot(t)]]
  /\ lock_vfs' = NULL
  /\ UNCHANGED <<disk, asserted>>

Close(t, s) ==
  /\ call[t] = Idle
  /\ Unlocked
  /\ flides[t][s] # NULL
  /\ flides' = [flides EXCEPT ![t][s] = NULL]
  /\ UNCHANGED <<disk, lock_vfs, call, asserted>>

-----------------------------------------------------------------------------
(* Calls that take no lock *)

(* ext2_create_file up to the father and free_map of the inode and of the block. *)
MkdirLook(t, p) ==
  /\ call[t] = Idle
  /\ Fits(p)
  /\ Inodes \ imap # {} /\ Blocks \ dmap # {} \* caller: the device is not full
  /\ call' = [call EXCEPT ![t] = [pc |-> "mkdir", path |-> p, father |-> table[Father(p)],
                                  index |-> FreeInode, block |-> FreeBlock]]
  /\ UNCHANGED <<disk, flides, lock_vfs, asserted>>

MkdirMake(t) ==
  /\ call[t].pc = "mkdir"
  /\ CreateDir(call[t].father, call[t].index, call[t].block, Last(call[t].path))
  /\ call' = [call EXCEPT ![t] = Idle]
  /\ UNCHANGED <<flides, lock_vfs>>

(* The first of the entries K marked as removed. *)
Crossed(es, K) ==
  [k \in DOMAIN es |-> IF k \in K /\ \A j \in K : k <= j THEN [es[k] EXCEPT !.type = "XX"]
                       ELSE es[k]]

FaultyRemoved(dir, i) ==
  LET es == Entries(dir) IN Crossed(es, {k \in DOMAIN es : es[k].inode = i})

(* ext2_dir_remove marks the first live entry with that inode. *)
Removed(dir, i) ==
  LET es == Entries(dir) IN Crossed(es, {k \in DOMAIN es : es[k].inode = i /\ Live(es[k])})

NotEmpty(inode) == inode.type = "DR" /\ inode.dir_len > 2

FaultyFreed(inode) == {}

(* The blocks ext2_inode_remove clears in DMAP. *)
Freed(inode) == ToSet(inode.link)

LastLink(inode) == inode.link_num = 1

(* rmdir and unlink are both ext2_rm: up to the inode and the test of it. *)
RmLook(t, p) ==
  /\ call[t] = Idle
  /\ Proper(p)
  /\ Lookup(p) # NULL
  /\ ~NotEmpty(table[Lookup(p)])
  /\ call' = [call EXCEPT ![t] = [pc |-> "rm", path |-> p, dir |-> table[Father(p)],
                                  inode |-> table[Lookup(p)]]]
  /\ UNCHANGED <<disk, flides, lock_vfs, asserted>>

RmDo(t) ==
  LET dir == call[t].dir
      inode == call[t].inode
      dirs == Put(table, dir.index, [dir EXCEPT !.dir_len = @ - 1])
  IN  /\ call[t].pc = "rm"
      /\ data' = Put(data, dir.link[1], Removed(dir, inode.index))
      /\ \/ /\ LastLink(inode)
            /\ asserted' = (inode.index \in imap /\ Freed(inode) \subseteq dmap)
            /\ imap' = imap \ {inode.index}
            /\ dmap' = dmap \ Freed(inode)
            /\ table' = dirs
         \/ /\ ~LastLink(inode)
            /\ table' = Put(dirs, inode.index, [inode EXCEPT !.link_num = @ - 1])
            /\ UNCHANGED <<imap, dmap, asserted>>
      /\ call' = [call EXCEPT ![t] = Idle]
      /\ UNCHANGED <<flides, lock_vfs>>

FaultyLinked(inode) == inode

Linked(inode) == [inode EXCEPT !.link_num = @ + 1]

(* The second half of vfs_link, on the descriptor that the open took and that is
   never closed: up to the father. *)
LinkLook(t) ==
  /\ call[t].pc = "link"
  /\ Fits(call[t].path)
  /\ call' = [call EXCEPT ![t] = [pc |-> "entry", path |-> call[t].path, slot |-> call[t].slot,
                                  father |-> table[Father(call[t].path)]]]
  /\ UNCHANGED <<disk, flides, lock_vfs, asserted>>

(* The entry has the type NF, and the inode that goes to the TABLE is the
   descriptor's copy. *)
LinkEntry(t) ==
  LET father == call[t].father
      inode == Linked(flides[t][call[t].slot].inode)
      entry == Ent(inode.index, Last(call[t].path), "NF")
  IN  /\ call[t].pc = "entry"
      /\ data' = Put(data, father.link[1], WithEntry(father, entry))
      /\ table' = Put(Put(table, father.index, Appended(father)), inode.index, inode)
      /\ flides' = [flides EXCEPT ![t][call[t].slot].inode = inode]
      /\ call' = [call EXCEPT ![t] = Idle]
      /\ UNCHANGED <<imap, dmap, lock_vfs, asserted>>

(* Characters w over the ones of block b from position r on. *)
Over(old, r, w) ==
  [k \in 1 .. Max({Len(old), r + Len(w)}) |->
     IF k > r /\ k <= r + Len(w) THEN w[k - r] ELSE old[k]]

Remain(offset) == offset % BLOCK_BYTES
NeedsBlock(inode, offset) == offset >= Len(inode.link) * BLOCK_BYTES

(* The inode after a write up to that size. *)
Grown(inode, size) == [inode EXCEPT !.size = Max({size, inode.size})]

(* The block a write of descriptor f goes to, as the copy of the inode has it or
   as free_map chooses it. *)
Target(f) ==
  IF NeedsBlock(f.inode, f.offset) THEN FreeBlock
  ELSE f.inode.link[f.offset \div BLOCK_BYTES + 1]

(* ext2_inode_write up to free_map. *)
WriteLook(t, s) ==
  LET f == flides[t][s]
  IN  /\ call[t] = Idle
      /\ f # NULL
      /\ f.inode.type = "NF"                  \* caller: a directory is assert(0)
      /\ f.offset < MaxSize
      /\ NeedsBlock(f.inode, f.offset) => Blocks \ dmap # {} \* caller: there is a block
      /\ call' = [call EXCEPT ![t] = [pc |-> "write", slot |-> s, block |-> Target(f)]]
      /\ UNCHANGED <<disk, flides, lock_vfs, asserted>>

(* The rest, for characters w that stay within one block.  The inode is the
   descriptor's copy, and it goes to the TABLE if the file grows. *)
WriteDo(t, w) ==
  LET s == call[t].slot
      f == flides[t][s]
      b == call[t].block
      new == NeedsBlock(f.inode, f.offset)
      inode == Grown([f.inode EXCEPT !.link = IF new THEN Append(@, b) ELSE @],
                     f.offset + Len(w))
  IN  /\ call[t].pc = "write"
      /\ Remain(f.offset) + Len(w) <= BLOCK_BYTES  \* caller: offset does not advance
      /\ f.offset + Len(w) <= MaxSize
      /\ asserted' = (new => b \notin dmap)
      /\ dmap' = dmap \cup {b}
      /\ data' = Put(data, b, Over(IF new THEN <<>> ELSE data[b], Remain(f.offset), w))
      /\ flides' = [flides EXCEPT ![t][s].inode = inode]
      /\ table' = IF inode.size > f.inode.size THEN Put(table, inode.index, inode) ELSE table
      /\ call' = [call EXCEPT ![t] = Idle]
      /\ UNCHANGED <<imap, lock_vfs>>

Clamp(x, size) == Max({Min({x, size}), 0})

(* S_CUR adds in unsigned arithmetic: what is before the start is past the end. *)
Sought(f, whence, x) ==
  CASE whence = "S_SET" -> Clamp(x, f.inode.size)
    [] whence = "S_CUR" -> IF f.offset + x < 0 THEN f.inode.size
                           ELSE Clamp(f.offset + x, f.inode.size)
    [] whence = "S_END" -> Clamp(f.inode.size + x, f.inode.size)

Lseek(t, s, whence, x) ==
  /\ call[t] = Idle
  /\ flides[t][s] # NULL
  /\ flides[t][s].inode.type = "NF"
  /\ flides' = [flides EXCEPT ![t][s].offset = Sought(flides[t][s], whence, x)]
  /\ UNCHANGED <<disk, lock_vfs, call, asserted>>

-----------------------------------------------------------------------------

Writes == BoundedSeq(Chars, BLOCK_BYTES) \ {<<>>}

Next ==
  /\ asserted
  /\ \E t \in Tasks :
       \/ \E p \in Paths :
            \/ OpenMissing(t, p) \/ MkdirLook(t, p) \/ RmLook(t, p)
            \/ \E q \in Paths \cup {<<>>} : OpenLook(t, p, q)
       \/ OpenCreate(t) \/ OpenSlot(t) \/ MkdirMake(t) \/ RmDo(t)
       \/ LinkLook(t) \/ LinkEntry(t)
       \/ \E w \in Writes : WriteDo(t, w)
       \/ \E s \in Slots :
            \/ Close(t, s) \/ WriteLook(t, s)
            \/ \E whence \in {"S_SET", "S_CUR", "S_END"}, x \in {-1, 0, 1} :
                 Lseek(t, s, whence, x)

Spec == Init /\ [][Next]_vars

-----------------------------------------------------------------------------
(* Callers that take care.  The kernel's own shells do not: there are two of them
   (dev.c:56-57), they share the file systems, and a user may type anything. *)

(* A call that takes no lock overlaps no other call.  Opens may. *)
Apart ==
  \A t, u \in Tasks :
    t # u /\ call[t] # Idle /\ call[u] # Idle => {call[t].pc, call[u].pc} \subseteq {"create", "slot"}

(* The copy of the inode in a descriptor is still what the TABLE has. *)
Current(t, s) ==
  LET inode == flides[t][s].inode
  IN  inode.index \in imap /\ inode = table[inode.index]

(* A descriptor that is written through is not out of date: since its file was opened,
   no other descriptor wrote or linked the file and no name of it was removed. *)
Fresh == \A t \in Tasks : call[t].pc = "write" => Current(t, call[t].slot)

(* mkdir and link are given a path that is not there, and link a file, not a
   directory: neither checks. *)
NewNames ==
  \A t \in Tasks :
    /\ call[t].pc \in {"mkdir", "link", "entry"} => Lookup(call[t].path) = NULL
    /\ call[t].pc = "slot" /\ call[t].new # <<>> =>
         Lookup(call[t].new) = NULL /\ call[t].cur.type = "NF"

Careful == Apart /\ Fresh /\ NewNames

CarefulSpec == Init /\ [][Next /\ Careful']_vars

-----------------------------------------------------------------------------
(* Properties *)

(* Inodes, entries and descriptors keep their types. *)
TypeOK ==
  /\ imap \subseteq Inodes
  /\ dmap \subseteq Blocks
  /\ table \in [Inodes -> Inode]
  /\ \A b \in Blocks : data[b] \in Seq(Entry) \/ data[b] \in Seq(Chars)
  /\ \A t \in Tasks, s \in Slots :
       flides[t][s] # NULL => flides[t][s] \in [inode : Inode, offset : Nat]
  /\ lock_vfs \in Tasks \cup {NULL}
  /\ \A t \in Tasks : call[t].pc \in {"idle", "create", "slot", "mkdir", "rm", "link", "entry", "write"}

(* The live entries but the dots: which name of which directory is which inode. *)
Tree ==
  UNION {{[dir |-> i, name |-> Entries(table[i])[k].name, node |-> Entries(table[i])[k].inode] :
            k \in {k \in DOMAIN Entries(table[i]) :
                     Entries(table[i])[k].type # "XX" /\ Entries(table[i])[k].name \in Names}} :
         i \in {i \in imap : table[i].type = "DR"}}

(* The assertions of write_map (ext2.c:36) hold: no inode and no block is taken
   twice or freed twice.  So it is for careful callers, however many open at once,
   and in whatever order they make, link, write and remove; for the kernel's shells
   it is not. *)
MapsAsserted == asserted

(* IMAP holds the root and every inode some name leads to, DMAP the blocks of
   those inodes, and no block belongs to two: nothing leaks and nothing is shared. *)
MapsExact ==
  /\ imap = {0} \cup {e.node : e \in Tree}
  /\ dmap = UNION {ToSet(table[i].link) : i \in imap}
  /\ \A i, j \in imap : i # j => ToSet(table[i].link) \cap ToSet(table[j].link) = {}

(* link_num is the number of names of an inode, so the last unlink and no other
   frees it; dir_len is the number of live entries, the dots among them, which is
   what rmdir takes for empty and where reading a directory stops. *)
LinksCounted ==
  \A i \in imap :
    /\ table[i].link_num = IF i = 0 THEN 1 ELSE Cardinality({e \in Tree : e.node = i})
    /\ table[i].type = "DR" =>
         table[i].dir_len = 2 + Cardinality({e \in Tree : e.dir = i})

(* A directory other than the root has one name, its dots lead to itself and to
   the directory of that name, and an entry has the type of its inode. *)
DirectoriesNest ==
  \A e \in Tree :
    table[e.node].type = "DR" =>
      /\ \A f \in Tree : f.node = e.node => f = e
      /\ DirLookup(table[e.node], ".") = e.node
      /\ DirLookup(table[e.node], "..") = e.dir

FaultyLeft(f, k) == f.inode.size - (Len(f.inode.link) - 1) * BLOCK_BYTES

(* What ext2_inode_read copies for the part of block k (from 0) that it reads. *)
Left(f, k) ==
  LET first == k = f.offset \div BLOCK_BYTES
      last == Len(f.inode.link) - 1
  IN  IF k < last THEN IF first THEN BLOCK_BYTES - Remain(f.offset) ELSE BLOCK_BYTES
      ELSE IF first THEN f.inode.size - last * BLOCK_BYTES - Remain(f.offset)
      ELSE f.inode.size - last

ReadBlock(f, k) ==
  LET start == IF k = f.offset \div BLOCK_BYTES THEN Remain(f.offset) ELSE 0
  IN  [j \in 1 .. Left(f, k) |->
         LET here == data[f.inode.link[k + 1]]
         IN  IF start + j \in DOMAIN here THEN here[start + j] ELSE NULL]

ReadText(f) ==
  FlattenSeq([j \in 1 .. Len(f.inode.link) - f.offset \div BLOCK_BYTES |->
                ReadBlock(f, f.offset \div BLOCK_BYTES + j - 1)])

(* The characters of a file, as many as its size says, each at its place in its
   block. *)
Text(i) ==
  [k \in 1 .. table[i].size |->
     data[table[i].link[(k - 1) \div BLOCK_BYTES + 1]][Remain(k - 1) + 1]]

(* Reading in the last block of a file, through a copy that is not out of date,
   gives what was written from the offset to the end.  (A read that begins in an
   earlier block takes too much of the last one.) *)
ReadsBack ==
  \A t \in Tasks, s \in Slots :
    LET f == flides[t][s]
    IN  /\ f # NULL
        /\ Current(t, s)
        /\ f.inode.type = "NF"
        /\ f.offset \div BLOCK_BYTES >= Len(f.inode.link) - 1
        /\ f.offset < f.inode.size
        => ReadText(f) = SubSeq(Text(f.inode.index), f.offset + 1, f.inode.size)

-----------------------------------------------------------------------------
(* The abstract file tree *)

kind == [i \in Inodes |-> IF i \in imap THEN table[i].type ELSE "none"]
text == [i \in Inodes |-> IF kind[i] = "NF" THEN Text(i) ELSE <<>>]
descriptors ==
  [t \in Tasks |-> [s \in Slots |->
     IF flides[t][s] = NULL THEN NULL
     ELSE [node |-> flides[t][s].inode.index, offset |-> flides[t][s].offset]]]

Abs == INSTANCE FilesAbs WITH Nodes <- Inodes, entries <- Tree, open <- descriptors

(* Bitmaps, table, blocks and copies together are a tree of names, each file with
   its own text, that every call of a careful caller changes in one step, at the
   path it was given and nowhere else. *)
ImplementsTree == Abs!Spec

=============================================================================
