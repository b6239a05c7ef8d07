----------------------------- MODULE FilesProofs -----------------------------
(***************************************************************************)
(* Proofs about the file system, for every number of tasks, inodes, blocks *)
(* and descriptors, and blocks of any size: for careful callers, bitmaps,  *)
(* link counts and directories agree with the tree of names in every state *)
(* a call passes through, and the assertions of write_map hold; and        *)
(* bitmaps, table, blocks and descriptors together implement the tree of   *)
(* FilesAbs, each file with the text that was written to it.               *)
(*                                                                         *)
(* The argument: for careful callers, at most one task is inside a call,   *)
(* and what it has read on its way in is still so when it writes (Inside). *)
(***************************************************************************)
EXTENDS Files, FiniteSetTheorems, SequenceTheorems, TLAPS

(* The directories, and the entries of one. *)
Dirs == {i \in imap : table[i].type = "DR"}
Block(d) == table[d].link[1]
Page(d) == data[Block(d)]

Edge(d, n, i) == [dir |-> d, name |-> n, node |-> i]

(* Variables have the types that the other parts rest on: what is in a block is
   left open, for the block may be a file's. *)
Typed ==
  /\ imap \subseteq Inodes /\ 0 \in imap
  /\ dmap \subseteq Blocks
  /\ table \in [Inodes -> Inode]
  /\ data = [b \in Blocks |-> data[b]]

(* The inode in a slot of the table knows its number. *)
Named == \A i \in imap : table[i].index = i

(* A directory has one block with the dots first and then, under different names, the
   entries that are alive. *)
DirShape(d) ==
  /\ Len(table[d].link) = 1 /\ Block(d) \in Blocks
  /\ Page(d) \in Seq(Entry) /\ Len(Page(d)) = table[d].size
  /\ Len(Page(d)) >= 2
  /\ Page(d)[1] = Ent(d, ".", "DR")
  /\ Page(d)[2].name = ".." /\ Live(Page(d)[2])
  /\ \A k \in 3 .. Len(Page(d)) : Page(d)[k].name \in Names
  /\ \A k, l \in 3 .. Len(Page(d)) :
       k # l /\ Live(Page(d)[k]) /\ Live(Page(d)[l]) =>
         Page(d)[k].name # Page(d)[l].name

Paged == \A d \in Dirs : DirShape(d)

(* The tree of names: a root, directories in it, files everywhere. *)
Shaped ==
  /\ IsFiniteSet(Tree)
  /\ table[0].type = "DR" /\ Page(0)[2].inode = 0
  /\ \A e \in Tree : e.node # 0
  /\ \A e \in Tree : e.dir = 0 \/ \E f \in Tree : f.dir = 0 /\ f.node = e.dir
  /\ \A e \in Tree : table[e.node].type = "DR" =>
       Page(e.node)[2].inode = e.dir /\ \A f \in Tree : f.node = e.node => f = e

(* DMAP has the blocks of the inodes in use, and a block is one inode's. *)
BlocksExact ==
  /\ dmap = UNION {ToSet(table[i].link) : i \in imap}
  /\ \A i, j \in imap : i # j => ToSet(table[i].link) \cap ToSet(table[j].link) = {}

(* A file's size is within its blocks. *)
Sized ==
  \A i \in imap : table[i].type = "NF" => table[i].size <= Len(table[i].link) * BLOCK_BYTES

DiskInv ==
  /\ Typed /\ Named /\ Paged /\ Shaped
  /\ MapsExact /\ LinksCounted /\ Sized

(* Descriptors stay within the file as they know it. *)
Descriptors == {f \in [inode : Inode, offset : Nat] : f.offset <= f.inode.size}

Copied == flides \in [Tasks -> [Slots -> Descriptors \cup {NULL}]]

(* Where a path puts its last name, as the tree has it: in directory d. *)
InDir(p, d) ==
  /\ p \in Paths /\ Last(p) \in Names /\ d \in Dirs
  /\ IF Len(p) = 1 THEN d = 0 ELSE Edge(0, Head(p), d) \in Tree

(* The path is a name of inode i in directory d. *)
IsName(p, d, i) == InDir(p, d) /\ Edge(d, Last(p), i) \in Tree

(* The path has a directory to be in, and is free there; that directory is as it was
   read. *)
IsFree(p, father) ==
  /\ InDir(p, father.index)
  /\ father = table[father.index]
  /\ \A e \in Tree : ~(e.dir = father.index /\ e.name = Last(p))

IsCurrent(inode) == inode.index \in imap /\ inode = table[inode.index]

(* What a task inside a call has read is still so. *)
Creating(t) ==
  /\ call[t].pc = "create"
  /\ call[t] = [pc |-> "create", path |-> call[t].path, father |-> call[t].father,
                index |-> call[t].index]
  /\ IsFree(call[t].path, call[t].father)
  /\ call[t].index \in Inodes \ imap
  /\ \E s \in Slots : flides[t][s] = NULL

Opening(t) ==
  /\ call[t].pc = "slot"
  /\ call[t] = [pc |-> "slot", path |-> call[t].path, new |-> call[t].new, cur |-> call[t].cur]
  /\ IsCurrent(call[t].cur)
  /\ \E d \in Dirs : IsName(call[t].path, d, call[t].cur.index)
  /\ \E s \in Slots : flides[t][s] = NULL
  /\ call[t].new \in Paths \cup {<<>>}
  /\ call[t].new # <<>> => call[t].cur.type = "NF"

Making(t) ==
  /\ call[t].pc = "mkdir"
  /\ IsFree(call[t].path, call[t].father)
  /\ call[t].index \in Inodes \ imap
  /\ call[t].block \in Blocks \ dmap

Removing(t) ==
  /\ call[t].pc = "rm"
  /\ call[t].dir.index \in Dirs /\ call[t].dir = table[call[t].dir.index]
  /\ IsCurrent(call[t].inode) /\ ~NotEmpty(call[t].inode)
  /\ IsName(call[t].path, call[t].dir.index, call[t].inode.index)

HasFile(t) ==
  /\ call[t].slot \in Slots
  /\ flides[t][call[t].slot] # NULL
  /\ flides[t][call[t].slot].inode.type = "NF"
  /\ IsCurrent(flides[t][call[t].slot].inode)

Linking(t) ==
  /\ call[t].pc = "link"
  /\ call[t] = [pc |-> "link", path |-> call[t].path, slot |-> call[t].slot]
  /\ call[t].path \in Paths
  /\ HasFile(t)

Entering(t) ==
  /\ call[t].pc = "entry"
  /\ HasFile(t)
  /\ IsFree(call[t].path, call[t].father)

Writing(t) ==
  /\ call[t].pc = "write"
  /\ HasFile(t)
  /\ LET f == flides[t][call[t].slot]
     IN  /\ call[t].block = Target(f)
         /\ NeedsBlock(f.inode, f.offset) => call[t].block \in Blocks \ dmap

Inside(t) ==
  \/ Creating(t) \/ Opening(t) \/ Making(t) \/ Removing(t)
  \/ Linking(t) \/ Entering(t) \/ Writing(t)

(* At most one task is inside a call; inside open it has the lock. *)
Locked ==
  /\ lock_vfs \in Tasks \cup {NULL}
  /\ call = [t \in Tasks |-> call[t]]
  /\ \A t \in Tasks : lock_vfs = t <=> call[t].pc \in {"create", "slot"}
  /\ \A t \in Tasks : call[t] = Idle \/ Inside(t)
  /\ \A t, u \in Tasks : t # u => call[t] = Idle \/ call[u] = Idle

FilesInv == DiskInv /\ Copied /\ Locked /\ MapsAsserted

-----------------------------------------------------------------------------
(* Directories and the tree *)

LEMMA DotsAreNoNames == "." \notin Names /\ ".." \notin Names
  BY FilesAssumption

LEMMA EntriesPage == Paged => \A d \in Dirs : Entries(table[d]) = Page(d)
<1> SUFFICES ASSUME Paged, NEW d \in Dirs PROVE Entries(table[d]) = Page(d)
  OBVIOUS
<1>1. Page(d) \in Seq(Entry) /\ Len(Page(d)) = table[d].size
  BY DEF Paged, DirShape
<1>2. \A s \in Seq(Entry) : SubSeq(s, 1, Len(s)) = s
  BY SubSeqFull
<1> QED
  BY <1>1, <1>2 DEF Entries, Page, Block

(* The entries with names are those behind the dots. *)
LEMMA NamesBehindDots ==
  Paged => \A d \in Dirs :
    \A k \in DOMAIN Page(d) : k \in 3 .. Len(Page(d)) <=> Page(d)[k].name \in Names
<1> SUFFICES ASSUME Paged, NEW d \in Dirs, NEW k \in DOMAIN Page(d)
             PROVE  k \in 3 .. Len(Page(d)) <=> Page(d)[k].name \in Names
  OBVIOUS
<1>1. DirShape(d)
  BY DEF Paged
<1>2. Page(d) \in Seq(Entry) /\ Len(Page(d)) \in Nat /\ k \in 1 .. Len(Page(d))
  BY <1>1, LenProperties DEF DirShape
<1>3. k = 1 => Page(d)[k].name = "."
  BY <1>1 DEF DirShape, Ent
<1>4. k = 2 => Page(d)[k].name = ".."
  BY <1>1 DEF DirShape
<1>5. k \in 3 .. Len(Page(d)) => Page(d)[k].name \in Names
  BY <1>1 DEF DirShape
<1> QED
  BY <1>2, <1>3, <1>4, <1>5, DotsAreNoNames

(* An entry of the tree is a live entry of a directory behind its dots. *)
LEMMA TreeIs ==
  Paged => \A e : e \in Tree <=>
    \E d \in Dirs : \E k \in 3 .. Len(Page(d)) :
      Live(Page(d)[k]) /\ e = Edge(d, Page(d)[k].name, Page(d)[k].inode)
<1> SUFFICES ASSUME Paged, NEW e
             PROVE  e \in Tree <=>
                      \E d \in Dirs : \E k \in 3 .. Len(Page(d)) :
                        Live(Page(d)[k]) /\ e = Edge(d, Page(d)[k].name, Page(d)[k].inode)
  OBVIOUS
<1>1. e \in Tree <=> \E d \in Dirs : \E k \in DOMAIN Entries(table[d]) :
        /\ Live(Entries(table[d])[k]) /\ Entries(table[d])[k].name \in Names
        /\ e = Edge(d, Entries(table[d])[k].name, Entries(table[d])[k].inode)
  BY DEF Tree, Dirs, Live, Edge
<1>2. \A d \in Dirs : \A k \in DOMAIN Page(d) : k \in 3 .. Len(Page(d)) <=> Page(d)[k].name \in Names
  BY NamesBehindDots
<1>3. \A d \in Dirs : DOMAIN Page(d) = 1 .. Len(Page(d)) /\ Len(Page(d)) \in Nat
  BY LenProperties DEF Paged, DirShape
<1>4. e \in Tree <=> \E d \in Dirs : \E k \in DOMAIN Page(d) :
        /\ Live(Page(d)[k]) /\ Page(d)[k].name \in Names
        /\ e = Edge(d, Page(d)[k].name, Page(d)[k].inode)
  BY <1>1, EntriesPage
<1>5. ASSUME NEW d \in Dirs
      PROVE  (\E k \in DOMAIN Page(d) :
                /\ Live(Page(d)[k]) /\ Page(d)[k].name \in Names
                /\ e = Edge(d, Page(d)[k].name, Page(d)[k].inode))
             <=> \E k \in 3 .. Len(Page(d)) :
                   Live(Page(d)[k]) /\ e = Edge(d, Page(d)[k].name, Page(d)[k].inode)
  <2>1. \A k \in 3 .. Len(Page(d)) : k \in DOMAIN Page(d)
    BY <1>3
  <2> QED
    BY <1>2, <2>1
<1> QED
  BY <1>4, <1>5

Made ==
  \A e : e \in Tree <=>
    \E d \in Dirs : \E k \in 3 .. Len(Page(d)) :
      Live(Page(d)[k]) /\ e = Edge(d, Page(d)[k].name, Page(d)[k].inode)

LEMMA TreeMade == Paged => Made
  BY TreeIs DEF Made

(* Within a directory, no two names are the same. *)
LEMMA EdgesApart ==
  Typed /\ Paged =>
    /\ \A e \in Tree : /\ e = Edge(e.dir, e.name, e.node)
                       /\ e.dir \in Dirs /\ e.name \in Names /\ e.node \in Inodes
    /\ \A e, f \in Tree : e.dir = f.dir /\ e.name = f.name => e = f
<1> SUFFICES ASSUME Typed, Paged
             PROVE  /\ \A e \in Tree : /\ e = Edge(e.dir, e.name, e.node)
                                       /\ e.dir \in Dirs /\ e.name \in Names /\ e.node \in Inodes
                    /\ \A e, f \in Tree : e.dir = f.dir /\ e.name = f.name => e = f
  OBVIOUS
<1>1. ASSUME NEW d \in Dirs, NEW k \in 3 .. Len(Page(d))
      PROVE  Page(d)[k].name \in Names /\ Page(d)[k].inode \in Inodes
  <2>1. DirShape(d)
    BY DEF Paged
  <2>2. Page(d)[k] \in Entry
    BY <2>1 DEF DirShape
  <2> QED
    BY <2>1, <2>2 DEF DirShape, Entry
<1>2. \A e \in Tree : /\ e = Edge(e.dir, e.name, e.node)
                      /\ e.dir \in Dirs /\ e.name \in Names /\ e.node \in Inodes
  BY <1>1, TreeIs DEF Edge
<1>3. ASSUME NEW e \in Tree, NEW f \in Tree, e.dir = f.dir, e.name = f.name
      PROVE  e = f
  <2> DEFINE d == e.dir
  <2>1. PICK k \in 3 .. Len(Page(d)) : Live(Page(d)[k]) /\ e = Edge(d, Page(d)[k].name, Page(d)[k].inode)
    BY TreeIs DEF Edge
  <2>2. PICK l \in 3 .. Len(Page(d)) : Live(Page(d)[l]) /\ f = Edge(d, Page(d)[l].name, Page(d)[l].inode)
    BY <1>3, TreeIs DEF Edge
  <2>3. DirShape(d)
    BY <1>2 DEF Paged
  <2>4. k = l
    BY <1>3, <2>1, <2>2, <2>3 DEF DirShape, Edge
  <2> QED
    BY <2>1, <2>2, <2>4
<1> QED
  BY <1>2, <1>3

LEMMA MinOfOne == ASSUME NEW k \in Int PROVE Min({k}) = k
  BY DEF Min

(* The order of the natural numbers is well founded. *)
LEMMA OrderOfNat == \E R : IsWellFoundedOn(R, Nat) /\ \A x, y \in Nat : <<x, y>> \in R <=> x < y
<1>1. \A x, y \in Nat : <<x, y>> \in OpToRel(<, Nat) <=> x < y
  BY DEF OpToRel
<1> QED
  BY <1>1, NatLessThanWellFounded, Zenon

(* A set of natural numbers has a least one, and that is its Min. *)
LEMMA MinIsIn ==
  ASSUME NEW S, S \subseteq Nat, S # {}
  PROVE  Min(S) \in S /\ \A y \in S : Min(S) <= y
<1>1. PICK R : IsWellFoundedOn(R, Nat) /\ \A x, y \in Nat : <<x, y>> \in R <=> x < y
  BY OrderOfNat
<1>2. IsWellFoundedOn(R, Nat)
  BY <1>1
<1>3. \A T, U, Q : IsWellFoundedOn(Q, U) /\ T \subseteq U /\ T # {} =>
        \E x \in T : \A y \in T : ~(<<y, x>> \in Q)
  BY WFMin, Zenon
<1>4. PICK x \in S : \A y \in S : ~(<<y, x>> \in R)
  BY <1>2, <1>3, Zenon
<1>5. \A y \in S : ~(y < x)
  BY <1>1, <1>4
<1>6. \A y \in S : x <= y
  BY <1>5
<1>7. \E m \in S : \A y \in S : m <= y
  BY <1>6
<1> DEFINE m == CHOOSE m \in S : \A y \in S : m <= y
<1>8. m \in S /\ \A y \in S : m <= y
  BY <1>7
<1> QED
  BY <1>8 DEF Min

LEMMA Lookups ==
  Typed /\ Paged =>
    /\ \A e \in Tree : DirLookup(table[e.dir], e.name) = e.node
    /\ \A d \in Dirs, n \in Names :
         DirLookup(table[d], n) # NULL => Edge(d, n, DirLookup(table[d], n)) \in Tree
    /\ \A d \in Dirs : DirLookup(table[d], ".") = d /\ DirLookup(table[d], "..") = Page(d)[2].inode
<1> SUFFICES ASSUME Typed, Paged
             PROVE  /\ \A e \in Tree : DirLookup(table[e.dir], e.name) = e.node
                    /\ \A d \in Dirs, n \in Names :
                         DirLookup(table[d], n) # NULL => Edge(d, n, DirLookup(table[d], n)) \in Tree
                    /\ \A d \in Dirs :
                         DirLookup(table[d], ".") = d /\ DirLookup(table[d], "..") = Page(d)[2].inode
  OBVIOUS
<1>1. ASSUME NEW d \in Dirs
      PROVE  /\ DirShape(d) /\ Entries(table[d]) = Page(d)
             /\ DOMAIN Page(d) = 1 .. Len(Page(d)) /\ Len(Page(d)) \in Nat
  BY EntriesPage, LenProperties DEF Paged, DirShape
<1>2. ASSUME NEW d \in Dirs, NEW n, NEW k \in DOMAIN Page(d), Live(Page(d)[k]), Page(d)[k].name = n,
             \A l \in DOMAIN Page(d) : Live(Page(d)[l]) /\ Page(d)[l].name = n => l = k
      PROVE  DirLookup(table[d], n) = Page(d)[k].inode
  <2>1. {l \in DOMAIN Page(d) : Live(Page(d)[l]) /\ Page(d)[l].name = n} = {k}
    BY <1>2
  <2>2. Min({k}) = k
    BY <1>1, MinOfOne
  <2> QED
    BY <1>1, <2>1, <2>2 DEF DirLookup
<1>3. ASSUME NEW d \in Dirs, NEW k \in 3 .. Len(Page(d)), Live(Page(d)[k])
      PROVE  DirLookup(table[d], Page(d)[k].name) = Page(d)[k].inode
  <2>1. k \in DOMAIN Page(d) /\ Page(d)[k].name \in Names
    BY <1>1 DEF DirShape
  <2>2. ASSUME NEW l \in DOMAIN Page(d), Live(Page(d)[l]), Page(d)[l].name = Page(d)[k].name
        PROVE  l = k
    <3>1. l \in 3 .. Len(Page(d))
      BY <2>1, <2>2, NamesBehindDots
    <3>2. DirShape(d)
      BY <1>1
    <3> QED
      BY <1>3, <2>2, <3>1, <3>2 DEF DirShape
  <2> QED
    BY <1>2, <1>3, <2>1, <2>2
<1>4. \A e \in Tree : DirLookup(table[e.dir], e.name) = e.node
  BY <1>3, TreeIs DEF Edge
<1>5. ASSUME NEW d \in Dirs, NEW n \in Names, DirLookup(table[d], n) # NULL
      PROVE  Edge(d, n, DirLookup(table[d], n)) \in Tree
  <2>1. PICK k \in DOMAIN Page(d) : Live(Page(d)[k]) /\ Page(d)[k].name = n
    BY <1>1, <1>5 DEF DirLookup
  <2>2. k \in 3 .. Len(Page(d))
    BY <2>1, NamesBehindDots
  <2>3. DirLookup(table[d], n) = Page(d)[k].inode
    BY <1>3, <2>1, <2>2
  <2> QED
    BY <2>1, <2>2, <2>3, TreeIs
<1>6. ASSUME NEW d \in Dirs
      PROVE  DirLookup(table[d], ".") = d /\ DirLookup(table[d], "..") = Page(d)[2].inode
  <2>1. /\ 1 \in DOMAIN Page(d) /\ 2 \in DOMAIN Page(d)
        /\ Page(d)[1].name = "." /\ Page(d)[1].inode = d /\ Live(Page(d)[1])
        /\ Page(d)[2].name = ".." /\ Live(Page(d)[2])
    <3>1. DirShape(d) /\ DOMAIN Page(d) = 1 .. Len(Page(d)) /\ Len(Page(d)) \in Nat
      BY <1>1
    <3>2. 1 \in DOMAIN Page(d) /\ 2 \in DOMAIN Page(d)
      BY <3>1 DEF DirShape
    <3>3. Page(d)[1] = Ent(d, ".", "DR") /\ Page(d)[2].name = ".." /\ Live(Page(d)[2])
      BY <3>1 DEF DirShape
    <3> QED
      BY <3>2, <3>3 DEF Ent, Live
  <2>2. \A l \in DOMAIN Page(d) : l # 1 /\ l # 2 => Page(d)[l].name \in Names
    BY <1>1 DEF DirShape
  <2>3. \A l \in DOMAIN Page(d) : Page(d)[l].name = "." => l = 1
    BY <2>1, <2>2, DotsAreNoNames
  <2>4. \A l \in DOMAIN Page(d) : Page(d)[l].name = ".." => l = 2
    BY <2>1, <2>2, DotsAreNoNames
  <2>5. DirLookup(table[d], ".") = Page(d)[1].inode
    BY <1>2, <2>1, <2>3
  <2>6. DirLookup(table[d], "..") = Page(d)[2].inode
    BY <1>2, <2>1, <2>4
  <2> QED
    BY <2>1, <2>5, <2>6
<1> QED
  BY <1>4, <1>5, <1>6

(* What a path leads to, and what the directory of its last name is. *)
LEMMA PathsLead ==
  Typed /\ Paged /\ Shaped /\ MapsExact =>
    \A p \in Paths : Proper(p) =>
      /\ Last(p) \in Names
      /\ Lookup(p) # NULL => Father(p) # NULL /\ Edge(Father(p), Last(p), Lookup(p)) \in Tree
      /\ Father(p) # NULL =>
           /\ InDir(p, Father(p))
           /\ Lookup(p) = NULL => \A e \in Tree : ~(e.dir = Father(p) /\ e.name = Last(p))
<1> SUFFICES ASSUME Typed, Paged, Shaped, MapsExact, NEW p \in Paths, Proper(p)
             PROVE  /\ Last(p) \in Names
                    /\ Lookup(p) # NULL =>
                         Father(p) # NULL /\ Edge(Father(p), Last(p), Lookup(p)) \in Tree
                    /\ Father(p) # NULL =>
                         /\ InDir(p, Father(p))
                         /\ Lookup(p) = NULL => \A e \in Tree : ~(e.dir = Father(p) /\ e.name = Last(p))
  OBVIOUS
<1>1. p \in Seq(Names) /\ p # <<>> /\ Len(p) \in 1 .. 2
  <2>1. p \in Seq(Names) /\ Len(p) \in 1 .. 2
    BY FilesAssumption
  <2>2. Len(p) # 0
    BY <2>1
  <2> QED
    BY <2>1, <2>2, EmptySeq
<1>2. 0 \in Dirs /\ 0 # NULL
  BY FilesAssumption DEF Typed, Shaped, Dirs
<1>3. ASSUME NEW d \in Dirs, NEW n \in Names
      PROVE  /\ DirLookup(table[d], n) # NULL => Edge(d, n, DirLookup(table[d], n)) \in Tree
             /\ DirLookup(table[d], n) = NULL => \A e \in Tree : ~(e.dir = d /\ e.name = n)
  <2>1. \A e \in Tree : e.node # NULL
    BY EdgesApart, FilesAssumption DEF Inodes
  <2> QED
    BY <2>1, Lookups
<1>4. CASE Len(p) = 1
  <2>1. Front(p) = <<>> /\ Last(p) = p[1] /\ p[1] \in Names /\ Head(p) = p[1]
    BY <1>1, <1>4 DEF Front, Last
  <2>2. Father(p) = 0
    BY <2>1 DEF Father, Lookup
  <2>3. Lookup(p) = DirLookup(table[0], Last(p))
    BY <1>1, <1>4, <2>1 DEF Lookup
  <2> QED
    BY <1>2, <1>3, <1>4, <2>1, <2>2, <2>3 DEF InDir
<1>5. CASE Len(p) = 2
  <2> DEFINE q == Front(p)
  <2>1. q = <<p[1]>> /\ Last(p) = p[2] /\ p[1] \in Names /\ p[2] \in Names /\ Head(p) = p[1]
    <3>1. p[1] \in Names /\ p[2] \in Names /\ Last(p) = p[2] /\ Head(p) = p[1] /\ q = SubSeq(p, 1, 1)
      BY <1>1, <1>5 DEF Front, Last
    <3>2. q \in Seq(Names) /\ Len(q) = 1 /\ q[1] = p[1]
      BY <1>1, <3>1
    <3>3. <<p[1]>> \in Seq(Names) /\ Len(<<p[1]>>) = 1 /\ <<p[1]>>[1] = p[1]
      BY <3>1
    <3> HIDE DEF q
    <3>4. q = <<p[1]>>
      BY <3>2, <3>3, SeqEqual
    <3> QED
      BY <3>1, <3>4
  <2>2. q # <<>> /\ Len(q) = 1 /\ Head(q) = p[1]
    BY <2>1
  <2>3. Father(p) = DirLookup(table[0], p[1])
    BY <2>2 DEF Father, Lookup
  <2>4. Lookup(p) = IF Father(p) = NULL THEN NULL ELSE DirLookup(table[Father(p)], Last(p))
    BY <1>1, <1>5, <2>1, <2>3 DEF Lookup
  <2>5. Father(p) # NULL => Edge(0, p[1], Father(p)) \in Tree /\ table[Father(p)].type = "DR"
    BY <1>2, <1>3, <1>5, <2>1, <2>3 DEF Proper, IsDir
  <2>6. Father(p) # NULL => Father(p) \in Dirs
    BY <2>5 DEF MapsExact, Edge, Dirs
  <2> HIDE DEF q
  <2> QED
    BY <1>3, <1>5, <2>1, <2>4, <2>5, <2>6 DEF InDir
<1> QED
  BY <1>1, <1>4, <1>5

-----------------------------------------------------------------------------
(* One name more and one name less *)

NamesOf(T, i) == {e \in T : e.node = i}
Below(T, i) == {e \in T : e.dir = i}

LEMMA CountsAreNumbers ==
  ASSUME NEW T, IsFiniteSet(T), NEW i
  PROVE  /\ IsFiniteSet(NamesOf(T, i)) /\ Cardinality(NamesOf(T, i)) \in Nat
         /\ IsFiniteSet(Below(T, i)) /\ Cardinality(Below(T, i)) \in Nat
<1>1. NamesOf(T, i) \in SUBSET T /\ Below(T, i) \in SUBSET T
  BY DEF NamesOf, Below
<1>2. IsFiniteSet(NamesOf(T, i)) /\ IsFiniteSet(Below(T, i))
  BY <1>1, FS_Subset
<1> QED
  BY <1>2, FS_CardinalityType

LEMMA OneMoreName ==
  ASSUME NEW T, IsFiniteSet(T), NEW x, x \notin T, NEW i
  PROVE  /\ Cardinality(NamesOf(T \cup {x}, i)) = Cardinality(NamesOf(T, i)) + (IF x.node = i THEN 1 ELSE 0)
         /\ Cardinality(Below(T \cup {x}, i)) = Cardinality(Below(T, i)) + (IF x.dir = i THEN 1 ELSE 0)
<1>1. /\ IsFiniteSet(NamesOf(T, i)) /\ Cardinality(NamesOf(T, i)) \in Nat
      /\ IsFiniteSet(Below(T, i)) /\ Cardinality(Below(T, i)) \in Nat
  BY CountsAreNumbers
<1>2. x \notin NamesOf(T, i) /\ x \notin Below(T, i)
  BY DEF NamesOf, Below
<1>3. /\ Cardinality(NamesOf(T, i) \cup {x}) = Cardinality(NamesOf(T, i)) + 1
      /\ Cardinality(Below(T, i) \cup {x}) = Cardinality(Below(T, i)) + 1
  BY <1>1, <1>2, FS_AddElement
<1>4. /\ NamesOf(T \cup {x}, i) = IF x.node = i THEN NamesOf(T, i) \cup {x} ELSE NamesOf(T, i)
      /\ Below(T \cup {x}, i) = IF x.dir = i THEN Below(T, i) \cup {x} ELSE Below(T, i)
  BY DEF NamesOf, Below
<1> QED
  BY <1>1, <1>3, <1>4

LEMMA OneLessName ==
  ASSUME NEW T, IsFiniteSet(T), NEW x \in T, NEW i
  PROVE  /\ Cardinality(NamesOf(T \ {x}, i)) = Cardinality(NamesOf(T, i)) - (IF x.node = i THEN 1 ELSE 0)
         /\ Cardinality(Below(T \ {x}, i)) = Cardinality(Below(T, i)) - (IF x.dir = i THEN 1 ELSE 0)
<1> DEFINE S == T \ {x}
<1>1. IsFiniteSet(S) /\ x \notin S /\ S \cup {x} = T
  BY FS_RemoveElement
<1> HIDE DEF S
<1>2. /\ Cardinality(NamesOf(T, i)) = Cardinality(NamesOf(S, i)) + (IF x.node = i THEN 1 ELSE 0)
      /\ Cardinality(Below(T, i)) = Cardinality(Below(S, i)) + (IF x.dir = i THEN 1 ELSE 0)
  BY <1>1, OneMoreName
<1>3. Cardinality(NamesOf(S, i)) \in Nat /\ Cardinality(Below(S, i)) \in Nat
  BY <1>1, CountsAreNumbers
<1> QED
  BY <1>2, <1>3 DEF S

(* A directory that keeps its block, and whose block keeps its entries. *)
Kept(d) ==
  /\ table'[d].link = table[d].link /\ table'[d].size = table[d].size
  /\ Page(d)' = Page(d)

LEMMA KeptShape == ASSUME NEW d, DirShape(d), Kept(d) PROVE DirShape(d)'
<1>1. /\ table'[d].link = table[d].link /\ table'[d].size = table[d].size
      /\ Page(d)' = Page(d)
  BY DEF Kept
<1>2. Block(d)' = Block(d)
  BY <1>1 DEF Block
<1> QED
  BY <1>1, <1>2 DEF DirShape

(* An entry at the end of directory f, and perhaps a new directory, which is empty. *)
LEMMA AddedTree ==
  ASSUME Typed, Paged, NEW f \in Dirs, NEW n \in Names, NEW i \in Inodes, NEW type \in {"NF", "DR"},
         \A e \in Tree : ~(e.dir = f /\ e.name = n),
         i # f, Dirs \subseteq Dirs', Dirs' \subseteq Dirs \cup {i},
         table'[f].link = table[f].link, table'[f].size = table[f].size + 1,
         Page(f)' = Append(Page(f), Ent(i, n, type)),
         \A d \in Dirs \ {f} : Kept(d),
         i \in Dirs' \ Dirs => DirShape(i)' /\ Len(Page(i)') = 2
  PROVE  /\ Paged'
         /\ Tree' = Tree \cup {Edge(f, n, i)} /\ Edge(f, n, i) \notin Tree
<1> DEFINE P == Page(f)
           Q == Page(f)'
           new == Ent(i, n, type)
<1>1. /\ DirShape(f) /\ P \in Seq(Entry) /\ Len(P) \in Nat /\ Len(P) >= 2 /\ Len(P) = table[f].size
      /\ new \in Entry /\ new.name = n /\ new.inode = i /\ Live(new)
  BY LenProperties DEF Paged, DirShape, Ent, Entry, Live
<1>2. Q = Append(P, new)
  OBVIOUS
<1> HIDE DEF P, Q, new
<1>3. /\ Q \in Seq(Entry) /\ Len(Q) = Len(P) + 1 /\ Q[Len(P) + 1] = new
      /\ \A k \in 1 .. Len(P) : Q[k] = P[k]
  BY <1>1, <1>2, AppendProperties
<1>31. /\ Len(P) + 1 \in 3 .. Len(Q)
       /\ \A k \in 3 .. Len(Q) : k # Len(P) + 1 => k \in 3 .. Len(P) /\ Q[k] = P[k]
       /\ \A k \in 3 .. Len(P) : k \in 3 .. Len(Q) /\ Q[k] = P[k]
  <2> DEFINE m == Len(P)
  <2>1. m \in Nat /\ m >= 2 /\ Len(Q) = m + 1 /\ \A k \in 1 .. m : Q[k] = P[k]
    BY <1>1, <1>3
  <2> HIDE DEF m
  <2>2. \A k \in 3 .. m : k \in 1 .. m /\ k \in 3 .. m + 1
    BY <2>1
  <2>3. m + 1 \in 3 .. m + 1 /\ \A k \in 3 .. m + 1 : k # m + 1 => k \in 3 .. m
    BY <2>1
  <2> QED
    BY <2>1, <2>2, <2>3 DEF m
<1>4. ASSUME NEW k \in 3 .. Len(P), Live(P[k])
      PROVE  P[k].name # n
  <2>1. Edge(f, P[k].name, P[k].inode) \in Tree
    BY <1>4, TreeIs DEF P
  <2> QED
    BY <2>1 DEF Edge
<1>5. ASSUME NEW k \in 3 .. Len(Q), NEW l \in 3 .. Len(Q), k # l, Live(Q[k]), Live(Q[l])
      PROVE  Q[k].name # Q[l].name
  <2>1. CASE k = Len(P) + 1
    <3>1. l \in 3 .. Len(P) /\ Q[l] = P[l] /\ Q[k] = new
      BY <1>1, <1>3, <1>5, <2>1
    <3> QED
      BY <1>1, <1>4, <1>5, <3>1
  <2>2. CASE l = Len(P) + 1
    <3>1. k \in 3 .. Len(P) /\ Q[k] = P[k] /\ Q[l] = new
      BY <1>1, <1>3, <1>5, <2>2
    <3> QED
      BY <1>1, <1>4, <1>5, <3>1
  <2>3. CASE k # Len(P) + 1 /\ l # Len(P) + 1
    <3>1. k \in 3 .. Len(P) /\ l \in 3 .. Len(P) /\ Q[k] = P[k] /\ Q[l] = P[l]
      BY <1>31, <2>3
    <3>2. \A a, b \in 3 .. Len(P) :
            a # b /\ Live(P[a]) /\ Live(P[b]) => P[a].name # P[b].name
      BY <1>1 DEF DirShape, P
    <3> QED
      BY <1>5, <3>1, <3>2
  <2> QED
    BY <2>1, <2>2, <2>3
<1>6. ASSUME NEW k \in 3 .. Len(Q)
      PROVE  Q[k].name \in Names
  <2>1. k = Len(P) + 1 \/ k \in 3 .. Len(P)
    BY <1>1, <1>3
  <2>2. k \in 3 .. Len(P) => Q[k] = P[k] /\ P[k].name \in Names
    BY <1>1, <1>3 DEF DirShape, P
  <2> QED
    BY <1>1, <1>3, <2>1, <2>2
<1>7. DirShape(f)'
  <2>1. Q[1] = P[1] /\ Q[2] = P[2]
    BY <1>1, <1>3
  <2>2. Len(Q) = table'[f].size /\ Len(Q) >= 2
    BY <1>1, <1>3
  <2>3. /\ Len(table'[f].link) = 1 /\ Block(f)' \in Blocks
        /\ Q[1] = Ent(f, ".", "DR") /\ Q[2].name = ".." /\ Live(Q[2])
    BY <1>1, <2>1 DEF DirShape, Block, P
  <2> QED
    BY <1>3, <1>5, <1>6, <2>2, <2>3 DEF DirShape, Q
<1>8. Paged'
  <2> SUFFICES ASSUME NEW d \in Dirs' PROVE DirShape(d)'
    BY DEF Paged
  <2>1. CASE d = f
    BY <1>7, <2>1
  <2>2. CASE d \in Dirs \ {f}
    BY <2>2, KeptShape DEF Paged
  <2> QED
    BY <2>1, <2>2
<1>9. \A e : e \in Tree <=>
        \E d \in Dirs : \E k \in 3 .. Len(Page(d)) :
          Live(Page(d)[k]) /\ e = Edge(d, Page(d)[k].name, Page(d)[k].inode)
  BY TreeIs
<1>10. Made'
  BY <1>8, TreeMade, PTL
<1>11. \A e : e \in Tree' <=>
        \E d \in Dirs' : \E k \in 3 .. Len(Page(d)') :
          Live(Page(d)'[k]) /\ e = Edge(d, Page(d)'[k].name, Page(d)'[k].inode)
  BY <1>10 DEF Made
<1>12. ASSUME NEW e, e \in Tree' PROVE e \in Tree \cup {Edge(f, n, i)}
  <2> PICK d \in Dirs' : \E k \in 3 .. Len(Page(d)') :
        Live(Page(d)'[k]) /\ e = Edge(d, Page(d)'[k].name, Page(d)'[k].inode)
    BY <1>11, <1>12
  <2>1. PICK k \in 3 .. Len(Page(d)') :
          Live(Page(d)'[k]) /\ e = Edge(d, Page(d)'[k].name, Page(d)'[k].inode)
    OBVIOUS
  <2>2. CASE d = f
    <3>1. k \in 3 .. Len(Q) /\ Live(Q[k]) /\ e = Edge(f, Q[k].name, Q[k].inode)
      BY <2>1, <2>2 DEF Q
    <3>2. CASE k = Len(P) + 1
      BY <1>1, <1>3, <3>1, <3>2
    <3>3. CASE k # Len(P) + 1
      <4>1. k \in 3 .. Len(P) /\ Q[k] = P[k]
        BY <1>31, <3>1, <3>3
      <4>2. e \in Tree
        BY <1>9, <3>1, <4>1 DEF P
      <4> QED
        BY <4>2
    <3> QED
      BY <3>2, <3>3
  <2>3. CASE d \in Dirs \ {f}
    <3>1. Page(d)' = Page(d)
      BY <2>3 DEF Kept
    <3> QED
      BY <1>9, <2>1, <2>3, <3>1
  <2>4. CASE d = i /\ d \notin Dirs
    <3>1. Len(Page(d)') = 2
      BY <2>1, <2>4
    <3> QED
      BY <2>1, <3>1
  <2> QED
    BY <2>2, <2>3, <2>4
<1>13. ASSUME NEW e \in Tree PROVE e \in Tree'
  <2> PICK d \in Dirs : \E k \in 3 .. Len(Page(d)) :
        Live(Page(d)[k]) /\ e = Edge(d, Page(d)[k].name, Page(d)[k].inode)
    BY <1>9
  <2>1. PICK k \in 3 .. Len(Page(d)) :
          Live(Page(d)[k]) /\ e = Edge(d, Page(d)[k].name, Page(d)[k].inode)
    OBVIOUS
  <2>2. CASE d = f
    <3>1. k \in 3 .. Len(Q) /\ Q[k] = P[k]
      BY <1>31, <2>1, <2>2 DEF P
    <3> QED
      BY <1>11, <2>1, <2>2, <3>1 DEF P, Q
  <2>3. CASE d \in Dirs \ {f}
    <3>1. Page(d)' = Page(d)
      BY <2>3 DEF Kept
    <3> QED
      BY <1>11, <2>1, <3>1
  <2> QED
    BY <2>2, <2>3
<1>14. Edge(f, n, i) \in Tree'
  <2>1. Len(P) + 1 \in 3 .. Len(Q) /\ Live(Q[Len(P) + 1])
        /\ Edge(f, n, i) = Edge(f, Q[Len(P) + 1].name, Q[Len(P) + 1].inode)
    BY <1>1, <1>3, <1>31
  <2> QED
    BY <1>11, <2>1 DEF Q
<1>15. Edge(f, n, i) \notin Tree
  BY DEF Edge
<1>16. Tree' = Tree \cup {Edge(f, n, i)}
  BY <1>12, <1>13, <1>14
<1> QED
  BY <1>8, <1>15, <1>16

(* The dots of a directory are not the entry of something in it. *)
LEMMA DotsElsewhere ==
  Typed /\ Paged /\ Shaped =>
    \A x \in Tree : x.node # x.dir /\ Page(x.dir)[2].inode # x.node
<1> SUFFICES ASSUME Typed, Paged, Shaped, NEW x \in Tree
             PROVE  x.node # x.dir /\ Page(x.dir)[2].inode # x.node
  OBVIOUS
<1>1. x.dir \in Dirs /\ x.node # 0
  BY EdgesApart DEF Shaped
<1>2. CASE x.dir = 0
  BY <1>1, <1>2 DEF Shaped
<1>3. CASE x.dir # 0
  <2>1. PICK g \in Tree : g.dir = 0 /\ g.node = x.dir
    BY <1>3 DEF Shaped
  <2>2. Page(x.dir)[2].inode = 0 /\ \A f \in Tree : f.node = x.dir => f = g
    BY <1>1, <2>1 DEF Shaped, Dirs
  <2> QED
    BY <1>1, <1>3, <2>1, <2>2
<1> QED
  BY <1>2, <1>3

(* ext2_dir_remove marks one live entry of the inode of x in the directory of x. *)
LEMMA RemovedEntry ==
  ASSUME Typed, Paged, Shaped, NEW x \in Tree
  PROVE  \E k \in 3 .. Len(Page(x.dir)) :
           /\ Live(Page(x.dir)[k]) /\ Page(x.dir)[k].inode = x.node
           /\ Removed(table[x.dir], x.node) = [Page(x.dir) EXCEPT ![k].type = "XX"]
<1> DEFINE d == x.dir
           P == Page(d)
           K == {l \in DOMAIN P : P[l].inode = x.node /\ Live(P[l])}
           m == Min(K)
<1>1. PICK k \in 3 .. Len(P) : Live(P[k]) /\ x = Edge(d, P[k].name, P[k].inode)
  BY TreeIs DEF Edge
<1>2. d \in Dirs
  BY EdgesApart
<1>3. DirShape(d) /\ Entries(table[d]) = P
  BY <1>2, EntriesPage DEF Paged
<1>4. P \in Seq(Entry) /\ Len(P) \in Nat /\ DOMAIN P = 1 .. Len(P)
  BY <1>3, LenProperties DEF DirShape
<1>5. k \in K
  BY <1>1, <1>4 DEF Edge
<1>6. P[1].inode # x.node /\ P[2].inode # x.node
  <2>1. P[1].inode = d
    BY <1>3 DEF DirShape, Ent
  <2> QED
    BY <2>1, DotsElsewhere
<1>7. K \subseteq Nat /\ K \subseteq 3 .. Len(P)
  <2>1. \A l \in K : l \in 1 .. Len(P) /\ l # 1 /\ l # 2
    BY <1>4, <1>6
  <2> QED
    BY <1>4, <2>1
<1>8. m \in K /\ \A l \in K : m <= l
  BY <1>5, <1>7, MinIsIn
<1>9. m \in 3 .. Len(P) /\ Live(P[m]) /\ P[m].inode = x.node /\ m \in DOMAIN P
  BY <1>7, <1>8
<1>10. Removed(table[d], x.node) = Crossed(P, K)
  BY <1>3 DEF Removed
<1> HIDE DEF P, K, m
<1>11. \A l \in DOMAIN P : (l \in K /\ \A j \in K : l <= j) <=> l = m
  BY <1>7, <1>8
<1>12. Crossed(P, K) = [P EXCEPT ![m].type = "XX"]
  <2>1. Crossed(P, K) = [l \in DOMAIN P |-> IF l = m THEN [P[l] EXCEPT !.type = "XX"] ELSE P[l]]
    BY <1>11 DEF Crossed
  <2>2. P = [l \in DOMAIN P |-> P[l]]
    BY <1>4
  <2>3. [P EXCEPT ![m].type = "XX"] =
          [l \in DOMAIN P |-> IF l = m THEN [P[l] EXCEPT !.type = "XX"] ELSE P[l]]
    BY <1>9, <2>2
  <2> QED
    BY <2>1, <2>3
<1> QED
  BY <1>9, <1>10, <1>12 DEF P

(* An entry less, and perhaps a directory less, in which there is none. *)
LEMMA RemovedTree ==
  ASSUME Typed, Paged, Shaped, NEW x \in Tree,
         Dirs' \subseteq Dirs, Dirs \subseteq Dirs' \cup {x.node},
         x.node \notin Dirs' => Below(Tree, x.node) = {},
         table'[x.dir].link = table[x.dir].link, table'[x.dir].size = table[x.dir].size,
         NEW k \in 3 .. Len(Page(x.dir)), Live(Page(x.dir)[k]),
         x = Edge(x.dir, Page(x.dir)[k].name, Page(x.dir)[k].inode),
         Page(x.dir)' = [Page(x.dir) EXCEPT ![k].type = "XX"],
         \A d \in Dirs' \ {x.dir} : Kept(d)
  PROVE  Paged' /\ Tree' = Tree \ {x}
<1> DEFINE f == x.dir
           P == Page(f)
           Q == Page(f)'
<1>1. /\ f \in Dirs /\ f \in Dirs' /\ f # x.node
      /\ DirShape(f) /\ P \in Seq(Entry) /\ Len(P) \in Nat /\ Len(P) >= 2 /\ Len(P) = table[f].size
  <2>1. f \in Dirs /\ f # x.node
    BY EdgesApart, DotsElsewhere
  <2> QED
    BY <2>1, LenProperties DEF Paged, DirShape
<1>2. /\ k \in 3 .. Len(P) /\ Live(P[k]) /\ x = Edge(f, P[k].name, P[k].inode)
      /\ Q = [P EXCEPT ![k].type = "XX"]
  OBVIOUS
<1> HIDE DEF P, Q
<1>3. /\ Q \in Seq(Entry) /\ Len(Q) = Len(P) /\ ~Live(Q[k])
      /\ \A l \in 1 .. Len(P) : Q[l].name = P[l].name /\ Q[l].inode = P[l].inode
      /\ \A l \in 1 .. Len(P) : l # k => Q[l] = P[l]
  <2> DEFINE e == [P[k] EXCEPT !.type = "XX"]
  <2>1. k \in 1 .. Len(P) /\ P[k] \in Entry
    BY <1>1, <1>2
  <2>2. e \in Entry /\ e.name = P[k].name /\ e.inode = P[k].inode /\ ~Live(e)
    BY <2>1 DEF Entry, Live
  <2>3. Q = [P EXCEPT ![k] = e]
    BY <1>2
  <2> HIDE DEF e
  <2>4. Q \in Seq(Entry) /\ Len(Q) = Len(P) /\ \A l \in 1 .. Len(P) : Q[l] = IF l = k THEN e ELSE P[l]
    BY <1>1, <2>1, <2>2, <2>3, ExceptSeq
  <2> QED
    BY <2>1, <2>2, <2>4
<1>4. DirShape(f)'
  <2>1. Q[1] = P[1] /\ Q[2] = P[2]
    <3>1. 1 \in 1 .. Len(P) /\ 2 \in 1 .. Len(P) /\ 1 # k /\ 2 # k
      BY <1>1, <1>2
    <3> QED
      BY <1>3, <3>1
  <2>2. /\ Len(table'[f].link) = 1 /\ Block(f)' \in Blocks
        /\ Q[1] = Ent(f, ".", "DR") /\ Q[2].name = ".." /\ Live(Q[2])
        /\ Len(Q) = table'[f].size /\ Len(Q) >= 2
    BY <1>1, <1>3, <2>1 DEF DirShape, Block, P
  <2>3. \A l \in 3 .. Len(Q) : l \in 3 .. Len(P) /\ l \in 1 .. Len(P)
    BY <1>1, <1>3
  <2>4. \A l \in 3 .. Len(P) : P[l].name \in Names
    BY <1>1 DEF DirShape, P
  <2>5. \A l \in 3 .. Len(Q) : Q[l].name \in Names
    BY <1>3, <2>3, <2>4
  <2>6. \A l, m \in 3 .. Len(P) :
          l # m /\ Live(P[l]) /\ Live(P[m]) => P[l].name # P[m].name
    BY <1>1 DEF DirShape, P
  <2>7. \A l, m \in 3 .. Len(Q) :
          l # m /\ Live(Q[l]) /\ Live(Q[m]) => Q[l].name # Q[m].name
    BY <1>3, <2>3, <2>6
  <2> QED
    BY <1>3, <2>2, <2>5, <2>7 DEF DirShape, Q
<1>5. Paged'
  <2> SUFFICES ASSUME NEW d \in Dirs' PROVE DirShape(d)'
    BY DEF Paged
  <2>1. CASE d = f
    BY <1>4, <2>1
  <2>2. CASE d # f
    BY <2>2, KeptShape DEF Paged
  <2> QED
    BY <2>1, <2>2
<1>6. \A e : e \in Tree <=>
        \E d \in Dirs : \E l \in 3 .. Len(Page(d)) :
          Live(Page(d)[l]) /\ e = Edge(d, Page(d)[l].name, Page(d)[l].inode)
  BY TreeIs
<1>7. Made'
  BY <1>5, TreeMade, PTL
<1>8. \A e : e \in Tree' <=>
        \E d \in Dirs' : \E l \in 3 .. Len(Page(d)') :
          Live(Page(d)'[l]) /\ e = Edge(d, Page(d)'[l].name, Page(d)'[l].inode)
  BY <1>7 DEF Made
<1>9. ASSUME NEW e, e \in Tree' PROVE e \in Tree \ {x}
  <2> PICK d \in Dirs' : \E l \in 3 .. Len(Page(d)') :
        Live(Page(d)'[l]) /\ e = Edge(d, Page(d)'[l].name, Page(d)'[l].inode)
    BY <1>8, <1>9
  <2>1. PICK l \in 3 .. Len(Page(d)') :
          Live(Page(d)'[l]) /\ e = Edge(d, Page(d)'[l].name, Page(d)'[l].inode)
    OBVIOUS
  <2>2. CASE d = f
    <3>1. l \in 3 .. Len(Q) /\ Live(Q[l]) /\ e = Edge(f, Q[l].name, Q[l].inode)
      BY <2>1, <2>2 DEF Q
    <3>2. l \in 3 .. Len(P) /\ l # k /\ Q[l] = P[l]
      BY <1>1, <1>3, <3>1
    <3>3. e \in Tree
      BY <1>1, <1>6, <3>1, <3>2 DEF P
    <3>4. P[l].name # P[k].name
      BY <1>1, <1>2, <3>1, <3>2 DEF DirShape, P
    <3>5. e # x
      BY <1>2, <3>1, <3>2, <3>4 DEF Edge
    <3> QED
      BY <3>3, <3>5
  <2>3. CASE d # f
    <3>1. Page(d)' = Page(d) /\ d \in Dirs
      BY <2>3 DEF Kept
    <3>2. e \in Tree
      BY <1>6, <2>1, <3>1
    <3>3. e.dir = d
      BY <2>1 DEF Edge
    <3> QED
      BY <2>3, <3>2, <3>3
  <2> QED
    BY <2>2, <2>3
<1>10. ASSUME NEW e \in Tree, e # x PROVE e \in Tree'
  <2> PICK d \in Dirs : \E l \in 3 .. Len(Page(d)) :
        Live(Page(d)[l]) /\ e = Edge(d, Page(d)[l].name, Page(d)[l].inode)
    BY <1>6
  <2>1. PICK l \in 3 .. Len(Page(d)) :
          Live(Page(d)[l]) /\ e = Edge(d, Page(d)[l].name, Page(d)[l].inode)
    OBVIOUS
  <2>2. CASE d = f
    <3>1. l \in 3 .. Len(P) /\ l # k
      BY <1>2, <1>10, <2>1, <2>2 DEF P
    <3>2. l \in 3 .. Len(Q) /\ Q[l] = P[l]
      BY <1>1, <1>3, <3>1
    <3> QED
      BY <1>1, <1>8, <2>1, <2>2, <3>2 DEF P, Q
  <2>3. CASE d # f
    <3>1. e.dir = d
      BY <2>1 DEF Edge
    <3>2. d \in Dirs'
      BY <3>1 DEF Below
    <3>3. Page(d)' = Page(d)
      BY <2>3, <3>2 DEF Kept
    <3> QED
      BY <1>8, <2>1, <3>2, <3>3
  <2> QED
    BY <2>2, <2>3
<1> QED
  BY <1>5, <1>9, <1>10

(* Calls that leave every directory as it is. *)
LEMMA SameTree ==
  ASSUME Paged, Dirs' = Dirs, \A d \in Dirs : Kept(d)
  PROVE  Paged' /\ Tree' = Tree
<1>1. Paged'
  BY KeptShape DEF Paged
<1>2. Made'
  BY <1>1, TreeMade, PTL
<1>3. Made
  BY TreeMade
<1>4. \A d \in Dirs : Page(d)' = Page(d)
  BY DEF Kept
<1>5. \A e : e \in Tree' <=> e \in Tree
  BY <1>2, <1>3, <1>4 DEF Made
<1> QED
  BY <1>1, <1>5

LEMMA NodesUsed ==
  Typed /\ Paged /\ MapsExact =>
    \A e \in Tree : e.node \in imap /\ e.dir \in imap /\ table[e.dir].type = "DR"
<1> SUFFICES ASSUME Typed, Paged, MapsExact, NEW e \in Tree
             PROVE  e.node \in imap /\ e.dir \in imap /\ table[e.dir].type = "DR"
  OBVIOUS
<1>1. e.dir \in Dirs
  BY EdgesApart
<1> QED
  BY <1>1 DEF Dirs, MapsExact

LinksAre(T, j) ==
  /\ table[j].link_num = IF j = 0 THEN 1 ELSE Cardinality(NamesOf(T, j))
  /\ table[j].type = "DR" => table[j].dir_len = 2 + Cardinality(Below(T, j))

AllLinks == \A j \in imap : LinksAre(Tree, j)

LEMMA LinksMean == LinksCounted <=> AllLinks
  BY DEF LinksCounted, AllLinks, LinksAre, NamesOf, Below

(* A name n of inode i in directory f, which is the root or one below it: a new inode,
   or a file that has another name. *)
LEMMA AddedName ==
  ASSUME Typed, Paged, Shaped, Named, MapsExact, LinksCounted,
         NEW f \in Dirs, NEW n \in Names, NEW i \in Inodes, i # 0, i # f,
         Edge(f, n, i) \notin Tree, Tree' = Tree \cup {Edge(f, n, i)},
         f = 0 \/ \E g \in Tree : g.dir = 0 /\ g.node = f,
         imap' = imap \cup {i},
         \A j \in imap \ {f, i} : table'[j] = table[j],
         table'[f] = Appended(table[f]),
         table'[i].index = i, table'[i].link_num = Cardinality(NamesOf(Tree, i)) + 1,
         i \in imap => table'[i].type # "DR" /\ table[i].type # "DR",
         table'[i].type = "DR" => table'[i].dir_len = 2 /\ Page(i)'[2].inode = f,
         \A d \in Dirs : Page(d)'[2].inode = Page(d)[2].inode
  PROVE  /\ Shaped' /\ Named' /\ LinksCounted'
         /\ imap' = {0} \cup {e.node : e \in Tree'}
<1> DEFINE x == Edge(f, n, i)
<1>1. /\ x.dir = f /\ x.name = n /\ x.node = i
      /\ f \in imap /\ table[f].type = "DR" /\ 0 \in imap
      /\ IsFiniteSet(Tree)
  BY DEF Edge, Dirs, Typed, Shaped
<1> HIDE DEF x
<1>2. /\ table'[f].type = "DR" /\ table'[f].index = f
      /\ table'[f].link_num = table[f].link_num /\ table'[f].dir_len = table[f].dir_len + 1
  <2>1. table[f] \in Inode /\ table[f].index = f
    BY <1>1 DEF Typed, Named
  <2> QED
    BY <1>1, <2>1 DEF Appended, Inode
<1>3. \A j \in imap \ {i} : table'[j].type = table[j].type /\ table'[j].index = j
  BY <1>1, <1>2 DEF Named
<1>4. Named'
  BY <1>3 DEF Named
<1>5. \A e \in Tree : e.node \in imap /\ e.dir \in imap /\ table[e.dir].type = "DR"
  BY NodesUsed
<1>6. Tree' = Tree \cup {x} /\ x \notin Tree
  BY DEF x
<1>7. Shaped'
  <2>1. IsFiniteSet(Tree')
    BY <1>1, <1>6, FS_AddElement
  <2>2. table'[0].type = "DR" /\ Page(0)'[2].inode = 0
    BY <1>1, <1>3 DEF Shaped, Dirs
  <2>3. \A e \in Tree' : e.node # 0
    BY <1>1, <1>6 DEF Shaped
  <2>4. \A e \in Tree' : e.dir = 0 \/ \E g \in Tree' : g.dir = 0 /\ g.node = e.dir
    BY <1>1, <1>6 DEF Shaped
  <2>5. ASSUME NEW e \in Tree', table'[e.node].type = "DR"
        PROVE  Page(e.node)'[2].inode = e.dir /\ \A g \in Tree' : g.node = e.node => g = e
    <3>1. CASE e.node = i
      <4>1. i \notin imap
        BY <2>5, <3>1
      <4>2. \A g \in Tree' : g.node = i => g = x
        BY <1>5, <1>6, <4>1
      <4> QED
        BY <1>1, <2>5, <3>1, <4>2
    <3>2. CASE e.node # i
      <4>1. e \in Tree /\ e.node \in imap
        BY <1>1, <1>5, <1>6, <3>2
      <4>2. table[e.node].type = "DR" /\ e.node \in Dirs
        BY <1>3, <2>5, <3>2, <4>1 DEF Dirs
      <4>3. Page(e.node)[2].inode = e.dir /\ \A g \in Tree : g.node = e.node => g = e
        BY <4>1, <4>2 DEF Shaped
      <4> QED
        BY <1>1, <1>6, <3>2, <4>2, <4>3
    <3> QED
      BY <3>1, <3>2
  <2> QED
    BY <2>1, <2>2, <2>3, <2>4, <2>5 DEF Shaped
<1>8. LinksCounted'
  <2>1. ASSUME NEW j \in imap'
        PROVE  LinksAre(Tree, j)'
    <3> DEFINE names == Cardinality(NamesOf(Tree, j))
               below == Cardinality(Below(Tree, j))
    <3>1. names \in Nat /\ below \in Nat
      BY <1>1, CountsAreNumbers
    <3>2. /\ Cardinality(NamesOf(Tree', j)) = names + (IF i = j THEN 1 ELSE 0)
          /\ Cardinality(Below(Tree', j)) = below + (IF f = j THEN 1 ELSE 0)
      BY <1>1, <1>6, OneMoreName
    <3>3. j \in imap => LinksAre(Tree, j)
      BY LinksMean DEF AllLinks
    <3>4. CASE j = i
      <4>1. below = 0 \/ table'[i].type # "DR"
        <5>1. CASE i \notin imap
          <6>1. Below(Tree, j) = {}
            BY <1>5, <3>4, <5>1 DEF Below
          <6> QED
            BY <6>1, FS_EmptySet
        <5> QED
          BY <5>1
      <4>2. /\ table'[j].link_num = names + 1
            /\ table'[j].type = "DR" => table'[j].dir_len = 2 + below
        BY <3>4, <4>1
      <4> HIDE DEF names, below
      <4> QED
        BY <3>1, <3>2, <3>4, <4>2 DEF LinksAre
    <3>5. CASE j = f
      <4>1. /\ table[f].link_num = IF f = 0 THEN 1 ELSE names
            /\ table[f].dir_len = 2 + below
        BY <1>1, <3>3, <3>5 DEF LinksAre
      <4> HIDE DEF names, below
      <4> QED
        BY <1>2, <3>1, <3>2, <3>5, <4>1 DEF LinksAre
    <3>6. CASE j # i /\ j # f
      <4>1. table'[j] = table[j] /\ LinksAre(Tree, j)
        BY <3>3, <3>6
      <4>2. /\ table[j].link_num = IF j = 0 THEN 1 ELSE names
            /\ table[j].type = "DR" => table[j].dir_len = 2 + below
        BY <4>1 DEF LinksAre
      <4> HIDE DEF names, below
      <4> QED
        BY <3>1, <3>2, <3>6, <4>1, <4>2 DEF LinksAre
    <3> QED
      BY <3>4, <3>5, <3>6
  <2>2. AllLinks'
    BY <2>1 DEF AllLinks
  <2> QED
    BY <2>2, LinksMean, PTL
<1>9. imap' = {0} \cup {e.node : e \in Tree'}
  BY <1>1, <1>6 DEF MapsExact
<1> QED
  BY <1>4, <1>7, <1>8, <1>9

(* A name x less, and the inode with its last name. *)
LEMMA LessName ==
  ASSUME Typed, Paged, Shaped, Named, MapsExact, LinksCounted,
         NEW x \in Tree, Tree' = Tree \ {x},
         table[x.node].type = "DR" => Below(Tree, x.node) = {},
         imap' = IF LastLink(table[x.node]) THEN imap \ {x.node} ELSE imap,
         \A j \in imap \ {x.dir, x.node} : table'[j] = table[j],
         table'[x.dir] = [table[x.dir] EXCEPT !.dir_len = @ - 1],
         x.node \in imap' => table'[x.node] = [table[x.node] EXCEPT !.link_num = @ - 1],
         \A d \in Dirs : d \in imap' => Page(d)'[2].inode = Page(d)[2].inode
  PROVE  /\ Shaped' /\ Named' /\ LinksCounted'
         /\ imap' = {0} \cup {e.node : e \in Tree'}
<1> DEFINE f == x.dir
           i == x.node
<1>1. /\ i # f /\ i # 0 /\ i \in imap /\ f \in imap /\ table[f].type = "DR"
      /\ 0 \in imap /\ IsFiniteSet(Tree)
      /\ imap' \subseteq imap /\ imap \subseteq imap' \cup {i} /\ 0 \in imap' /\ f \in imap'
  BY DotsElsewhere, NodesUsed DEF Typed, Shaped
<1>2. ASSUME NEW j \in imap'
      PROVE  /\ table'[j].type = table[j].type /\ table'[j].index = j
             /\ table'[j].link_num = table[j].link_num - (IF j = i THEN 1 ELSE 0)
             /\ table'[j].dir_len = table[j].dir_len - (IF j = f THEN 1 ELSE 0)
             /\ table[j].link_num \in Nat /\ table[j].dir_len \in Nat
  <2>1. j \in imap /\ table[j] \in Inode /\ table[j].index = j
    BY <1>1 DEF Typed, Named
  <2>2. CASE j = i
    BY <1>1, <2>1, <2>2 DEF Inode
  <2>3. CASE j = f
    BY <1>1, <2>1, <2>3 DEF Inode
  <2>4. CASE j # i /\ j # f
    BY <2>1, <2>4 DEF Inode
  <2> QED
    BY <2>2, <2>3, <2>4
<1>3. Named'
  BY <1>2 DEF Named
<1>4. \A e \in Tree : e.node \in imap /\ e.dir \in imap /\ table[e.dir].type = "DR"
  BY NodesUsed
<1>5. NamesOf(Tree', i) = {} <=> LastLink(table[i])
  <2>1. IsFiniteSet(Tree')
    BY <1>1, FS_RemoveElement
  <2>2. IsFiniteSet(NamesOf(Tree', i)) /\ Cardinality(NamesOf(Tree', i)) \in Nat
    BY <2>1, CountsAreNumbers
  <2>3. Cardinality(NamesOf(Tree', i)) = Cardinality(NamesOf(Tree, i)) - 1
    BY <1>1, OneLessName
  <2>4. table[i].link_num = Cardinality(NamesOf(Tree, i))
    BY <1>1, LinksMean DEF AllLinks, LinksAre
  <2>5. table[i].link_num \in Nat
    BY <1>1 DEF Typed, Inode
  <2>6. NamesOf(Tree', i) = {} <=> Cardinality(NamesOf(Tree', i)) = 0
    BY <2>2, FS_EmptySet
  <2>7. Cardinality(NamesOf(Tree', i)) = 0 <=> table[i].link_num = 1
    BY <2>2, <2>3, <2>4, <2>5
  <2> QED
    BY <2>6, <2>7 DEF LastLink
<1>6. imap' = {0} \cup {e.node : e \in Tree'}
  <2>1. imap = {0} \cup {e.node : e \in Tree}
    BY DEF MapsExact
  <2>2. CASE LastLink(table[i])
    <3>1. NamesOf(Tree', i) = {}
      BY <1>5, <2>2
    <3> QED
      BY <1>1, <2>1, <2>2, <3>1 DEF NamesOf
  <2>3. CASE ~LastLink(table[i])
    <3>1. PICK g \in Tree' : g.node = i
      <4>1. NamesOf(Tree', i) # {}
        BY <1>5, <2>3
      <4> QED
        BY <4>1 DEF NamesOf
    <3> QED
      BY <1>1, <2>1, <2>3, <3>1
  <2> QED
    BY <2>2, <2>3
<1>7. Shaped'
  <2>1. IsFiniteSet(Tree')
    BY <1>1, FS_RemoveElement
  <2>2. table'[0].type = "DR" /\ Page(0)'[2].inode = 0
    BY <1>1, <1>2 DEF Shaped, Dirs
  <2>3. \A e \in Tree' : e.node # 0
    BY DEF Shaped
  <2>4. ASSUME NEW e \in Tree', e.dir # 0
        PROVE  \E g \in Tree' : g.dir = 0 /\ g.node = e.dir
    <3>1. PICK g \in Tree : g.dir = 0 /\ g.node = e.dir
      BY <2>4 DEF Shaped
    <3>2. g # x
      BY <1>4, <3>1 DEF Below
    <3> QED
      BY <3>1, <3>2
  <2>5. ASSUME NEW e \in Tree', table'[e.node].type = "DR"
        PROVE  Page(e.node)'[2].inode = e.dir /\ \A g \in Tree' : g.node = e.node => g = e
    <3>1. e \in Tree /\ e.node \in imap' /\ e.node \in imap
      BY <1>1, <1>6
    <3>2. table[e.node].type = "DR" /\ e.node \in Dirs
      BY <1>2, <2>5, <3>1 DEF Dirs
    <3> QED
      BY <3>1, <3>2 DEF Shaped
  <2> QED
    BY <2>1, <2>2, <2>3, <2>4, <2>5 DEF Shaped
<1>8. LinksCounted'
  <2>1. ASSUME NEW j \in imap'
        PROVE  LinksAre(Tree, j)'
    <3> DEFINE names == Cardinality(NamesOf(Tree, j))
               below == Cardinality(Below(Tree, j))
    <3>1. names \in Nat /\ below \in Nat
      BY <1>1, CountsAreNumbers
    <3>2. /\ Cardinality(NamesOf(Tree', j)) = names - (IF i = j THEN 1 ELSE 0)
          /\ Cardinality(Below(Tree', j)) = below - (IF f = j THEN 1 ELSE 0)
      BY <1>1, OneLessName
    <3>3. /\ table[j].link_num = IF j = 0 THEN 1 ELSE names
          /\ table[j].type = "DR" => table[j].dir_len = 2 + below
      BY <1>1, LinksMean DEF AllLinks, LinksAre
    <3> HIDE DEF names, below
    <3> QED
      BY <1>1, <1>2, <3>1, <3>2, <3>3 DEF LinksAre
  <2>2. AllLinks'
    BY <2>1 DEF AllLinks
  <2> QED
    BY <2>2, LinksMean, PTL
<1> QED
  BY <1>3, <1>6, <1>7, <1>8

-----------------------------------------------------------------------------
(* Blocks *)

NodesExact == imap = {0} \cup {e.node : e \in Tree}

LEMMA MapsSplit == MapsExact <=> NodesExact /\ BlocksExact
  BY DEF MapsExact, NodesExact, BlocksExact

(* The block of a directory is in DMAP and no other inode's. *)
LEMMA DirBlocks ==
  ASSUME Typed, Paged, BlocksExact, NEW d \in Dirs
  PROVE  /\ Block(d) \in dmap /\ ToSet(table[d].link) = {Block(d)}
         /\ \A i \in imap \ {d} : Block(d) \notin ToSet(table[i].link)
         /\ \A f \in Dirs \ {d} : Block(f) # Block(d)
<1>1. d \in imap /\ imap \subseteq Inodes
  BY DEF Dirs, Typed
<1>2. \A f \in Dirs : f \in imap /\ ToSet(table[f].link) = {Block(f)}
  <2> SUFFICES ASSUME NEW f \in Dirs PROVE ToSet(table[f].link) = {Block(f)}
    BY DEF Dirs
  <2>1. table[f].link \in Seq(Blocks) /\ Len(table[f].link) = 1
    BY DEF Typed, Dirs, Paged, DirShape, Inode
  <2>2. DOMAIN table[f].link = {1}
    BY <2>1
  <2> QED
    BY <2>2 DEF ToSet, Block
<1>3. Block(d) \in dmap
  BY <1>1, <1>2 DEF BlocksExact
<1>4. \A i \in imap \ {d} : Block(d) \notin ToSet(table[i].link)
  BY <1>1, <1>2 DEF BlocksExact
<1> QED
  BY <1>2, <1>3, <1>4

(* New blocks N of inode i, which may be new. *)
LEMMA BlocksMore ==
  ASSUME BlocksExact, NEW i, NEW N, N \cap dmap = {}, dmap' = dmap \cup N,
         imap' = imap \cup {i}, \A j \in imap \ {i} : table'[j].link = table[j].link,
         ToSet(table'[i].link) = N \cup (IF i \in imap THEN ToSet(table[i].link) ELSE {})
  PROVE  BlocksExact'
<1>1. \A j \in imap : ToSet(table[j].link) \subseteq dmap
  BY DEF BlocksExact
<1>2. \A j \in imap \ {i} : ToSet(table'[j].link) = ToSet(table[j].link)
  OBVIOUS
<1>3. dmap' = UNION {ToSet(table'[j].link) : j \in imap'}
  <2>1. ASSUME NEW b \in dmap' PROVE \E j \in imap' : b \in ToSet(table'[j].link)
    <3>1. CASE b \in N
      BY <3>1
    <3>2. CASE b \in dmap
      <4>1. PICK j \in imap : b \in ToSet(table[j].link)
        BY <3>2 DEF BlocksExact
      <4>2. b \in ToSet(table'[j].link)
        BY <1>2, <4>1
      <4> QED
        BY <4>1, <4>2
    <3> QED
      BY <3>1, <3>2
  <2>2. ASSUME NEW j \in imap' PROVE ToSet(table'[j].link) \subseteq dmap'
    BY <1>1, <1>2
  <2> QED
    BY <2>1, <2>2
<1>4. ASSUME NEW j \in imap', NEW k \in imap', j # k
      PROVE  ToSet(table'[j].link) \cap ToSet(table'[k].link) = {}
  <2>1. CASE j # i /\ k # i
    BY <1>2, <1>4, <2>1 DEF BlocksExact
  <2>2. CASE j = i
    <3>1. k \in imap \ {i} /\ ToSet(table'[k].link) \subseteq dmap
      BY <1>1, <1>2, <1>4, <2>2
    <3>2. i \in imap => ToSet(table[i].link) \cap ToSet(table[k].link) = {}
      BY <3>1 DEF BlocksExact
    <3> QED
      BY <1>2, <2>2, <3>1, <3>2
  <2>3. CASE k = i
    <3>1. j \in imap \ {i} /\ ToSet(table'[j].link) \subseteq dmap
      BY <1>1, <1>2, <1>4, <2>3
    <3>2. i \in imap => ToSet(table[i].link) \cap ToSet(table[j].link) = {}
      BY <3>1 DEF BlocksExact
    <3> QED
      BY <1>2, <2>3, <3>1, <3>2
  <2> QED
    BY <2>1, <2>2, <2>3
<1> QED
  BY <1>3, <1>4 DEF BlocksExact

LEMMA BlocksSame ==
  ASSUME BlocksExact, dmap' = dmap, imap' = imap, \A j \in imap : table'[j].link = table[j].link
  PROVE  BlocksExact'
<1>1. \A j \in imap : ToSet(table'[j].link) = ToSet(table[j].link)
  OBVIOUS
<1>2. dmap' = UNION {ToSet(table'[j].link) : j \in imap'}
  BY <1>1 DEF BlocksExact
<1>3. \A j, k \in imap' : j # k => ToSet(table'[j].link) \cap ToSet(table'[k].link) = {}
  BY <1>1 DEF BlocksExact
<1> QED
  BY <1>2, <1>3 DEF BlocksExact

(* Inode i with all its blocks is gone. *)
LEMMA BlocksLess ==
  ASSUME BlocksExact, NEW i \in imap, dmap' = dmap \ ToSet(table[i].link), imap' = imap \ {i},
         \A j \in imap \ {i} : table'[j].link = table[j].link
  PROVE  BlocksExact'
<1>1. \A j \in imap' : ToSet(table'[j].link) = ToSet(table[j].link)
  OBVIOUS
<1>2. \A j \in imap' : ToSet(table[j].link) \cap ToSet(table[i].link) = {}
  BY DEF BlocksExact
<1>3. dmap' = UNION {ToSet(table'[j].link) : j \in imap'}
  BY <1>1, <1>2 DEF BlocksExact
<1>4. \A j, k \in imap' : j # k => ToSet(table'[j].link) \cap ToSet(table'[k].link) = {}
  BY <1>1 DEF BlocksExact
<1> QED
  BY <1>3, <1>4 DEF BlocksExact

-----------------------------------------------------------------------------
(* free_map *)

LEMMA FreeIsFree ==
  /\ Inodes \ imap # {} => FreeInode \in Inodes \ imap
  /\ Blocks \ dmap # {} => FreeBlock \in Blocks \ dmap
<1>1. Inodes \ imap \subseteq Nat /\ Blocks \ dmap \subseteq Nat
  BY DEF Inodes, Blocks
<1> QED
  BY <1>1, MinIsIn DEF FreeInode, FreeBlock

-----------------------------------------------------------------------------
(* Calls on a disk that satisfies DiskInv *)

(* A directory in which a name can be made: the root or one below it. *)
HasFather(f) == f \in Dirs /\ (f = 0 \/ \E g \in Tree : g.dir = 0 /\ g.node = f)
Unused(f, n) == \A e \in Tree : ~(e.dir = f /\ e.name = n)

LEMMA InodesMade ==
  /\ \A dir \in Inode :
       LET a == Appended(dir)
       IN  /\ a \in Inode /\ a.index = dir.index /\ a.type = dir.type
           /\ a.link = dir.link /\ a.size = dir.size + 1
  /\ \A i \in Inodes, type \in {"NF", "DR"}, link \in Seq(Blocks) :
       LET a == NewInode(i, type, link)
       IN  /\ a \in Inode /\ a.index = i /\ a.type = type /\ a.link = link /\ a.link_num = 1
           /\ a.size = 2 * Len(link) /\ a.dir_len = 2 * Len(link)
<1>1. ASSUME NEW dir \in Inode
      PROVE  LET a == Appended(dir)
             IN  /\ a \in Inode /\ a.index = dir.index /\ a.type = dir.type
                 /\ a.link = dir.link /\ a.size = dir.size + 1
  <2>1. dir.dir_len \in Nat /\ dir.size \in Nat
    BY DEF Inode
  <2>2. dir.dir_len + 1 \in Nat /\ dir.size + 1 \in Nat
    BY <2>1
  <2> QED
    BY <2>2 DEF Appended, Inode
<1>2. ASSUME NEW i \in Inodes, NEW type \in {"NF", "DR"}, NEW link \in Seq(Blocks)
      PROVE  LET a == NewInode(i, type, link)
             IN  /\ a \in Inode /\ a.index = i /\ a.type = type /\ a.link = link /\ a.link_num = 1
                 /\ a.size = 2 * Len(link) /\ a.dir_len = 2 * Len(link)
  <2>1. 2 * Len(link) \in Nat
    BY LenProperties
  <2> QED
    BY <2>1 DEF NewInode, Inode
<1> QED
  BY <1>1, <1>2

(* A file whose inode says the same of its text, and whose blocks keep it. *)
FileKept(j) ==
  /\ table'[j].size = table[j].size /\ table'[j].link = table[j].link
  /\ \A b \in ToSet(table[j].link) : data'[b] = data[b]

InodesKept(J) ==
  \A j \in J : table'[j].type = table[j].type /\ (table[j].type = "NF" => FileKept(j))

(* A new inode i of that type with the blocks link, under the name n in directory f. *)
Makes(f, n, i, type, link) ==
  /\ HasFather(f) /\ n \in Names /\ Unused(f, n)
  /\ i \in Inodes \ imap /\ type \in {"NF", "DR"}
  /\ link \in Seq(Blocks) /\ ToSet(link) \cap dmap = {}
  /\ imap' = imap \cup {i} /\ dmap' = dmap \cup ToSet(link)
  /\ table' = Put(Put(table, f, Appended(table[f])), i, NewInode(i, type, link))
  /\ data' = [b \in Blocks |-> data'[b]]
  /\ data'[Block(f)] = Append(Page(f), Ent(i, n, type))
  /\ \A b \in dmap \ {Block(f)} : data'[b] = data[b]
  /\ IF type = "DR" THEN Len(link) = 1 /\ data'[link[1]] = Dots(i, f) ELSE link = <<>>

LEMMA Created ==
  ASSUME DiskInv, NEW f, NEW n, NEW i, NEW type, NEW link, Makes(f, n, i, type, link)
  PROVE  DiskInv' /\ Tree' = Tree \cup {Edge(f, n, i)} /\ InodesKept(imap)
<1> USE DEF DiskInv, Makes
<1>1. f \in Dirs /\ f \in imap /\ f \in Inodes /\ f # i /\ i # 0 /\ table[f] \in Inode /\ table[f].index = f
      /\ table[f].type = "DR"
  BY DEF HasFather, Dirs, Typed, Named
<1>2. /\ NewInode(i, type, link) \in Inode /\ Appended(table[f]) \in Inode
      /\ i \in Inodes /\ type \in {"NF", "DR"} /\ link \in Seq(Blocks)
  BY <1>1, InodesMade
<1>3. /\ table' \in [Inodes -> Inode]
      /\ table'[f] = Appended(table[f]) /\ table'[i] = NewInode(i, type, link)
      /\ \A j \in Inodes \ {f, i} : table'[j] = table[j]
  <2>1. table \in [Inodes -> Inode]
    BY DEF Typed
  <2> HIDE DEF DiskInv
  <2> QED
    BY <1>1, <1>2, <2>1 DEF Put
<1>4. /\ table'[f].link = table[f].link /\ table'[f].size = table[f].size + 1
      /\ table'[f].type = "DR"
      /\ table'[i].type = type /\ table'[i].link = link /\ table'[i].index = i
      /\ table'[i].size = 2 * Len(link) /\ table'[i].dir_len = 2 * Len(link) /\ table'[i].link_num = 1
  BY <1>1, <1>2, <1>3, InodesMade
<1>5. Typed'
  <2>1. imap \subseteq Inodes /\ 0 \in imap /\ dmap \subseteq Blocks
    BY DEF Typed
  <2>2. ToSet(link) \subseteq Blocks
    BY DEF ToSet
  <2> HIDE DEF DiskInv
  <2> QED
    BY <1>3, <2>1, <2>2 DEF Typed
<1>6. Dirs' = IF type = "DR" THEN Dirs \cup {i} ELSE Dirs
  <2>1. \A j \in imap : j \in Dirs <=> table'[j].type = "DR"
    BY <1>1, <1>3, <1>4 DEF Dirs, Typed
  <2> HIDE DEF DiskInv
  <2> QED
    BY <1>4, <2>1 DEF Dirs
<1>7. BlocksExact /\ MapsExact
  BY MapsSplit
<1>8. \A d \in Dirs : Block(d) \in dmap /\ (d # f => Block(d) # Block(f))
  BY <1>1, <1>7, DirBlocks
<1>9. Page(f)' = Append(Page(f), Ent(i, n, type))
  <2> HIDE DEF DiskInv
  <2> QED
    BY <1>4 DEF Page, Block
<1>10. \A d \in Dirs \ {f} : Kept(d)
  <2>1. \A d \in Dirs \ {f} : table'[d] = table[d]
    BY <1>3 DEF Dirs, Typed
  <2> HIDE DEF DiskInv
  <2> QED
    BY <1>8, <2>1 DEF Kept, Page, Block
<1>11. ASSUME type = "DR"
       PROVE  /\ DirShape(i)' /\ Len(Page(i)') = 2 /\ Page(i)'[2].inode = f
              /\ table'[i].dir_len = 2
  <2>1. Page(i)' = Dots(i, f) /\ Block(i)' \in Blocks
    <3>1. /\ table'[i].link = link /\ Len(link) = 1 /\ link \in Seq(Blocks)
          /\ data'[link[1]] = Dots(i, f)
      BY <1>4, <1>11
    <3> HIDE DEF DiskInv
    <3>2. link[1] \in Blocks
      <4>1. Len(link) = 1 /\ link \in Seq(Blocks) /\ 1 \in 1 .. 1
        BY <3>1
      <4> QED
        BY <4>1, ElementOfSeq
    <3> QED
      BY <3>1, <3>2 DEF Page, Block
  <2>2. Dots(i, f) \in Seq(Entry) /\ Len(Dots(i, f)) = 2
    BY <1>1 DEF Dots, Ent, Entry
  <2>3. Dots(i, f)[1] = Ent(i, ".", "DR") /\ Dots(i, f)[2] = Ent(f, "..", "DR")
    BY DEF Dots
  <2>4. table'[i].size = 2 /\ table'[i].dir_len = 2 /\ Len(table'[i].link) = 1
    <3>1. Len(link) = 1
      BY <1>11
    <3>2. /\ table'[i].link = link /\ table'[i].size = 2 * Len(link)
          /\ table'[i].dir_len = 2 * Len(link)
      BY <1>4
    <3> HIDE DEF DiskInv
    <3> QED
      BY <3>1, <3>2
  <2>5. /\ Len(table'[i].link) = 1 /\ Block(i)' \in Blocks
        /\ Page(i)' \in Seq(Entry) /\ Len(Page(i)') = table'[i].size /\ Len(Page(i)') = 2
        /\ Page(i)'[1] = Ent(i, ".", "DR")
        /\ Page(i)'[2].name = ".." /\ Live(Page(i)'[2]) /\ Page(i)'[2].inode = f
    BY <2>1, <2>2, <2>3, <2>4 DEF Ent, Live
  <2> HIDE DEF DiskInv
  <2> QED
    BY <2>4, <2>5 DEF DirShape
<1>12. \A e \in Tree : ~(e.dir = f /\ e.name = n)
  BY DEF Unused
<1>13. /\ Paged'
       /\ Tree' = Tree \cup {Edge(f, n, i)} /\ Edge(f, n, i) \notin Tree
  <2>1. Dirs \subseteq Dirs' /\ Dirs' \subseteq Dirs \cup {i} /\ (i \in Dirs' \ Dirs => type = "DR")
    BY <1>6
  <2>2. Typed /\ Paged
    OBVIOUS
  <2> HIDE DEF DiskInv
  <2> QED
    BY <1>1, <1>4, <1>9, <1>10, <1>11, <1>12, <2>1, <2>2, AddedTree
<1>14. \A d \in Dirs : Page(d)'[2].inode = Page(d)[2].inode
  <2>1. Page(f) \in Seq(Entry) /\ Len(Page(f)) \in Nat /\ Len(Page(f)) >= 2
    BY <1>1, LenProperties DEF Paged, DirShape
  <2>2. Page(f)'[2] = Page(f)[2]
    <3> DEFINE P == Page(f)
               Q == Page(f)'
               new == Ent(i, n, type)
    <3>1. P \in Seq(Entry) /\ Len(P) \in Nat /\ Len(P) >= 2 /\ Q = Append(P, new) /\ new \in Entry
      BY <1>9, <2>1 DEF Ent, Entry
    <3> HIDE DEF P, Q, new, DiskInv
    <3>2. Q[2] = P[2]
      BY <3>1
    <3> QED
      BY <3>2 DEF P, Q
  <2> QED
    BY <1>10, <2>2 DEF Kept
<1>15. /\ Shaped' /\ Named' /\ LinksCounted'
       /\ imap' = {0} \cup {e.node : e \in Tree'}
  <2>1. Cardinality(NamesOf(Tree, i)) = 0
    <3>1. NamesOf(Tree, i) = {}
      BY <1>7, NodesUsed DEF NamesOf
    <3> QED
      BY <3>1, FS_EmptySet
  <2>2. /\ f = 0 \/ \E g \in Tree : g.dir = 0 /\ g.node = f
        /\ \A j \in imap \ {f, i} : table'[j] = table[j]
        /\ i \notin imap
    BY <1>3 DEF HasFather, Typed
  <2>4. table'[i].link_num = Cardinality(NamesOf(Tree, i)) + 1
    BY <1>4, <2>1
  <2>5. table'[i].type = "DR" => table'[i].dir_len = 2 /\ Page(i)'[2].inode = f
    BY <1>4, <1>11
  <2>3. Typed /\ Paged /\ Shaped /\ Named /\ MapsExact /\ LinksCounted
    OBVIOUS
  <2> HIDE DEF DiskInv
  <2> QED
    BY <1>1, <1>3, <1>4, <1>13, <1>14, <2>2, <2>3, <2>4, <2>5, AddedName
<1>16. MapsExact'
  <2>1. BlocksExact'
    <3>1. \A j \in imap \ {i} : table'[j].link = table[j].link
      BY <1>3, <1>4 DEF Typed
    <3>2. ToSet(table'[i].link) = ToSet(link) \cup (IF i \in imap THEN ToSet(table[i].link) ELSE {})
      BY <1>4
    <3> DEFINE N == ToSet(link)
    <3>3. N \cap dmap = {} /\ dmap' = dmap \cup N
      OBVIOUS
    <3> HIDE DEF DiskInv, N
    <3>4. ToSet(table'[i].link) = N \cup (IF i \in imap THEN ToSet(table[i].link) ELSE {})
      BY <3>2 DEF N
    <3> QED
      BY <1>7, <3>1, <3>3, <3>4, BlocksMore
  <2>2. NodesExact'
    BY <1>15 DEF NodesExact
  <2> QED
    BY <2>1, <2>2, MapsSplit, PTL
<1>17. Sized'
  <2>1. ASSUME NEW j \in imap', table'[j].type = "NF"
        PROVE  table'[j].size <= Len(table'[j].link) * BLOCK_BYTES
    <3>1. j # f
      BY <1>4, <2>1
    <3>2. CASE j = i
      <4>1. link = <<>>
        BY <1>4, <2>1, <3>2
      <4>2. table'[j].size = 0 /\ Len(table'[j].link) = 0
        BY <1>4, <3>2, <4>1
      <4>3. BLOCK_BYTES \in Nat
        BY FilesAssumption
      <4> QED
        BY <4>2, <4>3
    <3>3. CASE j # i
      BY <1>3, <2>1, <3>1, <3>3 DEF Sized, Typed
    <3> QED
      BY <3>2, <3>3
  <2> QED
    BY <2>1 DEF Sized
<1>18. InodesKept(imap)
  <2>1. \A j \in imap : ToSet(table[j].link) \subseteq dmap
    BY <1>7 DEF BlocksExact
  <2>2. \A j \in imap \ {f} : Block(f) \notin ToSet(table[j].link)
    BY <1>1, <1>7, DirBlocks
  <2>3. \A j \in imap \ {f} : table'[j] = table[j]
    BY <1>3 DEF Typed
  <2> HIDE DEF DiskInv
  <2>4. \A b \in dmap \ {Block(f)} : data'[b] = data[b]
    OBVIOUS
  <2> QED
    BY <1>1, <1>4, <2>1, <2>2, <2>3, <2>4 DEF InodesKept, FileKept
<1> QED
  BY <1>5, <1>13, <1>15, <1>16, <1>17, <1>18

LEMMA LinkedMade ==
  ASSUME NEW d \in Inode
  PROVE  LET a == Linked(d)
         IN  /\ a \in Inode /\ a.index = d.index /\ a.type = d.type /\ a.size = d.size
             /\ a.link = d.link /\ a.link_num = d.link_num + 1
<1>1. d.link_num + 1 \in Nat
  BY DEF Inode
<1> QED
  BY <1>1 DEF Linked, Inode

(* Another name n, in directory f, of file i. *)
Adds(f, n, i) ==
  /\ HasFather(f) /\ n \in Names /\ Unused(f, n)
  /\ i \in imap /\ i # 0 /\ table[i].type # "DR"
  /\ imap' = imap /\ dmap' = dmap
  /\ table' = Put(Put(table, f, Appended(table[f])), i, Linked(table[i]))
  /\ data' = Put(data, Block(f), Append(Page(f), Ent(i, n, "NF")))

LEMMA NameMade ==
  ASSUME DiskInv, NEW f, NEW n, NEW i, Adds(f, n, i)
  PROVE  DiskInv' /\ Tree' = Tree \cup {Edge(f, n, i)} /\ InodesKept(imap)
<1> USE DEF Adds
<1>0. Typed /\ Paged /\ Shaped /\ Named /\ MapsExact /\ LinksCounted /\ Sized
  BY DEF DiskInv
<1>1. /\ f \in Dirs /\ f \in imap /\ f \in Inodes /\ table[f] \in Inode /\ table[f].index = f
      /\ table[f].type = "DR"
      /\ i \in Inodes /\ table[i] \in Inode /\ table[i].index = i /\ f # i
  BY <1>0 DEF HasFather, Dirs, Typed, Named
<1>2. Linked(table[i]) \in Inode /\ Appended(table[f]) \in Inode
  BY <1>1, InodesMade, LinkedMade
<1>3. /\ table' \in [Inodes -> Inode]
      /\ table'[f] = Appended(table[f]) /\ table'[i] = Linked(table[i])
      /\ \A j \in Inodes \ {f, i} : table'[j] = table[j]
  <2>1. table \in [Inodes -> Inode]
    BY <1>0 DEF Typed
  <2> QED
    BY <1>1, <1>2, <2>1 DEF Put
<1>4. /\ table'[f].link = table[f].link /\ table'[f].size = table[f].size + 1
      /\ table'[f].type = "DR"
      /\ table'[i].type = table[i].type /\ table'[i].link = table[i].link /\ table'[i].index = i
      /\ table'[i].size = table[i].size /\ table'[i].link_num = table[i].link_num + 1
  BY <1>1, <1>3, InodesMade, LinkedMade
<1>5. \A j \in imap : table'[j].type = table[j].type /\ table'[j].link = table[j].link
  <2>1. \A j \in imap \ {f, i} : table'[j] = table[j]
    BY <1>0, <1>3 DEF Typed
  <2> QED
    BY <1>1, <1>4, <2>1
<1>6. /\ data' = [b \in Blocks |-> data'[b]]
      /\ data'[Block(f)] = Append(Page(f), Ent(i, n, "NF"))
      /\ \A b \in Blocks \ {Block(f)} : data'[b] = data[b]
  <2>1. data = [b \in Blocks |-> data[b]] /\ Block(f) \in Blocks
    BY <1>0, <1>1 DEF Typed, Paged, DirShape
  <2> QED
    BY <2>1 DEF Put
<1>7. Typed'
  BY <1>0, <1>3, <1>6 DEF Typed
<1>8. Dirs' = Dirs
  BY <1>5 DEF Dirs
<1>9. BlocksExact /\ MapsExact
  BY <1>0, MapsSplit
<1>10. Page(f)' = Append(Page(f), Ent(i, n, "NF"))
  BY <1>4, <1>6 DEF Page, Block
<1>11. \A d \in Dirs \ {f} : Kept(d)
  <2>1. \A d \in Dirs \ {f} : table'[d] = table[d]
    BY <1>0, <1>3 DEF Dirs, Typed
  <2>2. \A d \in Dirs \ {f} : Block(d) \in Blocks \ {Block(f)}
    BY <1>0, <1>1, <1>9, DirBlocks DEF Typed
  <2> QED
    BY <1>6, <2>1, <2>2 DEF Kept, Page, Block
<1>12. \A e \in Tree : ~(e.dir = f /\ e.name = n)
  BY DEF Unused
<1>13. /\ Paged'
       /\ Tree' = Tree \cup {Edge(f, n, i)} /\ Edge(f, n, i) \notin Tree
  <2>1. Dirs \subseteq Dirs' /\ Dirs' \subseteq Dirs \cup {i} /\ ~(i \in Dirs' \ Dirs)
    BY <1>8
  <2> QED
    BY <1>0, <1>1, <1>4, <1>10, <1>11, <1>12, <2>1, AddedTree
<1>14. \A d \in Dirs : Page(d)'[2].inode = Page(d)[2].inode
  <2>1. Page(f) \in Seq(Entry) /\ Len(Page(f)) \in Nat /\ Len(Page(f)) >= 2
    BY <1>0, <1>1, LenProperties DEF Paged, DirShape
  <2>2. Page(f)'[2] = Page(f)[2]
    <3> DEFINE P == Page(f)
               Q == Page(f)'
               new == Ent(i, n, "NF")
    <3>1. P \in Seq(Entry) /\ Len(P) \in Nat /\ Len(P) >= 2 /\ Q = Append(P, new) /\ new \in Entry
      BY <1>1, <1>10, <2>1 DEF Ent, Entry
    <3> HIDE DEF P, Q, new
    <3>2. Q[2] = P[2]
      BY <3>1
    <3> QED
      BY <3>2 DEF P, Q
  <2> QED
    BY <1>11, <2>2 DEF Kept
<1>15. /\ Shaped' /\ Named' /\ LinksCounted'
       /\ imap' = {0} \cup {e.node : e \in Tree'}
  <2>1. table'[i].link_num = Cardinality(NamesOf(Tree, i)) + 1
    BY <1>0, <1>4, LinksMean DEF AllLinks, LinksAre
  <2>2. /\ f = 0 \/ \E g \in Tree : g.dir = 0 /\ g.node = f
        /\ \A j \in imap \ {f, i} : table'[j] = table[j]
    BY <1>0, <1>3 DEF HasFather, Typed
  <2>3. table'[i].type # "DR" /\ imap' = imap \cup {i}
    BY <1>4
  <2> QED
    BY <1>0, <1>1, <1>3, <1>4, <1>13, <1>14, <2>1, <2>2, <2>3, AddedName
<1>16. MapsExact'
  <2>1. BlocksExact'
    BY <1>5, <1>9, BlocksSame
  <2>2. NodesExact'
    BY <1>15 DEF NodesExact
  <2> QED
    BY <2>1, <2>2, MapsSplit, PTL
<1>17. Sized'
  <2>1. ASSUME NEW j \in imap, table'[j].type = "NF"
        PROVE  table'[j].size <= Len(table'[j].link) * BLOCK_BYTES
    <3>1. j # f
      BY <1>4, <2>1
    <3>2. table'[j].size = table[j].size /\ table'[j].link = table[j].link /\ table[j].type = "NF"
      BY <1>0, <1>3, <1>4, <2>1, <3>1 DEF Typed
    <3> QED
      BY <1>0, <3>2 DEF Sized
  <2> QED
    BY <2>1 DEF Sized
<1>18. InodesKept(imap)
  <2>1. \A j \in imap : ToSet(table[j].link) \subseteq dmap /\ dmap \subseteq Blocks
    BY <1>0, <1>9 DEF BlocksExact, Typed
  <2>2. \A j \in imap \ {f} : Block(f) \notin ToSet(table[j].link)
    BY <1>0, <1>1, <1>9, DirBlocks
  <2>3. \A j \in imap \ {f} : table'[j].size = table[j].size
    BY <1>0, <1>3, <1>4 DEF Typed
  <2> QED
    BY <1>1, <1>5, <1>6, <2>1, <2>2, <2>3 DEF InodesKept, FileKept
<1> QED
  BY <1>7, <1>13, <1>15, <1>16, <1>17, <1>18 DEF DiskInv

LEMMA LessMade ==
  ASSUME NEW d \in Inode
  PROVE  /\ d.dir_len # 0 =>
              LET a == [d EXCEPT !.dir_len = @ - 1]
              IN  a \in Inode /\ a.type = d.type /\ a.size = d.size /\ a.link = d.link
         /\ d.link_num # 0 =>
              LET a == [d EXCEPT !.link_num = @ - 1]
              IN  a \in Inode /\ a.type = d.type /\ a.size = d.size /\ a.link = d.link
<1>1. (d.dir_len # 0 => d.dir_len - 1 \in Nat) /\ (d.link_num # 0 => d.link_num - 1 \in Nat)
  <2>1. d.dir_len \in Nat /\ d.link_num \in Nat
    BY DEF Inode
  <2> QED
    BY <2>1
<1> QED
  BY <1>1 DEF Inode

(* The name x goes, and the inode with it when that was its last name. *)
Drops(x) ==
  LET dirs == Put(table, x.dir, [table[x.dir] EXCEPT !.dir_len = @ - 1])
  IN  /\ x \in Tree
      /\ ~NotEmpty(table[x.node])
      /\ \E k \in 3 .. Len(Page(x.dir)) :
           /\ Live(Page(x.dir)[k])
           /\ x = Edge(x.dir, Page(x.dir)[k].name, Page(x.dir)[k].inode)
           /\ data' = Put(data, Block(x.dir), [Page(x.dir) EXCEPT ![k].type = "XX"])
      /\ \/ /\ LastLink(table[x.node])
            /\ imap' = imap \ {x.node}
            /\ dmap' = dmap \ Freed(table[x.node])
            /\ table' = dirs
         \/ /\ ~LastLink(table[x.node])
            /\ imap' = imap
            /\ dmap' = dmap
            /\ table' = Put(dirs, x.node, [table[x.node] EXCEPT !.link_num = @ - 1])

LEMMA NameRemoved ==
  ASSUME DiskInv, NEW x, Drops(x)
  PROVE  /\ DiskInv' /\ Tree' = Tree \ {x} /\ InodesKept(imap)
         /\ Below(Tree, x.node) = {} /\ x.node \in Inodes
<1> DEFINE f == x.dir
           i == x.node
           dirs == Put(table, f, [table[f] EXCEPT !.dir_len = @ - 1])
<1> USE DEF Drops
<1>0. Typed /\ Paged /\ Shaped /\ Named /\ MapsExact /\ LinksCounted /\ Sized
  BY DEF DiskInv
<1>1. /\ f \in Dirs /\ f \in imap /\ f \in Inodes /\ table[f] \in Inode /\ table[f].type = "DR"
      /\ i \in imap /\ i \in Inodes /\ table[i] \in Inode /\ f # i /\ i # 0
      /\ x = Edge(f, x.name, i)
  BY <1>0, EdgesApart, NodesUsed, DotsElsewhere DEF Dirs, Typed, Shaped
<1> HIDE DEF f, i
<1>2. table[f].dir_len # 0 /\ table[i].link_num # 0 /\ Below(Tree, i) = {}
  <2>1. /\ table[f].dir_len = 2 + Cardinality(Below(Tree, f))
        /\ table[i].link_num = Cardinality(NamesOf(Tree, i))
        /\ table[i].type = "DR" => table[i].dir_len = 2 + Cardinality(Below(Tree, i))
    BY <1>0, <1>1, LinksMean DEF AllLinks, LinksAre
  <2>2. /\ IsFiniteSet(NamesOf(Tree, i)) /\ IsFiniteSet(Below(Tree, i))
        /\ Cardinality(Below(Tree, f)) \in Nat /\ Cardinality(Below(Tree, i)) \in Nat
    BY <1>0, CountsAreNumbers DEF Shaped
  <2>3. Cardinality(NamesOf(Tree, i)) # 0
    <3>1. x \in NamesOf(Tree, i)
      BY DEF NamesOf, i
    <3> QED
      BY <2>2, <3>1, FS_EmptySet
  <2>4. Below(Tree, i) = {}
    <3>1. CASE table[i].type = "DR"
      <4>1. table[i].dir_len <= 2
        BY <1>1, <3>1 DEF NotEmpty, i, Inode
      <4>2. Cardinality(Below(Tree, i)) = 0
        BY <2>1, <2>2, <3>1, <4>1
      <4> QED
        BY <2>2, <4>2, FS_EmptySet
    <3>2. CASE table[i].type # "DR"
      BY <1>0, <3>2, NodesUsed DEF Below
    <3> QED
      BY <3>1, <3>2
  <2>5. table[f].dir_len # 0
    BY <2>1, <2>2
  <2> QED
    BY <2>1, <2>3, <2>4, <2>5
<1>3. /\ table' \in [Inodes -> Inode]
      /\ table'[f] = [table[f] EXCEPT !.dir_len = @ - 1]
      /\ table'[i] = IF LastLink(table[i]) THEN table[i] ELSE [table[i] EXCEPT !.link_num = @ - 1]
      /\ \A j \in Inodes \ {f, i} : table'[j] = table[j]
  <2>1. table \in [Inodes -> Inode]
    BY <1>0 DEF Typed
  <2>2. [table[f] EXCEPT !.dir_len = @ - 1] \in Inode /\ [table[i] EXCEPT !.link_num = @ - 1] \in Inode
    BY <1>1, <1>2, LessMade
  <2>3. /\ dirs \in [Inodes -> Inode] /\ dirs[f] = [table[f] EXCEPT !.dir_len = @ - 1]
        /\ \A j \in Inodes \ {f} : dirs[j] = table[j]
    BY <1>1, <2>1, <2>2 DEF Put, f
  <2>4. table' = IF LastLink(table[i]) THEN dirs
                 ELSE [dirs EXCEPT ![i] = [table[i] EXCEPT !.link_num = @ - 1]]
    BY DEF i, f, Put
  <2> HIDE DEF dirs, Drops
  <2> QED
    BY <1>1, <2>2, <2>3, <2>4
<1>4. \A j \in imap : /\ table'[j].type = table[j].type /\ table'[j].link = table[j].link
                      /\ table'[j].size = table[j].size
  <2>1. \A j \in imap \ {f, i} : table'[j] = table[j]
    BY <1>0, <1>3 DEF Typed
  <2>2. /\ table'[f].type = table[f].type /\ table'[f].link = table[f].link
        /\ table'[f].size = table[f].size
    BY <1>1, <1>2, <1>3, LessMade
  <2>3. /\ table'[i].type = table[i].type /\ table'[i].link = table[i].link
        /\ table'[i].size = table[i].size
    BY <1>1, <1>2, <1>3, LessMade
  <2> QED
    BY <2>1, <2>2, <2>3
<1>5. /\ imap' = IF LastLink(table[i]) THEN imap \ {i} ELSE imap
      /\ dmap' = IF LastLink(table[i]) THEN dmap \ ToSet(table[i].link) ELSE dmap
  BY DEF Freed, i
<1>60. PICK k \in 3 .. Len(Page(f)) :
         /\ Live(Page(f)[k]) /\ x = Edge(f, Page(f)[k].name, Page(f)[k].inode)
         /\ data' = Put(data, Block(f), [Page(f) EXCEPT ![k].type = "XX"])
  BY DEF f
<1>6. /\ data' = [b \in Blocks |-> data'[b]]
      /\ data'[Block(f)] = [Page(f) EXCEPT ![k].type = "XX"]
      /\ \A b \in Blocks \ {Block(f)} : data'[b] = data[b]
  <2>1. data = [b \in Blocks |-> data[b]] /\ Block(f) \in Blocks
    BY <1>0, <1>1 DEF Typed, Paged, DirShape
  <2> QED
    BY <1>60, <2>1 DEF Put
<1>7. Typed'
  BY <1>0, <1>1, <1>3, <1>5, <1>6 DEF Typed
<1>8. /\ Dirs' \subseteq Dirs /\ Dirs \subseteq Dirs' \cup {i}
  BY <1>4, <1>5 DEF Dirs
<1>9. BlocksExact /\ MapsExact
  BY <1>0, MapsSplit
<1>10. Page(f)' = [Page(f) EXCEPT ![k].type = "XX"]
  BY <1>1, <1>4, <1>6 DEF Page, Block
<1>11. \A d \in Dirs \ {f} : Kept(d)
  <2>1. \A d \in Dirs : d \in imap
    BY DEF Dirs
  <2>2. \A d \in Dirs \ {f} : Block(d) \in Blocks \ {Block(f)}
    BY <1>0, <1>1, <1>9, DirBlocks DEF Typed
  <2> QED
    BY <1>4, <1>6, <2>1, <2>2 DEF Kept, Page, Block
<1>12. Paged' /\ Tree' = Tree \ {x}
  <2>1. table'[f].link = table[f].link /\ table'[f].size = table[f].size
    BY <1>1, <1>4
  <2>2. \A d \in Dirs' \ {f} : Kept(d)
    BY <1>8, <1>11
  <2> QED
    BY <1>0, <1>2, <1>8, <1>10, <1>60, <2>1, <2>2, RemovedTree DEF f, i
<1>13. Page(f)'[2] = Page(f)[2]
  <2> DEFINE P == Page(f)
             Q == Page(f)'
  <2>1. k \in 3 .. Len(P) /\ Q = [P EXCEPT ![k].type = "XX"]
    BY <1>10
  <2>2. P \in Seq(Entry) /\ Len(P) \in Nat /\ Len(P) >= 2
    BY <1>0, <1>1, LenProperties DEF Paged, DirShape
  <2> HIDE DEF P, Q
  <2>3. Q[2] = P[2]
    BY <2>1, <2>2
  <2> QED
    BY <2>3 DEF P, Q
<1>14. \A d \in Dirs : Page(d)'[2].inode = Page(d)[2].inode
  BY <1>11, <1>13 DEF Kept
<1>15. /\ Shaped' /\ Named' /\ LinksCounted'
       /\ imap' = {0} \cup {e.node : e \in Tree'}
  <2>1. \A j \in imap \ {f, i} : table'[j] = table[j]
    BY <1>0, <1>3 DEF Typed
  <2>2. i \in imap' => table'[i] = [table[i] EXCEPT !.link_num = @ - 1]
    BY <1>3, <1>5
  <2> QED
    BY <1>0, <1>2, <1>3, <1>5, <1>12, <1>14, <2>1, <2>2, LessName DEF f, i
<1>16. MapsExact'
  <2>1. BlocksExact'
    <3>1. CASE LastLink(table[i])
      <4>1. imap' = imap \ {i} /\ dmap' = dmap \ ToSet(table[i].link)
        BY <1>5, <3>1
      <4>2. i \in imap /\ \A j \in imap \ {i} : table'[j].link = table[j].link
        BY <1>1, <1>4
      <4> QED
        BY <1>9, <4>1, <4>2, BlocksLess
    <3>2. CASE ~LastLink(table[i])
      BY <1>4, <1>5, <1>9, <3>2, BlocksSame
    <3> QED
      BY <3>1, <3>2
  <2>2. NodesExact'
    BY <1>15 DEF NodesExact
  <2> QED
    BY <2>1, <2>2, MapsSplit, PTL
<1>17. Sized'
  BY <1>0, <1>4, <1>5 DEF Sized
<1>18. InodesKept(imap)
  <2>1. \A j \in imap : ToSet(table[j].link) \subseteq dmap /\ dmap \subseteq Blocks
    BY <1>0, <1>9 DEF BlocksExact, Typed
  <2>2. \A j \in imap \ {f} : Block(f) \notin ToSet(table[j].link)
    BY <1>0, <1>1, <1>9, DirBlocks
  <2> QED
    BY <1>1, <1>4, <1>6, <2>1, <2>2 DEF InodesKept, FileKept
<1> QED
  BY <1>1, <1>2, <1>7, <1>12, <1>15, <1>16, <1>17, <1>18 DEF DiskInv, i

LEMMA MaxOfTwo ==
  ASSUME NEW a \in Int, NEW b \in Int
  PROVE  Max({a, b}) = IF a >= b THEN a ELSE b
<1> DEFINE m == IF a >= b THEN a ELSE b
<1>1. m \in {a, b} /\ \A y \in {a, b} : m >= y
  OBVIOUS
<1>2. \A x \in {a, b} : (\A y \in {a, b} : x >= y) => x = m
  OBVIOUS
<1> HIDE DEF m
<1>3. Max({a, b}) = m
  BY <1>1, <1>2 DEF Max
<1> QED
  BY <1>3 DEF m

LEMMA MinOfTwo ==
  ASSUME NEW a \in Int, NEW b \in Int
  PROVE  Min({a, b}) = IF a <= b THEN a ELSE b
<1> DEFINE m == IF a <= b THEN a ELSE b
<1>1. m \in {a, b} /\ \A y \in {a, b} : m <= y
  OBVIOUS
<1>2. \A x \in {a, b} : (\A y \in {a, b} : x <= y) => x = m
  OBVIOUS
<1> HIDE DEF m
<1>3. Min({a, b}) = m
  BY <1>1, <1>2 DEF Min
<1> QED
  BY <1>3 DEF m

LEMMA GrownMade ==
  ASSUME NEW d \in Inode, NEW link \in Seq(Blocks), NEW size \in Nat
  PROVE  LET a == Grown([d EXCEPT !.link = link], size)
         IN  /\ a \in Inode /\ a.index = d.index /\ a.type = d.type /\ a.link = link
             /\ a.link_num = d.link_num /\ a.dir_len = d.dir_len
             /\ a.size = IF size >= d.size THEN size ELSE d.size
             /\ link = d.link /\ size <= d.size => a = d
<1> DEFINE m == Max({size, d.size})
<1>1. m = (IF size >= d.size THEN size ELSE d.size) /\ m \in Nat /\ d.size \in Nat
  BY MaxOfTwo DEF Inode
<1> HIDE DEF m
<1>2. Grown([d EXCEPT !.link = link], size) = [[d EXCEPT !.link = link] EXCEPT !.size = m]
  BY DEF Grown, Inode, m
<1>3. size <= d.size => m = d.size
  BY <1>1
<1> DEFINE a == [[d EXCEPT !.link = link] EXCEPT !.size = m]
<1>4. /\ a \in Inode /\ a.index = d.index /\ a.type = d.type /\ a.link = link
      /\ a.link_num = d.link_num /\ a.dir_len = d.dir_len /\ a.size = m
  BY <1>1 DEF Inode
<1>5. link = d.link /\ m = d.size => a = d
  BY DEF Inode
<1> HIDE DEF a
<1>6. Grown([d EXCEPT !.link = link], size) = a
  BY <1>2 DEF a
<1>7. link = d.link /\ size <= d.size => a = d
  BY <1>3, <1>5
<1> QED
  BY <1>1, <1>4, <1>6, <1>7

(* Text in a block b of file i, or in a new block at its end. *)
Fills(i, b, link, size, here) ==
  LET inode == Grown([table[i] EXCEPT !.link = link], size)
  IN  /\ i \in imap /\ table[i].type = "NF"
      /\ b \in Blocks /\ link \in Seq(Blocks) /\ size \in Nat
      /\ \/ b \in ToSet(table[i].link) /\ link = table[i].link
         \/ b \notin dmap /\ link = Append(table[i].link, b) /\ size > table[i].size
      /\ size <= Len(link) * BLOCK_BYTES /\ table[i].size <= Len(link) * BLOCK_BYTES
      /\ imap' = imap /\ dmap' = dmap \cup {b}
      /\ data' = Put(data, b, here)
      /\ table' = IF inode.size > table[i].size THEN Put(table, i, inode) ELSE table

(* What comes of it: that inode and that block change. *)
Wrote(i, b, link, size, here) ==
  /\ Tree' = Tree /\ InodesKept(imap \ {i})
  /\ table'[i] = Grown([table[i] EXCEPT !.link = link], size)
  /\ data'[b] = here /\ \A c \in Blocks \ {b} : data'[c] = data[c]

LEMMA TextWritten ==
  ASSUME DiskInv, NEW i, NEW b, NEW link, NEW size, NEW here, Fills(i, b, link, size, here)
  PROVE  DiskInv' /\ Wrote(i, b, link, size, here)
<1> DEFINE inode == Grown([table[i] EXCEPT !.link = link], size)
<1> USE DEF Fills
<1>0. Typed /\ Paged /\ Shaped /\ Named /\ MapsExact /\ LinksCounted /\ Sized
  BY DEF DiskInv
<1>1. i \in Inodes /\ table[i] \in Inode /\ table[i].index = i /\ table \in [Inodes -> Inode]
  BY <1>0 DEF Typed, Named
<1>2. /\ inode \in Inode /\ inode.index = i /\ inode.type = "NF" /\ inode.link = link
      /\ inode.link_num = table[i].link_num /\ inode.dir_len = table[i].dir_len
      /\ inode.size = (IF size >= table[i].size THEN size ELSE table[i].size)
      /\ link = table[i].link /\ size <= table[i].size => inode = table[i]
  BY <1>1, GrownMade
<1>3. table' = [table EXCEPT ![i] = inode]
  <2>1. table[i].size \in Nat
    BY <1>1 DEF Inode
  <2>2. CASE inode.size > table[i].size
    BY <2>2 DEF Put
  <2>3. CASE ~(inode.size > table[i].size)
    <3>1. size <= table[i].size /\ ~(size > table[i].size)
      BY <1>2, <2>1, <2>3
    <3>2. inode = table[i] /\ table' = table
      BY <1>2, <2>3, <3>1
    <3> QED
      BY <1>1, <3>2
  <2> QED
    BY <2>2, <2>3
<1>4. /\ table' \in [Inodes -> Inode] /\ table'[i] = inode
      /\ \A j \in imap \ {i} : table'[j] = table[j]
  BY <1>0, <1>1, <1>2, <1>3 DEF Typed
<1>5. /\ data' = [c \in Blocks |-> data'[c]]
      /\ data'[b] = here /\ \A c \in Blocks \ {b} : data'[c] = data[c]
  <2>1. data = [c \in Blocks |-> data[c]]
    BY <1>0 DEF Typed
  <2> QED
    BY <2>1 DEF Put
<1>6. Typed'
  BY <1>0, <1>4, <1>5 DEF Typed
<1>7. \A j \in imap : /\ table'[j].type = table[j].type /\ table'[j].index = table[j].index
                      /\ table'[j].link_num = table[j].link_num /\ table'[j].dir_len = table[j].dir_len
  BY <1>1, <1>2, <1>4
<1>8. BlocksExact /\ MapsExact
  BY <1>0, MapsSplit
<1>9. Dirs' = Dirs /\ i \notin Dirs
  BY <1>7 DEF Dirs
<1>10. \A d \in Dirs : Kept(d)
  <2> SUFFICES ASSUME NEW d \in Dirs PROVE Kept(d)
    OBVIOUS
  <2>1. d \in imap \ {i}
    BY <1>9 DEF Dirs
  <2>2. Block(d) \in dmap /\ Block(d) \in Blocks /\ Block(d) \notin ToSet(table[i].link)
    BY <1>0, <1>8, <1>9, DirBlocks DEF Typed
  <2>3. Block(d) # b
    BY <2>2
  <2> QED
    BY <1>4, <1>5, <2>1, <2>2, <2>3 DEF Kept, Page, Block
<1>11. Paged' /\ Tree' = Tree
  BY <1>0, <1>9, <1>10, SameTree
<1>12. Named'
  BY <1>0, <1>7 DEF Named
<1>13. Shaped'
  <2>1. \A e \in Tree : e.node \in imap
    BY <1>0, NodesUsed
  <2>2. \A d \in Dirs : Page(d)' = Page(d)
    BY <1>10 DEF Kept
  <2>3. IsFiniteSet(Tree')
    BY <1>0, <1>11 DEF Shaped
  <2>4. 0 \in Dirs /\ table'[0].type = "DR"
    BY <1>0, <1>7 DEF Shaped, Typed, Dirs
  <2>5. Page(0)'[2].inode = 0
    BY <1>0, <2>2, <2>4 DEF Shaped
  <2>6. /\ \A e \in Tree' : e.node # 0
        /\ \A e \in Tree' : e.dir = 0 \/ \E f \in Tree' : f.dir = 0 /\ f.node = e.dir
    BY <1>0, <1>11 DEF Shaped
  <2>7. \A e \in Tree' : table'[e.node].type = "DR" =>
          Page(e.node)'[2].inode = e.dir /\ \A f \in Tree' : f.node = e.node => f = e
    <3> SUFFICES ASSUME NEW e \in Tree, table'[e.node].type = "DR"
                 PROVE  Page(e.node)'[2].inode = e.dir /\ \A f \in Tree : f.node = e.node => f = e
      BY <1>11
    <3>1. table[e.node].type = "DR" /\ e.node \in Dirs
      BY <1>7, <2>1 DEF Dirs
    <3> QED
      BY <1>0, <2>2, <3>1 DEF Shaped
  <2> QED
    BY <2>3, <2>4, <2>5, <2>6, <2>7 DEF Shaped
<1>14. LinksCounted'
  <2>1. \A j \in imap : LinksAre(Tree, j)
    BY <1>0, LinksMean DEF AllLinks
  <2>2. AllLinks'
    BY <1>7, <1>11, <2>1 DEF AllLinks, LinksAre
  <2> QED
    BY <2>2, LinksMean, PTL
<1>15. MapsExact'
  <2>1. BlocksExact'
    <3>1. CASE b \in ToSet(table[i].link) /\ link = table[i].link
      <4>1. \A j \in imap : table'[j].link = table[j].link
        BY <1>2, <1>4, <3>1
      <4>2. b \in dmap
        BY <1>8, <3>1 DEF BlocksExact
      <4>3. dmap' = dmap
        BY <4>2
      <4> QED
        BY <1>8, <4>1, <4>3, BlocksSame
    <3>2. CASE b \notin dmap /\ link = Append(table[i].link, b)
      <4>1. table'[i].link = Append(table[i].link, b)
        BY <1>2, <1>4, <3>2
      <4>2. ToSet(Append(table[i].link, b)) = {b} \cup ToSet(table[i].link)
        <5> DEFINE s == table[i].link
        <5>1. s \in Seq(Blocks)
          BY <1>1 DEF Inode
        <5> HIDE DEF s
        <5>2. /\ DOMAIN Append(s, b) = 1 .. Len(s) + 1 /\ DOMAIN s = 1 .. Len(s) /\ Len(s) \in Nat
              /\ Append(s, b)[Len(s) + 1] = b /\ \A k \in 1 .. Len(s) : Append(s, b)[k] = s[k]
          BY <5>1, AppendProperties, LenProperties
        <5>3. ToSet(Append(s, b)) = {b} \cup ToSet(s)
          BY <5>2 DEF ToSet
        <5> QED
          BY <5>3 DEF s
      <4>3. imap' = imap \cup {i} /\ \A j \in imap \ {i} : table'[j].link = table[j].link
        BY <1>4
      <4> DEFINE N == {b}
      <4>4. N \cap dmap = {} /\ dmap' = dmap \cup N
        BY <3>2
      <4>5. ToSet(table'[i].link) = N \cup (IF i \in imap THEN ToSet(table[i].link) ELSE {})
        BY <4>1, <4>2
      <4> HIDE DEF N
      <4> QED
        BY <1>8, <4>3, <4>4, <4>5, BlocksMore
    <3> QED
      BY <3>1, <3>2
  <2>2. NodesExact'
    BY <1>8, <1>11, MapsSplit DEF NodesExact
  <2> QED
    BY <2>1, <2>2, MapsSplit, PTL
<1>16. Sized'
  <2>1. inode.size <= Len(inode.link) * BLOCK_BYTES
    BY <1>2
  <2> QED
    BY <1>0, <1>4, <2>1 DEF Sized
<1>17. InodesKept(imap \ {i})
  <2> SUFFICES ASSUME NEW j \in imap \ {i}, NEW c \in ToSet(table[j].link) PROVE data'[c] = data[c]
    BY <1>4 DEF InodesKept, FileKept
  <2>1. c \in dmap /\ c \in Blocks /\ c \notin ToSet(table[i].link)
    BY <1>0, <1>8 DEF BlocksExact, Typed
  <2> QED
    BY <1>5, <2>1
<1> QED
  BY <1>4, <1>5, <1>6, <1>11, <1>12, <1>13, <1>14, <1>15, <1>16, <1>17 DEF DiskInv, Wrote

-----------------------------------------------------------------------------
(* Descriptors and the lock *)

(* A call that writes nothing leaves everything about the disk as it is. *)
LEMMA SameDisk ==
  ASSUME DiskInv, UNCHANGED disk
  PROVE  DiskInv' /\ Tree' = Tree /\ Dirs' = Dirs
<1>0. Typed /\ Paged /\ Shaped /\ Named /\ MapsExact /\ LinksCounted /\ Sized
  BY DEF DiskInv
<1>1. imap' = imap /\ dmap' = dmap /\ table' = table /\ data' = data
  BY DEF disk
<1>2. Dirs' = Dirs
  BY <1>1 DEF Dirs
<1>3. \A d : Block(d)' = Block(d) /\ Page(d)' = Page(d)
  BY <1>1 DEF Block, Page
<1>4. Paged' /\ Tree' = Tree
  BY <1>0, <1>1, <1>2, <1>3, SameTree DEF Kept
<1>5. Typed' /\ Named' /\ Sized'
  BY <1>0, <1>1 DEF Typed, Named, Sized
<1>6. Shaped'
  BY <1>0, <1>1, <1>3, <1>4 DEF Shaped
<1>7. MapsExact'
  BY <1>0, <1>1, <1>4 DEF MapsExact
<1>8. LinksCounted'
  BY <1>0, <1>1, <1>4 DEF LinksCounted
<1> QED
  BY <1>2, <1>4, <1>5, <1>6, <1>7, <1>8 DEF DiskInv

LEMMA DescriptorPut ==
  ASSUME Copied, NEW t \in Tasks, NEW s, NEW f \in Descriptors \cup {NULL},
         flides' = [flides EXCEPT ![t][s] = f]
  PROVE  Copied'
<1>1. flides \in [Tasks -> [Slots -> Descriptors \cup {NULL}]]
  BY DEF Copied
<1>2. [flides[t] EXCEPT ![s] = f] \in [Slots -> Descriptors \cup {NULL}]
  BY <1>1
<1>3. flides' = [flides EXCEPT ![t] = [flides[t] EXCEPT ![s] = f]]
  OBVIOUS
<1>4. flides' \in [Tasks -> [Slots -> Descriptors \cup {NULL}]]
  BY <1>1, <1>2, <1>3
<1> QED
  BY <1>4 DEF Copied

(* A position in a file of n blocks that is not its end is in one of them, and what is
   written there without leaving the block ends within the file's blocks. *)
LEMMA WithinBlocks ==
  ASSUME NEW o \in Nat, NEW n \in Nat, NEW w \in Nat, o < n * BLOCK_BYTES, Remain(o) + w <= BLOCK_BYTES
  PROVE  /\ o \div BLOCK_BYTES + 1 \in 1 .. n
         /\ o + w <= n * BLOCK_BYTES
<1> DEFINE q == o \div BLOCK_BYTES
           r == o % BLOCK_BYTES
           B == BLOCK_BYTES
<1>1. B \in Nat \ {0}
  BY FilesAssumption
<1>2. q \in Nat /\ r \in Nat /\ r < B /\ o = q * B + r
  BY <1>1
<1>3. r + w <= B /\ o < n * B
  BY DEF Remain
<1> HIDE DEF q, r, B
<1>4. ASSUME q >= n PROVE FALSE
  <2>1. PICK k \in Nat : q = n + k
    <3>1. q - n \in Nat /\ q = n + (q - n)
      BY <1>2, <1>4
    <3> QED
      BY <3>1
  <2>2. q * B = n * B + k * B /\ k * B \in Nat /\ n * B \in Nat
    BY <1>1, <2>1
  <2> QED
    BY <1>2, <1>3, <2>2
<1>5. PICK k \in Nat : n = q + 1 + k
  <2>1. n - (q + 1) \in Nat /\ n = q + 1 + (n - (q + 1))
    BY <1>2, <1>4
  <2> QED
    BY <2>1
<1>6. n * B = q * B + B + k * B /\ k * B \in Nat /\ q * B \in Nat
  BY <1>1, <1>2, <1>5
<1>7. o + w <= n * B
  BY <1>1, <1>2, <1>3, <1>6
<1>8. q + 1 \in 1 .. n
  BY <1>2, <1>5
<1> QED
  BY <1>7, <1>8 DEF q, B

-----------------------------------------------------------------------------
(* Who is inside a call *)

(* What a directory is, seen from its inode in the table. *)
LEMMA DirKnown ==
  ASSUME DiskInv, NEW f \in Dirs
  PROVE  /\ table[f] \in Inode /\ table[f].index = f
         /\ Block(f) \in dmap /\ Block(f) \in Blocks /\ table[f].link[1] = Block(f)
         /\ Entries(table[f]) = Page(f)
<1>1. Typed /\ Paged /\ Named /\ BlocksExact
  BY MapsSplit DEF DiskInv
<1>2. f \in imap /\ f \in Inodes
  BY <1>1 DEF Typed, Dirs
<1>3. Block(f) \in dmap /\ Block(f) \in Blocks
  BY <1>1, DirBlocks DEF Typed
<1>4. Entries(table[f]) = Page(f)
  BY <1>1, EntriesPage
<1> QED
  BY <1>1, <1>2, <1>3, <1>4 DEF Block, Typed, Named

(* Everything Inside says is read off the disk, the call and the task's descriptors. *)
LEMMA AsRead ==
  ASSUME DiskInv, UNCHANGED disk, NEW t \in Tasks, Inside(t), call'[t] = call[t], flides'[t] = flides[t]
  PROVE  Inside(t)'
<1>1. imap' = imap /\ dmap' = dmap /\ table' = table /\ Tree' = Tree /\ Dirs' = Dirs
  BY SameDisk DEF disk
<1>2. \A p, father : IsFree(p, father)' <=> IsFree(p, father)
  BY <1>1 DEF IsFree, InDir
<1>3. \A p, d, i : IsName(p, d, i)' <=> IsName(p, d, i)
  BY <1>1 DEF IsName, InDir
<1>4. \A inode : IsCurrent(inode)' <=> IsCurrent(inode)
  BY <1>1 DEF IsCurrent
<1>5. Creating(t) => Creating(t)'
  BY <1>1, <1>2 DEF Creating
<1>6. Opening(t) => Opening(t)'
  BY <1>1, <1>3, <1>4 DEF Opening
<1>7. Making(t) => Making(t)'
  BY <1>1, <1>2 DEF Making
<1>8. Removing(t) => Removing(t)'
  BY <1>1, <1>3, <1>4 DEF Removing
<1>9. HasFile(t) => HasFile(t)'
  BY <1>1, <1>4 DEF HasFile
<1>10. (Linking(t) => Linking(t)') /\ (Entering(t) => Entering(t)')
  BY <1>1, <1>2, <1>9 DEF Linking, Entering
<1>11. Writing(t) => Writing(t)'
  BY <1>1, <1>9 DEF Writing, Target, FreeBlock
<1> QED
  BY <1>5, <1>6, <1>7, <1>8, <1>10, <1>11 DEF Inside

LEMMA InsidePcs ==
  /\ Idle.pc = "idle"
  /\ \A t : Inside(t) =>
       /\ call[t].pc \in {"create", "slot", "mkdir", "rm", "link", "entry", "write"}
       /\ call[t] # Idle
       /\ call[t].pc = "create" => Creating(t)
       /\ call[t].pc = "slot" => Opening(t)
       /\ call[t].pc = "mkdir" => Making(t)
       /\ call[t].pc = "rm" => Removing(t)
       /\ call[t].pc = "link" => Linking(t)
       /\ call[t].pc = "entry" => Entering(t)
       /\ call[t].pc = "write" => Writing(t)
BY DEF Idle, Inside, Creating, Opening, Making, Removing, Linking, Entering, Writing

(* A task inside a call is the only one, and has the lock if it is inside open. *)
LEMMA OnlyOne ==
  ASSUME Locked, NEW t \in Tasks, call[t].pc # "idle"
  PROVE  /\ Inside(t)
         /\ \A u \in Tasks \ {t} : call[u] = Idle
         /\ lock_vfs = IF call[t].pc \in {"create", "slot"} THEN t ELSE NULL
<1>1. Idle.pc = "idle" /\ call[t] # Idle
  BY DEF Idle
<1>2. Inside(t) /\ \A u \in Tasks \ {t} : call[u] = Idle
  BY <1>1 DEF Locked
<1>3. ASSUME NEW u \in Tasks, lock_vfs = u PROVE u = t /\ call[t].pc \in {"create", "slot"}
  BY <1>1, <1>2, <1>3 DEF Locked
<1> QED
  BY <1>2, <1>3 DEF Locked

(* A careful caller goes into a call when nobody is in one. *)
LEMMA NobodyElse ==
  ASSUME Locked, Careful', NEW t \in Tasks, NEW c, c.pc # "idle",
         call' = [call EXCEPT ![t] = c],
         c.pc \in {"create", "slot"} => Unlocked
  PROVE  \A u \in Tasks \ {t} : call[u] = Idle
<1> SUFFICES ASSUME NEW u \in Tasks \ {t}, call[u] # Idle PROVE FALSE
  OBVIOUS
<1>1. call'[t] = c /\ call'[u] = call[u] /\ c # Idle /\ Idle.pc = "idle"
  BY DEF Locked, Idle
<1>2. {call'[t].pc, call'[u].pc} \subseteq {"create", "slot"}
  <2>1. call'[t] # Idle /\ call'[u] # Idle /\ t # u
    BY <1>1
  <2> QED
    BY <2>1 DEF Careful, Apart, Idle
<1>3. lock_vfs = u /\ lock_vfs = NULL
  BY <1>1, <1>2 DEF Locked, Unlocked
<1> QED
  BY <1>3, FilesAssumption

(* What a task's step leaves when nobody else is inside a call. *)
LEMMA StillLocked ==
  ASSUME Locked, NEW t \in Tasks, \A u \in Tasks \ {t} : call[u] = Idle,
         NEW c, call' = [call EXCEPT ![t] = c], c = Idle \/ Inside(t)',
         lock_vfs' = IF c.pc \in {"create", "slot"} THEN t ELSE NULL
  PROVE  Locked'
<1>1. call' = [u \in Tasks |-> call'[u]] /\ call'[t] = c /\ \A u \in Tasks \ {t} : call'[u] = Idle
  BY DEF Locked
<1>2. Idle.pc = "idle"
  BY DEF Idle
<1>3. \A u \in Tasks : lock_vfs' = u <=> call'[u].pc \in {"create", "slot"}
  BY <1>1, <1>2, FilesAssumption
<1>4. lock_vfs' \in Tasks \cup {NULL}
  OBVIOUS
<1> QED
  BY <1>1, <1>3, <1>4 DEF Locked

(* A step of a task outside any call, on its descriptors. *)
LEMMA OtherInside ==
  ASSUME DiskInv, Copied, Locked, UNCHANGED <<disk, lock_vfs, call>>, NEW t \in Tasks, call[t] = Idle,
         NEW s, NEW f, flides' = [flides EXCEPT ![t][s] = f]
  PROVE  Locked'
<1>1. \A u \in Tasks \ {t} : flides'[u] = flides[u]
  BY DEF Copied
<1>2. \A u \in Tasks : call'[u] = call[u]
  OBVIOUS
<1>3. \A u \in Tasks : call[u] = Idle \/ Inside(u)'
  BY <1>1, <1>2, AsRead DEF Locked
<1> QED
  BY <1>3 DEF Locked

(* Where a new name fits and is not there, there is room for it in the tree. *)
LEMMA FitsFree ==
  ASSUME DiskInv, NEW p \in Paths, Fits(p), Lookup(p) = NULL
  PROVE  /\ IsFree(p, table[Father(p)]) /\ table[Father(p)].index = Father(p)
<1>1. Typed /\ Paged /\ Shaped /\ MapsExact
  BY DEF DiskInv
<1>2. /\ InDir(p, Father(p))
      /\ \A e \in Tree : ~(e.dir = Father(p) /\ e.name = Last(p))
  BY <1>1, PathsLead DEF Fits
<1>3. table[Father(p)].index = Father(p)
  BY <1>2, DirKnown DEF InDir
<1> QED
  BY <1>2, <1>3 DEF IsFree

(* What is found under a path is a name in the tree. *)
LEMMA FoundName ==
  ASSUME DiskInv, NEW p \in Paths, Proper(p), Lookup(p) # NULL
  PROVE  /\ Father(p) \in Dirs /\ table[Father(p)].index = Father(p)
         /\ table[Lookup(p)].index = Lookup(p) /\ IsCurrent(table[Lookup(p)])
         /\ IsName(p, Father(p), Lookup(p))
<1>1. Typed /\ Paged /\ Shaped /\ MapsExact /\ Named
  BY DEF DiskInv
<1> DEFINE x == Edge(Father(p), Last(p), Lookup(p))
<1>2. x \in Tree /\ InDir(p, Father(p)) /\ x.node = Lookup(p)
  BY <1>1, PathsLead DEF Edge
<1>3. Lookup(p) \in imap /\ table[Lookup(p)].index = Lookup(p)
  BY <1>1, <1>2, NodesUsed DEF Named
<1> QED
  BY <1>2, <1>3, DirKnown DEF IsCurrent, IsName, InDir

LEMMA FreeHas ==
  ASSUME NEW p, NEW father, IsFree(p, father)
  PROVE  /\ father.index \in Dirs /\ father = table[father.index]
         /\ HasFather(father.index) /\ Last(p) \in Names /\ Unused(father.index, Last(p))
BY DEF IsFree, InDir, HasFather, Unused, Edge

(* Careful callers know that a name is new from the path alone. *)
LEMMA LookupKept ==
  ASSUME UNCHANGED disk, NEW p PROVE Lookup(p)' = Lookup(p)
BY DEF disk, Lookup, DirLookup, Entries


-----------------------------------------------------------------------------
(* One step *)

(* A name made or removed leaves the directories where a path puts its last name. *)
LEMMA InDirStays ==
  ASSUME DiskInv, InodesKept(imap), imap \subseteq imap', Tree \subseteq Tree', NEW p, NEW d, InDir(p, d)
  PROVE  InDir(p, d)'
<1>1. d \in Dirs'
  BY DEF InDir, Dirs, InodesKept
<1> QED
  BY <1>1 DEF InDir

LEMMA OpenCreateMakes ==
  ASSUME FilesInv, NEW t \in Tasks, OpenCreate(t)
  PROVE  /\ Creating(t) /\ asserted'
         /\ \A u \in Tasks \ {t} : call[u] = Idle
         /\ lock_vfs = t
         /\ Makes(call[t].father.index, Last(call[t].path), call[t].index, "NF", <<>>)
<1>1. DiskInv /\ Copied /\ Locked /\ call[t].pc = "create"
  BY DEF FilesInv, OpenCreate
<1>2. lock_vfs = t /\ Creating(t) /\ \A u \in Tasks \ {t} : call[u] = Idle
  BY <1>1, OnlyOne, InsidePcs
<1> DEFINE f == call[t].father.index
           i == call[t].index
           n == Last(call[t].path)
<1>3. /\ f \in Dirs /\ call[t].father = table[f] /\ i \in Inodes \ imap /\ n \in Names
      /\ HasFather(f) /\ Unused(f, n)
  BY <1>2, FreeHas DEF Creating
<1>4. /\ CreateFile(call[t].father, i, n)
      /\ flides' = flides /\ lock_vfs' = lock_vfs
  BY DEF OpenCreate
<1> HIDE DEF f, i, n
<1>5. /\ asserted' = TRUE /\ imap' = imap \cup {i} /\ dmap' = dmap
      /\ table' = Put(Put(table, f, Appended(table[f])), i, NewInode(i, "NF", <<>>))
      /\ data' = Put(data, Block(f), Append(Page(f), Ent(i, n, "NF")))
  BY <1>1, <1>3, <1>4, DirKnown DEF CreateFile, WithEntry
<1>6. /\ data' = [b \in Blocks |-> data'[b]]
      /\ data'[Block(f)] = Append(Page(f), Ent(i, n, "NF"))
      /\ \A b \in dmap \ {Block(f)} : data'[b] = data[b]
  <2>1. data = [b \in Blocks |-> data[b]] /\ Block(f) \in Blocks /\ dmap \subseteq Blocks
    BY <1>1, <1>3, DirKnown DEF DiskInv, Typed
  <2> QED
    BY <1>5, <2>1 DEF Put
<1> DEFINE link == <<>>
<1>7. /\ link \in Seq(Blocks) /\ ToSet(link) \cap dmap = {} /\ dmap' = dmap \cup ToSet(link)
      /\ table' = Put(Put(table, f, Appended(table[f])), i, NewInode(i, "NF", link))
      /\ link = <<>>
  BY <1>5 DEF ToSet
<1> HIDE DEF link
<1>8. Makes(f, n, i, "NF", link)
  BY <1>3, <1>5, <1>6, <1>7 DEF Makes
<1> QED
  BY <1>2, <1>5, <1>8 DEF f, i, n, link

LEMMA OpenCreateKeeps ==
  ASSUME FilesInv, NEW t \in Tasks, OpenCreate(t)
  PROVE  FilesInv'
<1>1. /\ Locked /\ Copied /\ DiskInv /\ lock_vfs = t /\ asserted' /\ Creating(t)
      /\ \A u \in Tasks \ {t} : call[u] = Idle
      /\ Makes(call[t].father.index, Last(call[t].path), call[t].index, "NF", <<>>)
  BY OpenCreateMakes DEF FilesInv
<1>2. PICK i, p, f, cur : i = call[t].index /\ p = call[t].path /\ f = call[t].father.index
                          /\ cur = table'[i]
  OBVIOUS
<1> DEFINE c == [pc |-> "slot", path |-> p, new |-> <<>>, cur |-> cur]
<1>3. call' = [call EXCEPT ![t] = c] /\ flides' = flides /\ lock_vfs' = lock_vfs
  BY <1>2 DEF OpenCreate
<1>4. InDir(p, f) /\ \E s \in Slots : flides[t][s] = NULL
  BY <1>1, <1>2 DEF Creating, IsFree
<1>5. DiskInv' /\ Tree' = Tree \cup {Edge(f, Last(p), i)} /\ InodesKept(imap)
      /\ imap' = imap \cup {i}
  BY <1>1, <1>2, Created DEF Makes
<1>6. cur.index = i /\ IsCurrent(cur)'
  BY <1>2, <1>5 DEF DiskInv, Named, IsCurrent
<1>7. InDir(p, f)' /\ f \in Dirs' /\ IsName(p, f, cur.index)'
  <2>1. InDir(p, f)'
    BY <1>1, <1>4, <1>5, InDirStays
  <2>2. Edge(f, Last(p), i) \in Tree'
    BY <1>5
  <2> QED
    BY <1>6, <2>1, <2>2 DEF IsName, InDir
<1>8. call'[t] = c /\ c.pc = "slot" /\ c.path = p /\ c.new = <<>> /\ c.cur = cur
  BY <1>1, <1>3 DEF Locked
<1>9. Opening(t)'
  <2>1. call'[t] = [pc |-> "slot", path |-> call'[t].path, new |-> call'[t].new, cur |-> call'[t].cur]
    BY <1>8
  <2> HIDE DEF c
  <2> QED
    BY <1>3, <1>4, <1>6, <1>7, <1>8, <2>1 DEF Opening
<1>10. Locked'
  <2>1. Inside(t)' /\ lock_vfs' = IF c.pc \in {"create", "slot"} THEN t ELSE NULL
    BY <1>1, <1>3, <1>8, <1>9 DEF Inside
  <2> HIDE DEF c
  <2> QED
    BY <1>1, <1>3, <2>1, StillLocked
<1>11. Copied'
  BY <1>1, <1>3 DEF Copied
<1> QED
  BY <1>1, <1>5, <1>10, <1>11 DEF FilesInv, MapsAsserted

LEMMA MkdirMakes ==
  ASSUME FilesInv, NEW t \in Tasks, MkdirMake(t)
  PROVE  /\ Making(t) /\ asserted' /\ lock_vfs = NULL
         /\ \A u \in Tasks \ {t} : call[u] = Idle
         /\ Makes(call[t].father.index, Last(call[t].path), call[t].index, "DR", <<call[t].block>>)
<1>1. DiskInv /\ Copied /\ Locked /\ asserted /\ call[t].pc = "mkdir"
  BY DEF FilesInv, MapsAsserted, MkdirMake
<1>2. lock_vfs = NULL /\ Making(t) /\ \A u \in Tasks \ {t} : call[u] = Idle
  BY <1>1, OnlyOne, InsidePcs
<1> DEFINE f == call[t].father.index
           i == call[t].index
           b == call[t].block
           n == Last(call[t].path)
<1>3. /\ f \in Dirs /\ call[t].father = table[f] /\ i \in Inodes \ imap /\ n \in Names
      /\ HasFather(f) /\ Unused(f, n) /\ b \in Blocks \ dmap
  BY <1>2, FreeHas DEF Making
<1>4. CreateDir(call[t].father, i, b, n)
  BY DEF MkdirMake
<1> HIDE DEF f, i, b, n
<1>5. /\ asserted' = TRUE /\ imap' = imap \cup {i} /\ dmap' = dmap \cup {b}
      /\ table' = Put(Put(table, f, Appended(table[f])), i, NewInode(i, "DR", <<b>>))
      /\ data' = Put(Put(data, b, Dots(i, f)), Block(f), Append(Page(f), Ent(i, n, "DR")))
  BY <1>1, <1>3, <1>4, DirKnown DEF CreateDir, WithEntry
<1>6. /\ data' = [c \in Blocks |-> data'[c]]
      /\ data'[Block(f)] = Append(Page(f), Ent(i, n, "DR"))
      /\ \A c \in dmap \ {Block(f)} : data'[c] = data[c]
      /\ data'[b] = Dots(i, f)
  <2>1. data = [c \in Blocks |-> data[c]] /\ Block(f) \in Blocks /\ Block(f) \in dmap /\ dmap \subseteq Blocks
    BY <1>1, <1>3, DirKnown DEF DiskInv, Typed
  <2> QED
    BY <1>3, <1>5, <2>1 DEF Put
<1> DEFINE link == <<b>>
<1>7. /\ link \in Seq(Blocks) /\ ToSet(link) = {b} /\ Len(link) = 1 /\ link[1] = b
      /\ table' = Put(Put(table, f, Appended(table[f])), i, NewInode(i, "DR", link))
  BY <1>3, <1>5 DEF ToSet
<1> HIDE DEF link
<1>8. ToSet(link) \cap dmap = {} /\ dmap' = dmap \cup ToSet(link)
  BY <1>3, <1>5, <1>7
<1>9. Makes(f, n, i, "DR", link)
  BY <1>3, <1>5, <1>6, <1>7, <1>8 DEF Makes
<1> QED
  BY <1>2, <1>5, <1>9 DEF f, i, b, n, link

(* A step that ends a call which took no lock. *)
LEMMA CallOver ==
  ASSUME Locked, NEW t \in Tasks, \A u \in Tasks \ {t} : call[u] = Idle,
         call' = [call EXCEPT ![t] = Idle], lock_vfs' = NULL
  PROVE  Locked'
<1> DEFINE c == Idle
<1>1. c.pc = "idle" /\ call' = [call EXCEPT ![t] = c]
  BY DEF Idle
<1>2. c = Idle
  OBVIOUS
<1> HIDE DEF c
<1> QED
  BY <1>1, <1>2, StillLocked

LEMMA MkdirKeeps ==
  ASSUME FilesInv, NEW t \in Tasks, MkdirMake(t)
  PROVE  FilesInv'
<1>1. /\ DiskInv /\ Copied /\ Locked /\ asserted' /\ lock_vfs = NULL
      /\ \A u \in Tasks \ {t} : call[u] = Idle
  BY MkdirMakes DEF FilesInv
<1>2. call' = [call EXCEPT ![t] = Idle] /\ UNCHANGED <<flides, lock_vfs>>
  BY DEF MkdirMake
<1>3. DiskInv'
  BY <1>1, MkdirMakes, Created
<1>4. Locked' /\ Copied'
  BY <1>1, <1>2, CallOver DEF Copied
<1> QED
  BY <1>1, <1>3, <1>4 DEF FilesInv, MapsAsserted

LEMMA RmDrops ==
  ASSUME FilesInv, NEW t \in Tasks, RmDo(t)
  PROVE  /\ Removing(t) /\ asserted' /\ lock_vfs = NULL
         /\ \A u \in Tasks \ {t} : call[u] = Idle
         /\ \E x : Drops(x) /\ x.dir = call[t].dir.index /\ x.node = call[t].inode.index
<1>1. DiskInv /\ Copied /\ Locked /\ asserted /\ call[t].pc = "rm"
  BY DEF FilesInv, MapsAsserted, RmDo
<1>2. lock_vfs = NULL /\ Removing(t) /\ \A u \in Tasks \ {t} : call[u] = Idle
  BY <1>1, OnlyOne, InsidePcs
<1>3. Typed /\ Paged /\ Shaped /\ MapsExact
  BY <1>1 DEF DiskInv
<1> DEFINE f == call[t].dir.index
           i == call[t].inode.index
           dirs == Put(table, f, [table[f] EXCEPT !.dir_len = @ - 1])
<1>4. /\ f \in Dirs /\ call[t].dir = table[f] /\ i \in imap /\ call[t].inode = table[i]
      /\ ~NotEmpty(table[i]) /\ Edge(f, Last(call[t].path), i) \in Tree
  BY <1>2 DEF Removing, IsCurrent, IsName
<1>5. PICK k \in 3 .. Len(Page(f)) :
        /\ Live(Page(f)[k]) /\ Page(f)[k].inode = i
        /\ Removed(table[f], i) = [Page(f) EXCEPT ![k].type = "XX"]
  <2> DEFINE y == Edge(f, Last(call[t].path), i)
  <2>1. y \in Tree /\ y.dir = f /\ y.node = i
    BY <1>4 DEF Edge
  <2> HIDE DEF y, f, i
  <2> QED
    BY <1>3, <2>1, RemovedEntry
<1> DEFINE x == Edge(f, Page(f)[k].name, Page(f)[k].inode)
<1>6. x \in Tree /\ x.dir = f /\ x.node = i
  <2>1. x \in Tree
    BY <1>3, <1>4, <1>5, TreeIs
  <2> QED
    BY <1>5, <2>1 DEF Edge
<1>7. table[f].link[1] = Block(f) /\ table[f].index = f
  BY <1>1, <1>4, DirKnown
<1>8. /\ data' = Put(data, Block(f), [Page(f) EXCEPT ![k].type = "XX"])
      /\ \/ /\ LastLink(table[i])
            /\ asserted' = (i \in imap /\ Freed(table[i]) \subseteq dmap)
            /\ imap' = imap \ {i}
            /\ dmap' = dmap \ Freed(table[i])
            /\ table' = dirs
         \/ /\ ~LastLink(table[i])
            /\ table' = Put(dirs, i, [table[i] EXCEPT !.link_num = @ - 1])
            /\ imap' = imap /\ dmap' = dmap /\ asserted' = asserted
  <2>1. /\ data' = Put(data, call[t].dir.link[1], Removed(call[t].dir, call[t].inode.index))
        /\ \/ /\ LastLink(call[t].inode)
              /\ asserted' = (call[t].inode.index \in imap /\ Freed(call[t].inode) \subseteq dmap)
              /\ imap' = imap \ {call[t].inode.index}
              /\ dmap' = dmap \ Freed(call[t].inode)
              /\ table' = Put(table, call[t].dir.index, [call[t].dir EXCEPT !.dir_len = @ - 1])
           \/ /\ ~LastLink(call[t].inode)
              /\ table' = Put(Put(table, call[t].dir.index, [call[t].dir EXCEPT !.dir_len = @ - 1]),
                              call[t].inode.index, [call[t].inode EXCEPT !.link_num = @ - 1])
              /\ imap' = imap /\ dmap' = dmap /\ asserted' = asserted
    BY DEF RmDo
  <2>2. call[t].dir = table[f] /\ call[t].inode = table[i] /\ call[t].dir.index = f /\ call[t].inode.index = i
    BY <1>4
  <2> HIDE DEF f, i, x
  <2> QED
    BY <1>5, <1>7, <2>1, <2>2
<1> HIDE DEF f, i
<1>9. asserted'
  <2>1. Freed(table[i]) \subseteq dmap
    BY <1>1, <1>4 DEF DiskInv, MapsExact, Freed
  <2> QED
    BY <1>1, <1>4, <1>8, <2>1
<1>10. Drops(x)
  <2>1. Live(Page(f)[k]) /\ x = Edge(f, Page(f)[k].name, Page(f)[k].inode) /\ ~NotEmpty(table[i])
    BY <1>4, <1>5
  <2> HIDE DEF x
  <2> QED
    BY <1>6, <1>8, <2>1 DEF Drops
<1> QED
  BY <1>2, <1>6, <1>9, <1>10 DEF f, i

LEMMA RmKeeps ==
  ASSUME FilesInv, NEW t \in Tasks, RmDo(t)
  PROVE  FilesInv'
<1>1. /\ DiskInv /\ Copied /\ Locked /\ asserted' /\ lock_vfs = NULL
      /\ \A u \in Tasks \ {t} : call[u] = Idle
  BY RmDrops DEF FilesInv
<1>2. call' = [call EXCEPT ![t] = Idle] /\ UNCHANGED <<flides, lock_vfs>>
  BY DEF RmDo
<1>3. DiskInv'
  BY <1>1, RmDrops, NameRemoved
<1>4. Locked' /\ Copied'
  BY <1>1, <1>2, CallOver DEF Copied
<1> QED
  BY <1>1, <1>3, <1>4 DEF FilesInv, MapsAsserted

(* What was true of the disk stays true in a step that does not change it. *)
LEMMA SaidStill ==
  ASSUME DiskInv, UNCHANGED disk
  PROVE  /\ \A p, father : IsFree(p, father) => IsFree(p, father)'
         /\ \A p, d, i : IsName(p, d, i) => IsName(p, d, i)'
         /\ \A inode : IsCurrent(inode) => IsCurrent(inode)'
<1>1. imap' = imap /\ table' = table /\ Tree' = Tree /\ Dirs' = Dirs
  BY SameDisk DEF disk
<1> QED
  BY <1>1 DEF IsFree, IsName, InDir, IsCurrent

(* A careful caller's path for a new name is new. *)
LEMMA NewName ==
  ASSUME Careful', UNCHANGED disk, NEW t \in Tasks, NEW p, call'[t].path = p,
         call'[t].pc \in {"mkdir", "link", "entry"}
  PROVE  Lookup(p) = NULL
<1>1. Lookup(p)' = NULL
  BY DEF Careful, NewNames
<1> QED
  BY <1>1, LookupKept

LEMMA NewLink ==
  ASSUME Careful', UNCHANGED disk, NEW t \in Tasks, NEW p, call'[t].new = p,
         call'[t].pc = "slot", p # <<>>
  PROVE  Lookup(p) = NULL /\ call'[t].cur.type = "NF"
<1>1. Lookup(p)' = NULL /\ call'[t].cur.type = "NF"
  BY DEF Careful, NewNames
<1> QED
  BY <1>1, LookupKept

(* A step that only reads, into a call or further into it. *)
LEMMA LookKeeps ==
  ASSUME FilesInv, Careful', NEW t \in Tasks, call[t].pc \notin {"create", "slot"},
         NEW c, c.pc # "idle", call' = [call EXCEPT ![t] = c],
         c.pc \in {"create", "slot"} => Unlocked,
         lock_vfs' = IF c.pc \in {"create", "slot"} THEN t ELSE lock_vfs,
         UNCHANGED <<disk, flides, asserted>>, Inside(t)'
  PROVE  FilesInv'
<1>1. DiskInv /\ Copied /\ Locked /\ asserted
  BY DEF FilesInv, MapsAsserted
<1>2. \A u \in Tasks \ {t} : call[u] = Idle
  BY <1>1, NobodyElse
<1>3. lock_vfs = NULL
  BY <1>1, <1>2 DEF Locked, Idle
<1>4. Locked'
  BY <1>1, <1>2, <1>3, StillLocked
<1>5. DiskInv'
  BY <1>1, SameDisk
<1> QED
  BY <1>1, <1>4, <1>5 DEF FilesInv, MapsAsserted, Copied

LEMMA MkdirLookKeeps ==
  ASSUME FilesInv, Careful', NEW t \in Tasks, NEW p \in Paths, MkdirLook(t, p)
  PROVE  FilesInv'
<1>1. DiskInv /\ Locked /\ UNCHANGED <<disk, flides, asserted>> /\ lock_vfs' = lock_vfs
      /\ call[t] = Idle /\ Fits(p) /\ Inodes \ imap # {} /\ Blocks \ dmap # {}
  BY DEF FilesInv, MkdirLook
<1>2. PICK c : c = [pc |-> "mkdir", path |-> p, father |-> table[Father(p)],
                    index |-> FreeInode, block |-> FreeBlock]
  OBVIOUS
<1>3. call' = [call EXCEPT ![t] = c] /\ call'[t] = c
  BY <1>1, <1>2 DEF MkdirLook, Locked
<1>4. c.pc = "mkdir" /\ c.path = p /\ c.father = table[Father(p)] /\ c.index = FreeInode
      /\ c.block = FreeBlock
  BY <1>2
<1>5. Lookup(p) = NULL
  BY <1>1, <1>3, <1>4, NewName
<1>6. IsFree(p, c.father) /\ c.index \in Inodes \ imap /\ c.block \in Blocks \ dmap
  BY <1>1, <1>4, <1>5, FitsFree, FreeIsFree
<1>7. Making(t)'
  <2>1. IsFree(p, c.father)' /\ imap' = imap /\ dmap' = dmap
    BY <1>1, <1>6, SaidStill DEF disk
  <2> QED
    BY <1>3, <1>4, <1>6, <2>1 DEF Making
<1> QED
  BY <1>1, <1>3, <1>4, <1>7, LookKeeps, InsidePcs DEF Inside

LEMMA RmLookKeeps ==
  ASSUME FilesInv, Careful', NEW t \in Tasks, NEW p \in Paths, RmLook(t, p)
  PROVE  FilesInv'
<1>1. DiskInv /\ Locked /\ UNCHANGED <<disk, flides, asserted>> /\ lock_vfs' = lock_vfs
      /\ call[t] = Idle /\ Proper(p) /\ Lookup(p) # NULL /\ ~NotEmpty(table[Lookup(p)])
  BY DEF FilesInv, RmLook
<1>2. PICK c : c = [pc |-> "rm", path |-> p, dir |-> table[Father(p)], inode |-> table[Lookup(p)]]
  OBVIOUS
<1>3. call' = [call EXCEPT ![t] = c] /\ call'[t] = c
  BY <1>1, <1>2 DEF RmLook, Locked
<1>4. c.pc = "rm" /\ c.path = p /\ c.dir = table[Father(p)] /\ c.inode = table[Lookup(p)]
  BY <1>2
<1>5. /\ c.dir.index \in Dirs /\ c.dir = table[c.dir.index] /\ IsCurrent(c.inode) /\ ~NotEmpty(c.inode)
      /\ IsName(p, c.dir.index, c.inode.index)
  BY <1>1, <1>4, FoundName
<1>6. Removing(t)'
  <2>1. Dirs' = Dirs /\ table' = table
    BY <1>1, SameDisk DEF disk
  <2>2. IsCurrent(c.inode)' /\ IsName(p, c.dir.index, c.inode.index)'
    BY <1>1, <1>5, SaidStill
  <2> QED
    BY <1>3, <1>4, <1>5, <2>1, <2>2 DEF Removing
<1> QED
  BY <1>1, <1>3, <1>4, <1>6, LookKeeps, InsidePcs DEF Inside

LEMMA OpenLookKeeps ==
  ASSUME FilesInv, Careful', NEW t \in Tasks, NEW p \in Paths, NEW q \in Paths \cup {<<>>},
         OpenLook(t, p, q)
  PROVE  FilesInv'
<1>1. /\ DiskInv /\ Locked /\ UNCHANGED <<disk, flides, asserted>> /\ lock_vfs' = t
      /\ call[t] = Idle /\ Unlocked /\ Proper(p) /\ \E s \in Slots : flides[t][s] = NULL
  BY DEF FilesInv, OpenLook
<1>2. CASE /\ Lookup(p) # NULL
           /\ call' = [call EXCEPT ![t] = [pc |-> "slot", path |-> p, new |-> q,
                                           cur |-> table[Lookup(p)]]]
  <2>1. PICK c : c = [pc |-> "slot", path |-> p, new |-> q, cur |-> table[Lookup(p)]]
    OBVIOUS
  <2>2. call' = [call EXCEPT ![t] = c] /\ call'[t] = c
    BY <1>1, <1>2, <2>1 DEF Locked
  <2>3. c.pc = "slot" /\ c.path = p /\ c.new = q /\ c.cur = table[Lookup(p)]
    BY <2>1
  <2>4. PICK d \in Dirs : IsCurrent(c.cur) /\ IsName(p, d, c.cur.index)
    BY <1>1, <1>2, <2>3, FoundName
  <2>5. q # <<>> => c.cur.type = "NF"
    BY <1>1, <2>2, <2>3, NewLink
  <2>6. Opening(t)'
    <3>1. d \in Dirs' /\ IsCurrent(c.cur)' /\ IsName(p, d, c.cur.index)' /\ flides' = flides
      BY <1>1, <2>4, SaidStill, SameDisk
    <3>2. c = [pc |-> "slot", path |-> c.path, new |-> c.new, cur |-> c.cur]
      BY <2>1
    <3> QED
      BY <1>1, <2>2, <2>3, <2>5, <3>1, <3>2 DEF Opening
  <2> QED
    BY <1>1, <2>2, <2>3, <2>6, LookKeeps, InsidePcs DEF Inside
<1>3. CASE /\ Lookup(p) = NULL /\ Fits(p) /\ Inodes \ imap # {}
           /\ call' = [call EXCEPT ![t] = [pc |-> "create", path |-> p,
                                           father |-> table[Father(p)], index |-> FreeInode]]
  <2>1. PICK c : c = [pc |-> "create", path |-> p, father |-> table[Father(p)], index |-> FreeInode]
    OBVIOUS
  <2>2. call' = [call EXCEPT ![t] = c] /\ call'[t] = c
    BY <1>1, <1>3, <2>1 DEF Locked
  <2>3. c.pc = "create" /\ c.path = p /\ c.father = table[Father(p)] /\ c.index = FreeInode
    BY <2>1
  <2>4. IsFree(p, c.father) /\ c.index \in Inodes \ imap
    BY <1>1, <1>3, <2>3, FitsFree, FreeIsFree
  <2>5. Creating(t)'
    <3>1. IsFree(p, c.father)' /\ imap' = imap /\ flides' = flides
      BY <1>1, <2>4, SaidStill DEF disk
    <3>2. c = [pc |-> "create", path |-> c.path, father |-> c.father, index |-> c.index]
      BY <2>1
    <3> QED
      BY <1>1, <2>2, <2>3, <2>4, <3>1, <3>2 DEF Creating
  <2> QED
    BY <1>1, <2>2, <2>3, <2>5, LookKeeps, InsidePcs DEF Inside
<1> QED
  BY <1>2, <1>3 DEF OpenLook

(* get_free_flides finds a free slot where there is one. *)
LEMMA FirstIsFree ==
  ASSUME NEW t, \E s \in Slots : flides[t][s] = NULL
  PROVE  FirstSlot(t) \in Slots /\ flides[t][FirstSlot(t)] = NULL
<1> DEFINE S == {s \in Slots : flides[t][s] = NULL}
<1>1. S # {} /\ S \subseteq Nat
  BY DEF Slots
<1>2. FirstSlot(t) = Min(S)
  BY DEF FirstSlot
<1> HIDE DEF S
<1>3. Min(S) \in S
  BY <1>1, MinIsIn
<1> QED
  BY <1>2, <1>3 DEF S

(* A descriptor is no NULL. *)
LEMMA DescriptorsAre ==
  /\ NULL \notin Descriptors
  /\ \A inode \in Inode : [inode |-> inode, offset |-> 0] \in Descriptors
BY NullAssumption DEF Descriptors, Inode

LEMMA OpenSlotKeeps ==
  ASSUME FilesInv, NEW t \in Tasks, OpenSlot(t)
  PROVE  FilesInv'
<1>1. DiskInv /\ Copied /\ Locked /\ asserted /\ call[t].pc = "slot"
  BY DEF FilesInv, MapsAsserted, OpenSlot
<1>2. Opening(t) /\ \A u \in Tasks \ {t} : call[u] = Idle
  BY <1>1, OnlyOne, InsidePcs
<1>3. PICK s, inode, q : s = FirstSlot(t) /\ inode = call[t].cur /\ q = call[t].new
  OBVIOUS
<1>4. PICK f : f = [inode |-> inode, offset |-> 0]
  OBVIOUS
<1>5. /\ UNCHANGED <<disk, asserted>> /\ lock_vfs' = NULL
      /\ flides' = [flides EXCEPT ![t][s] = f]
      /\ call' = [call EXCEPT ![t] = IF q = <<>> THEN Idle ELSE [pc |-> "link", path |-> q, slot |-> s]]
  BY <1>3, <1>4 DEF OpenSlot
<1>6. s \in Slots /\ inode \in Inode /\ IsCurrent(inode)
      /\ q \in Paths \cup {<<>>} /\ (q # <<>> => inode.type = "NF")
  <2>1. s \in Slots
    BY <1>2, <1>3, FirstIsFree DEF Opening
  <2>2. IsCurrent(inode) /\ q \in Paths \cup {<<>>} /\ (q # <<>> => inode.type = "NF")
    BY <1>2, <1>3 DEF Opening
  <2>3. inode \in Inode
    BY <1>1, <2>2 DEF IsCurrent, DiskInv, Typed
  <2> QED
    BY <2>1, <2>2, <2>3
<1>7. f \in Descriptors /\ f # NULL
  BY <1>4, <1>6, DescriptorsAre
<1>8. Copied' /\ DiskInv'
  BY <1>1, <1>5, <1>7, DescriptorPut, SameDisk
<1>9. Locked'
  <2>1. CASE q = <<>>
    BY <1>1, <1>2, <1>5, <2>1, CallOver
  <2>2. CASE q # <<>>
    <3>1. PICK c : c = [pc |-> "link", path |-> q, slot |-> s]
      OBVIOUS
    <3>2. call' = [call EXCEPT ![t] = c] /\ call'[t] = c
      BY <1>1, <1>5, <2>2, <3>1 DEF Locked
    <3>3. flides'[t][s] = f
      BY <1>1, <1>5, <1>6 DEF Copied
    <3>4. IsCurrent(inode)'
      BY <1>1, <1>5, <1>6, SaidStill
    <3>5. Linking(t)'
      <4>1. c.pc = "link" /\ c.path = q /\ c.slot = s /\ f.inode = inode
            /\ c = [pc |-> "link", path |-> c.path, slot |-> c.slot]
        BY <1>4, <3>1
      <4>2. HasFile(t)'
        BY <1>6, <1>7, <2>2, <3>2, <3>3, <3>4, <4>1 DEF HasFile
      <4> QED
        BY <1>6, <2>2, <3>2, <4>1, <4>2 DEF Linking
    <3>6. c.pc = "link" /\ Inside(t)'
      BY <3>1, <3>5 DEF Inside
    <3> QED
      BY <1>1, <1>2, <1>5, <3>2, <3>6, StillLocked
  <2> QED
    BY <2>1, <2>2
<1> QED
  BY <1>1, <1>5, <1>8, <1>9 DEF FilesInv, MapsAsserted

LEMMA LinkLookKeeps ==
  ASSUME FilesInv, Careful', NEW t \in Tasks, LinkLook(t)
  PROVE  FilesInv'
<1>1. DiskInv /\ Locked /\ UNCHANGED <<disk, flides, asserted>> /\ lock_vfs' = lock_vfs
      /\ call[t].pc = "link" /\ Fits(call[t].path)
  BY DEF FilesInv, LinkLook
<1>2. Linking(t)
  BY <1>1, OnlyOne, InsidePcs
<1>3. PICK p, s : p = call[t].path /\ s = call[t].slot
  OBVIOUS
<1>4. PICK c : c = [pc |-> "entry", path |-> p, slot |-> s, father |-> table[Father(p)]]
  OBVIOUS
<1>5. call' = [call EXCEPT ![t] = c] /\ call'[t] = c
  BY <1>1, <1>3, <1>4 DEF LinkLook, Locked
<1>6. c.pc = "entry" /\ c.path = p /\ c.slot = s /\ c.father = table[Father(p)]
  BY <1>4
<1>7. p \in Paths /\ Lookup(p) = NULL
  BY <1>1, <1>2, <1>3, <1>5, <1>6, NewName DEF Linking
<1>8. IsFree(p, c.father)
  BY <1>1, <1>3, <1>6, <1>7, FitsFree
<1>9. Entering(t)'
  <2>1. IsFree(p, c.father)' /\ flides' = flides
    BY <1>1, <1>8, SaidStill
  <2>2. HasFile(t)'
    <3>1. PICK inode : inode = flides[t][s].inode
      OBVIOUS
    <3>2. /\ s \in Slots /\ flides[t][s] # NULL /\ inode.type = "NF" /\ IsCurrent(inode)
      BY <1>2, <1>3, <3>1 DEF Linking, HasFile
    <3>3. IsCurrent(inode)'
      BY <1>1, <3>2, SaidStill
    <3> QED
      BY <1>5, <1>6, <2>1, <3>1, <3>2, <3>3 DEF HasFile
  <2> QED
    BY <1>5, <1>6, <2>1, <2>2 DEF Entering
<1> QED
  BY <1>1, <1>5, <1>6, <1>9, LookKeeps DEF Inside

LEMMA LinkAdds ==
  ASSUME FilesInv, NEW t \in Tasks, LinkEntry(t),
         NEW s, s = call[t].slot, NEW f, f = flides[t][s], NEW i, i = f.inode.index
  PROVE  /\ Entering(t) /\ lock_vfs = NULL /\ s \in Slots /\ f \in Descriptors
         /\ i \in imap /\ f.inode = table[i]
         /\ \A u \in Tasks \ {t} : call[u] = Idle
         /\ Adds(call[t].father.index, Last(call[t].path), i)
<1>1. DiskInv /\ Copied /\ Locked /\ call[t].pc = "entry"
  BY DEF FilesInv, LinkEntry
<1>2. Entering(t) /\ lock_vfs = NULL /\ \A u \in Tasks \ {t} : call[u] = Idle
  BY <1>1, OnlyOne, InsidePcs
<1>3. /\ s \in Slots /\ f \in Descriptors /\ i \in imap /\ f.inode = table[i]
      /\ table[i].type = "NF" /\ IsFree(call[t].path, call[t].father)
  BY <1>1, <1>2 DEF Entering, HasFile, IsCurrent, Copied
<1>4. PICK father, d, n : father = call[t].father /\ d = father.index /\ n = Last(call[t].path)
  OBVIOUS
<1>5. d \in Dirs /\ father = table[d] /\ n \in Names /\ HasFather(d) /\ Unused(d, n)
  BY <1>3, <1>4, FreeHas
<1>6. i \in Inodes /\ table[i] \in Inode /\ table[i].index = i /\ i # 0
  BY <1>1, <1>3 DEF DiskInv, Typed, Named, Shaped, Dirs
<1>7. /\ table[d].index = d /\ table[d].link[1] = Block(d) /\ Entries(table[d]) = Page(d)
      /\ Linked(table[i]).index = i
  <2>1. Linked(table[i]).index = i
    BY <1>6, LinkedMade
  <2> QED
    BY <1>1, <1>5, <2>1, DirKnown
<1>8. /\ data' = Put(data, father.link[1], WithEntry(father, Ent(Linked(f.inode).index, n, "NF")))
      /\ table' = Put(Put(table, father.index, Appended(father)), Linked(f.inode).index, Linked(f.inode))
      /\ imap' = imap /\ dmap' = dmap
  BY <1>4 DEF LinkEntry
<1>9. /\ table' = Put(Put(table, d, Appended(table[d])), i, Linked(table[i]))
      /\ data' = Put(data, Block(d), Append(Page(d), Ent(i, n, "NF")))
  BY <1>3, <1>5, <1>7, <1>8 DEF WithEntry
<1>10. Adds(d, n, i)
  BY <1>3, <1>5, <1>6, <1>8, <1>9 DEF Adds
<1> QED
  BY <1>2, <1>3, <1>4, <1>8, <1>9, <1>10

LEMMA LinkKeeps ==
  ASSUME FilesInv, NEW t \in Tasks, LinkEntry(t)
  PROVE  FilesInv'
<1>1. DiskInv /\ Copied /\ Locked /\ asserted
  BY DEF FilesInv, MapsAsserted
<1>2. PICK s, f, i : s = call[t].slot /\ f = flides[t][s] /\ i = f.inode.index
  OBVIOUS
<1>3. PICK inode : inode = Linked(table[i])
  OBVIOUS
<1>4. /\ lock_vfs = NULL /\ f \in Descriptors /\ f.inode = table[i]
      /\ \A u \in Tasks \ {t} : call[u] = Idle
      /\ Adds(call[t].father.index, Last(call[t].path), i)
  BY <1>2, LinkAdds
<1>5. /\ flides' = [flides EXCEPT ![t][s].inode = inode]
       /\ call' = [call EXCEPT ![t] = Idle] /\ UNCHANGED <<lock_vfs, asserted>>
  BY <1>2, <1>3, <1>4 DEF LinkEntry
<1>6. DiskInv' /\ Locked'
  BY <1>1, <1>4, <1>5, NameMade, CallOver
<1>7. Copied'
  <2> DEFINE c == [f EXCEPT !.inode = inode]
  <2>1. inode \in Inode /\ inode.size = f.inode.size
    BY <1>3, <1>4, LinkedMade DEF Descriptors
  <2>2. c \in Descriptors
    BY <1>4, <2>1 DEF Descriptors
  <2>3. flides' = [flides EXCEPT ![t][s] = c]
    BY <1>2, <1>5
  <2> HIDE DEF c
  <2> QED
    BY <1>1, <2>2, <2>3, DescriptorPut
<1> QED
  BY <1>1, <1>5, <1>6, <1>7 DEF FilesInv, MapsAsserted

LEMMA CloseKeeps ==
  ASSUME FilesInv, NEW t \in Tasks, NEW s \in Slots, Close(t, s)
  PROVE  FilesInv'
<1>1. DiskInv /\ Copied /\ Locked /\ asserted
  BY DEF FilesInv, MapsAsserted
<1>2. UNCHANGED <<disk, lock_vfs, call, asserted>> /\ flides' = [flides EXCEPT ![t][s] = NULL]
      /\ call[t] = Idle
  BY DEF Close
<1>3. DiskInv' /\ Locked'
  BY <1>1, <1>2, SameDisk, OtherInside
<1>4. Copied'
  <2> DEFINE c == NULL
  <2>1. c \in Descriptors \cup {NULL} /\ flides' = [flides EXCEPT ![t][s] = c]
    BY <1>2
  <2> HIDE DEF c
  <2> QED
    BY <1>1, <2>1, DescriptorPut
<1> QED
  BY <1>1, <1>2, <1>3, <1>4 DEF FilesInv, MapsAsserted

LEMMA SoughtWithin ==
  ASSUME NEW f \in Descriptors, NEW whence \in {"S_SET", "S_CUR", "S_END"}, NEW x \in Int
  PROVE  Sought(f, whence, x) \in Nat /\ Sought(f, whence, x) <= f.inode.size
<1>1. f.offset \in Nat /\ f.inode.size \in Nat
  BY DEF Descriptors, Inode
<1>2. ASSUME NEW y \in Int, NEW size \in Nat PROVE Clamp(y, size) \in Nat /\ Clamp(y, size) <= size
  <2> DEFINE m == Min({y, size})
  <2>1. m = (IF y <= size THEN y ELSE size) /\ m \in Int
    BY MinOfTwo
  <2> HIDE DEF m
  <2>2. Max({m, 0}) = IF m >= 0 THEN m ELSE 0
    BY <2>1, MaxOfTwo
  <2> QED
    BY <2>1, <2>2 DEF Clamp, m
<1>3. f.offset + x \in Int /\ f.inode.size + x \in Int
  BY <1>1
<1> QED
  BY <1>1, <1>2, <1>3 DEF Sought

LEMMA LseekKeeps ==
  ASSUME FilesInv, NEW t \in Tasks, NEW s \in Slots,
         NEW whence \in {"S_SET", "S_CUR", "S_END"}, NEW x \in Int, Lseek(t, s, whence, x)
  PROVE  FilesInv'
<1>1. DiskInv /\ Copied /\ Locked /\ asserted
  BY DEF FilesInv, MapsAsserted
<1> DEFINE f == flides[t][s]
           c == [f EXCEPT !.offset = Sought(f, whence, x)]
<1>2. UNCHANGED <<disk, lock_vfs, call, asserted>> /\ flides' = [flides EXCEPT ![t][s] = c]
      /\ call[t] = Idle
  BY DEF Lseek
<1>3. DiskInv' /\ Locked'
  <2> HIDE DEF c
  <2> QED
    BY <1>1, <1>2, SameDisk, OtherInside
<1>4. Copied'
  <2>1. f \in Descriptors
    BY <1>1 DEF Copied, Lseek
  <2>2. c \in Descriptors
    BY <2>1, SoughtWithin DEF Descriptors
  <2> HIDE DEF c
  <2> QED
    BY <1>1, <1>2, <2>2, DescriptorPut
<1> QED
  BY <1>1, <1>2, <1>3, <1>4 DEF FilesInv, MapsAsserted

LEMMA WritesAre == \A w \in Writes : w \in Seq(Chars) /\ Len(w) \in Nat \ {0}
<1> SUFFICES ASSUME NEW w \in Writes PROVE w \in Seq(Chars) /\ Len(w) \in Nat \ {0}
  OBVIOUS
<1>1. PICK m \in 0 .. BLOCK_BYTES : w \in [1 .. m -> Chars]
  BY DEF Writes, BoundedSeq, SeqOf
<1>2. w # <<>>
  BY DEF Writes
<1>3. m \in Nat
  BY <1>1, FilesAssumption
<1>4. w \in Seq(Chars)
  BY <1>1, <1>3
<1>5. Len(w) \in Nat \ {0}
  BY <1>2, <1>4, EmptySeq
<1> QED
  BY <1>4, <1>5

(* The blocks of a file after a write through descriptor f, and what is then in the one it
   fills. *)
WithTarget(f) == IF NeedsBlock(f.inode, f.offset) THEN Append(f.inode.link, Target(f)) ELSE f.inode.link

Filling(f, w) == Over(IF NeedsBlock(f.inode, f.offset) THEN <<>> ELSE data[Target(f)], Remain(f.offset), w)

LEMMA WriteFills ==
  ASSUME FilesInv, NEW t \in Tasks, NEW w \in Writes, WriteDo(t, w)
  PROVE  LET s == call[t].slot
             f == flides[t][s]
             i == f.inode.index
         IN  /\ lock_vfs = NULL /\ \A u \in Tasks \ {t} : call[u] = Idle
             /\ s \in Slots /\ f \in Descriptors /\ f.inode = table[i]
             /\ asserted' /\ UNCHANGED <<imap, lock_vfs>>
             /\ Len(w) \in Nat \ {0} /\ Remain(f.offset) + Len(w) <= BLOCK_BYTES
             /\ IF NeedsBlock(f.inode, f.offset) THEN Target(f) \in Blocks \ dmap
                ELSE f.offset \div BLOCK_BYTES + 1 \in 1 .. Len(f.inode.link)
             /\ Fills(i, Target(f), WithTarget(f), f.offset + Len(w), Filling(f, w))
             /\ flides' = [flides EXCEPT ![t][s].inode =
                             Grown([table[i] EXCEPT !.link = WithTarget(f)], f.offset + Len(w))]
<1>1. DiskInv /\ Copied /\ Locked /\ call[t].pc = "write"
  BY DEF FilesInv, WriteDo
<1>2. Typed /\ Sized /\ BlocksExact
  BY <1>1, MapsSplit DEF DiskInv
<1> DEFINE s == call[t].slot
           f == flides[t][s]
           i == f.inode.index
           new == NeedsBlock(f.inode, f.offset)
           b == Target(f)
           link == IF new THEN Append(f.inode.link, b) ELSE f.inode.link
           size == f.offset + Len(w)
           here == Over(IF new THEN <<>> ELSE data[b], Remain(f.offset), w)
           inode == Grown([f.inode EXCEPT !.link = link], size)
<1>3. /\ Writing(t) /\ lock_vfs = NULL /\ \A u \in Tasks \ {t} : call[u] = Idle
      /\ s \in Slots /\ f \in Descriptors /\ i \in imap /\ f.inode = table[i] /\ table[i].type = "NF"
      /\ call[t].block = b /\ (new => b \in Blocks \ dmap)
  <2>1. Writing(t) /\ lock_vfs = NULL /\ \A u \in Tasks \ {t} : call[u] = Idle
    BY <1>1, OnlyOne, InsidePcs
  <2>2. HasFile(t) /\ call[t].block = b /\ (new => b \in Blocks \ dmap)
    BY <2>1 DEF Writing
  <2>3. s \in Slots /\ f # NULL /\ f.inode.type = "NF" /\ IsCurrent(f.inode)
    BY <2>2 DEF HasFile
  <2>4. f \in Descriptors /\ i \in imap /\ f.inode = table[i]
    BY <1>1, <2>3 DEF Copied, IsCurrent
  <2> HIDE DEF s, f, b, new
  <2> QED
    BY <2>1, <2>2, <2>3, <2>4
<1>4. /\ Remain(f.offset) + Len(w) <= BLOCK_BYTES
      /\ asserted' = (new => b \notin dmap)
      /\ dmap' = dmap \cup {b}
      /\ data' = Put(data, b, here)
      /\ flides' = [flides EXCEPT ![t][s].inode = inode]
      /\ table' = IF inode.size > f.inode.size THEN Put(table, inode.index, inode) ELSE table
      /\ imap' = imap /\ UNCHANGED lock_vfs
  <2>1. PICK c : c = call[t].block
    OBVIOUS
  <2>2. [f.inode EXCEPT !.link = IF new THEN Append(@, c) ELSE @]
          = [f.inode EXCEPT !.link = IF new THEN Append(f.inode.link, c) ELSE f.inode.link]
    OBVIOUS
  <2>3. LET grown == Grown([f.inode EXCEPT !.link = IF new THEN Append(f.inode.link, c) ELSE f.inode.link],
                           size)
        IN  /\ Remain(f.offset) + Len(w) <= BLOCK_BYTES
            /\ asserted' = (new => c \notin dmap)
            /\ dmap' = dmap \cup {c}
            /\ data' = Put(data, c, Over(IF new THEN <<>> ELSE data[c], Remain(f.offset), w))
            /\ flides' = [flides EXCEPT ![t][s].inode = grown]
            /\ table' = IF grown.size > f.inode.size THEN Put(table, grown.index, grown) ELSE table
            /\ imap' = imap /\ UNCHANGED lock_vfs
    BY <2>1, <2>2 DEF WriteDo
  <2>4. c = b
    BY <1>3, <2>1
  <2> HIDE DEF b, f, new, size, s
  <2> QED
    BY <2>3, <2>4
<1> DEFINE o == f.offset
           n == Len(f.inode.link)
<1>5. /\ o \in Nat /\ f.inode \in Inode /\ o <= f.inode.size /\ f.inode.size \in Nat
      /\ f.inode.link \in Seq(Blocks) /\ n \in Nat /\ Len(w) \in Nat \ {0}
      /\ f.inode.size <= n * BLOCK_BYTES /\ BLOCK_BYTES \in Nat \ {0}
      /\ Remain(o) \in Nat
  <2>1. o \in Nat /\ f.inode \in Inode /\ o <= f.inode.size
    BY <1>3 DEF Descriptors
  <2>2. f.inode.size <= n * BLOCK_BYTES
    BY <1>2, <1>3 DEF Sized
  <2>3. BLOCK_BYTES \in Nat \ {0}
    BY FilesAssumption
  <2>4. Remain(o) \in Nat
    BY <2>1, <2>3 DEF Remain
  <2>5. f.inode.size \in Nat /\ f.inode.link \in Seq(Blocks)
    BY <2>1 DEF Inode
  <2> HIDE DEF o
  <2> QED
    BY <2>1, <2>2, <2>3, <2>4, <2>5, WritesAre, LenProperties
<1>51. ~new => o \div BLOCK_BYTES + 1 \in 1 .. n /\ o + Len(w) <= n * BLOCK_BYTES
  <2> SUFFICES ASSUME ~new PROVE o \div BLOCK_BYTES + 1 \in 1 .. n /\ o + Len(w) <= n * BLOCK_BYTES
    OBVIOUS
  <2> DEFINE end == n * BLOCK_BYTES
  <2>1. ~(o >= end)
    BY DEF NeedsBlock
  <2>2. o \in Nat /\ n \in Nat /\ BLOCK_BYTES \in Nat
    BY <1>5
  <2>3. o < n * BLOCK_BYTES
    <3> HIDE DEF o, n
    <3>1. end \in Nat
      BY <2>2
    <3> HIDE DEF end
    <3> QED
      BY <2>1, <2>2, <3>1 DEF end
  <2> QED
    BY <1>4, <1>5, <2>3, WithinBlocks
<1>6. /\ b \in Blocks /\ link \in Seq(Blocks) /\ size \in Nat
      /\ \/ b \in ToSet(table[i].link) /\ link = table[i].link
         \/ b \notin dmap /\ link = Append(table[i].link, b) /\ size > table[i].size
      /\ size <= Len(link) * BLOCK_BYTES /\ table[i].size <= Len(link) * BLOCK_BYTES
  <2>1. CASE new
    <3>1. b \in Blocks \ dmap
      BY <1>3, <2>1
    <3>2. link = Append(f.inode.link, b) /\ link \in Seq(Blocks) /\ Len(link) = n + 1
      <4>1. link = Append(f.inode.link, b)
        BY <2>1
      <4>2. f.inode.link \in Seq(Blocks) /\ b \in Blocks /\ n = Len(f.inode.link)
        BY <1>5, <3>1
      <4> DEFINE old == f.inode.link
      <4> HIDE DEF b, link, f, n, old
      <4>3. old \in Seq(Blocks) /\ n = Len(old) /\ link = Append(old, b) /\ b \in Blocks
        BY <4>1, <4>2 DEF old
      <4>4. link \in Seq(Blocks) /\ Len(link) = n + 1
        BY <4>3, AppendProperties
      <4> QED
        BY <4>1, <4>4
    <3>3. o >= n * BLOCK_BYTES
      BY <2>1 DEF NeedsBlock
    <3> DEFINE B == BLOCK_BYTES
               z == f.inode.size
               l == Len(w)
               r == Remain(o)
    <3>4. /\ o \in Nat /\ z \in Nat /\ n \in Nat /\ l \in Nat \ {0} /\ B \in Nat \ {0} /\ r \in Nat
          /\ o <= z /\ z <= n * B /\ o >= n * B /\ r + l <= B
      BY <1>4, <1>5, <3>3
    <3> HIDE DEF B, z, l, r, n, o
    <3>5. n * B \in Nat /\ (n + 1) * B = n * B + B
      BY <3>4
    <3>6. o + l \in Nat /\ o + l > z /\ o + l <= (n + 1) * B /\ z <= (n + 1) * B
      BY <3>4, <3>5
    <3>7. size \in Nat /\ size > f.inode.size /\ size <= (n + 1) * BLOCK_BYTES
          /\ f.inode.size <= (n + 1) * BLOCK_BYTES
      BY <3>6 DEF B, z, l, o
    <3> HIDE DEF size, link, b
    <3> QED
      BY <1>3, <3>1, <3>2, <3>7
  <2>2. CASE ~new
    <3>3. b = f.inode.link[o \div BLOCK_BYTES + 1] /\ link = f.inode.link
      BY <2>2 DEF Target
    <3>4. b \in ToSet(f.inode.link) /\ b \in Blocks
      <4> DEFINE k == o \div BLOCK_BYTES + 1
      <4>1. k \in 1 .. Len(f.inode.link) /\ b = f.inode.link[k]
        BY <1>51, <2>2, <3>3
      <4> HIDE DEF k, b
      <4> QED
        BY <1>5, <4>1, ElementOfSeq DEF ToSet
    <3>5. size \in Nat /\ size <= n * BLOCK_BYTES
      <4>1. o + Len(w) <= n * BLOCK_BYTES /\ size = o + Len(w) /\ o \in Nat /\ Len(w) \in Nat
        BY <1>5, <1>51, <2>2
      <4> HIDE DEF size, o, n
      <4> QED
        BY <4>1
    <3> HIDE DEF size, link, b
    <3> QED
      BY <1>3, <1>5, <3>3, <3>4, <3>5
  <2> QED
    BY <2>1, <2>2
<1>7. /\ inode = Grown([table[i] EXCEPT !.link = link], size)
      /\ table' = IF inode.size > table[i].size THEN Put(table, i, inode) ELSE table
      /\ inode \in Inode /\ inode.size >= table[i].size
  <2>1. inode = Grown([table[i] EXCEPT !.link = link], size)
    BY <1>3
  <2>2. table[i] \in Inode
    BY <1>3, <1>5
  <2>3. table[i].size \in Nat
    BY <2>2 DEF Inode
  <2> HIDE DEF f, i, new, b, here, o, n, inode, link, size
  <2>4. inode \in Inode /\ inode.index = table[i].index /\ inode.size >= table[i].size
    <3>1. link \in Seq(Blocks) /\ size \in Nat
      BY <1>6
    <3>2. inode \in Inode /\ inode.index = table[i].index
      BY <2>1, <2>2, <3>1, GrownMade
    <3>3. inode.size = IF size >= table[i].size THEN size ELSE table[i].size
      BY <2>1, <2>2, <3>1, GrownMade
    <3> QED
      BY <2>3, <3>1, <3>2, <3>3
  <2>5. table[i].index = i
    BY <1>1, <1>3 DEF DiskInv, Named
  <2> QED
    BY <1>3, <1>4, <2>1, <2>4, <2>5
<1>8. Fills(i, b, link, size, here)
  <2>1. dmap' = dmap \cup {b} /\ data' = Put(data, b, here) /\ imap' = imap
    BY <1>4
  <2>2. table' = LET grown == Grown([table[i] EXCEPT !.link = link], size)
                 IN  IF grown.size > table[i].size THEN Put(table, i, grown) ELSE table
    BY <1>7
  <2> HIDE DEF i, b, link, size, here, inode
  <2> QED
    BY <1>3, <1>6, <2>1, <2>2 DEF Fills
<1>9. IF new THEN b \in Blocks \ dmap ELSE o \div BLOCK_BYTES + 1 \in 1 .. n
  <2>1. new => b \in Blocks \ dmap
    BY <1>3
  <2> QED
    BY <1>51, <2>1
<1>10. flides' = [flides EXCEPT ![t][s].inode = Grown([table[i] EXCEPT !.link = link], size)]
  BY <1>4, <1>7
<1>11. Len(w) \in Nat \ {0} /\ Remain(f.offset) + Len(w) <= BLOCK_BYTES
  BY <1>4, <1>5
<1> HIDE DEF s, f, i, new, b, here, o, n, inode, link, size
<1>12. /\ lock_vfs = NULL /\ \A u \in Tasks \ {t} : call[u] = Idle
       /\ s \in Slots /\ f \in Descriptors /\ f.inode = table[i]
       /\ asserted' /\ UNCHANGED <<imap, lock_vfs>>
       /\ Len(w) \in Nat \ {0} /\ Remain(f.offset) + Len(w) <= BLOCK_BYTES
       /\ IF new THEN b \in Blocks \ dmap ELSE f.offset \div BLOCK_BYTES + 1 \in 1 .. n
       /\ Fills(i, b, link, size, here)
       /\ flides' = [flides EXCEPT ![t][s].inode = Grown([table[i] EXCEPT !.link = link], size)]
  BY <1>3, <1>4, <1>8, <1>9, <1>10, <1>11 DEF o
<1>13. b = Target(f) /\ link = WithTarget(f) /\ here = Filling(f, w)
  BY DEF WithTarget, Filling, new, b, here, o, n, link, size
<1> QED
  BY <1>12, <1>13 DEF s, f, i, new, b, n, size

LEMMA WriteKeeps ==
  ASSUME FilesInv, NEW t \in Tasks, NEW w \in Writes, WriteDo(t, w)
  PROVE  FilesInv'
<1>1. DiskInv /\ Copied /\ Locked
  BY DEF FilesInv
<1> DEFINE s == call[t].slot
           f == flides[t][s]
           i == f.inode.index
           link == WithTarget(f)
           size == f.offset + Len(w)
           inode == Grown([table[i] EXCEPT !.link = link], size)
<1>2. /\ lock_vfs = NULL /\ f \in Descriptors /\ f.inode = table[i]
      /\ (\A u \in Tasks \ {t} : call[u] = Idle) /\ asserted' /\ UNCHANGED lock_vfs
      /\ Fills(i, Target(f), link, size, Filling(f, w))
      /\ flides' = [flides EXCEPT ![t][s].inode = inode]
  BY WriteFills
<1>3. call' = [call EXCEPT ![t] = Idle]
  BY DEF WriteDo
<1> HIDE DEF s, i, link, size
<1>4. DiskInv'
  BY <1>1, <1>2, TextWritten
<1>5. Locked'
  BY <1>1, <1>2, <1>3, CallOver
<1>6. Copied'
  <2> DEFINE c == [f EXCEPT !.inode = inode]
  <2>1. f.offset \in Nat /\ f.inode \in Inode /\ f.inode.size \in Nat /\ f.offset <= f.inode.size
    BY <1>2 DEF Descriptors, Inode
  <2>2. inode \in Inode /\ inode.size >= f.inode.size /\ inode.size \in Nat
    <3>1. inode \in Inode /\ inode.size = (IF size >= table[i].size THEN size ELSE table[i].size)
      BY <1>2, <2>1, GrownMade DEF Fills
    <3>2. size \in Nat
      BY <1>2 DEF Fills
    <3> HIDE DEF inode
    <3> QED
      BY <1>2, <2>1, <3>1, <3>2
  <2> HIDE DEF inode
  <2>3. f.offset <= inode.size
    <3> DEFINE o == f.offset
               z == f.inode.size
    <3> HIDE DEF o, z
    <3>1. o <= inode.size
      BY <2>1, <2>2 DEF o, z
    <3> QED
      BY <3>1 DEF o
  <2>4. c \in Descriptors
    BY <1>2, <2>1, <2>2, <2>3 DEF Descriptors
  <2>5. flides' = [flides EXCEPT ![t][s] = c]
    BY <1>2
  <2> HIDE DEF c
  <2> QED
    BY <1>1, <2>4, <2>5, DescriptorPut
<1> QED
  BY <1>2, <1>4, <1>5, <1>6 DEF FilesInv, MapsAsserted

LEMMA WriteLookKeeps ==
  ASSUME FilesInv, Careful', NEW t \in Tasks, NEW s \in Slots, WriteLook(t, s)
  PROVE  FilesInv'
<1>1. DiskInv /\ Copied /\ Locked /\ UNCHANGED <<disk, flides, asserted>> /\ lock_vfs' = lock_vfs
      /\ call[t] = Idle
  BY DEF FilesInv, WriteLook
<1>2. PICK f : f = flides[t][s]
  OBVIOUS
<1>3. PICK c : c = [pc |-> "write", slot |-> s, block |-> Target(f)]
  OBVIOUS
<1>4. f # NULL /\ f.inode.type = "NF" /\ (NeedsBlock(f.inode, f.offset) => Blocks \ dmap # {})
  BY <1>2 DEF WriteLook
<1>5. call' = [call EXCEPT ![t] = c] /\ call'[t] = c
  BY <1>1, <1>2, <1>3 DEF WriteLook, Locked
<1>6. c.pc = "write" /\ c.slot = s /\ c.block = Target(f)
  BY <1>3
<1>7. Writing(t)'
  <2>1. flides' = flides /\ imap' = imap /\ dmap' = dmap /\ table' = table
    BY <1>1 DEF disk
  <2>2. f.inode.index \in imap' /\ f.inode = table'[f.inode.index]
    <3>1. Current(t, s)'
      BY <1>5, <1>6 DEF Careful, Fresh
    <3> QED
      BY <1>2, <2>1, <3>1 DEF Current
  <2>3. HasFile(t)'
    BY <1>2, <1>4, <1>5, <1>6, <2>1, <2>2 DEF HasFile, IsCurrent
  <2>4. Target(f)' = Target(f)
    BY <2>1 DEF Target, FreeBlock
  <2>5. NeedsBlock(f.inode, f.offset) => Target(f) \in Blocks \ dmap
    BY <1>4, FreeIsFree DEF Target
  <2> QED
    BY <1>2, <1>5, <1>6, <2>1, <2>3, <2>4, <2>5 DEF Writing
<1> QED
  BY <1>1, <1>5, <1>6, <1>7, LookKeeps, InsidePcs DEF Inside

LEMMA InitHolds == Init => FilesInv
<1> SUFFICES ASSUME Init PROVE FilesInv
  OBVIOUS
<1>1. 0 \in Inodes /\ 0 \in Blocks
  BY FilesAssumption DEF Inodes, Blocks
<1> DEFINE root == NewInode(0, "DR", <<0>>)
           free == [NewInode(0, "NF", <<>>) EXCEPT !.link_num = 0]
<1>2. /\ root \in Inode /\ free \in Inode
      /\ root.index = 0 /\ root.type = "DR" /\ root.link = <<0>> /\ root.size = 2
      /\ root.dir_len = 2 /\ root.link_num = 1
  <2>1. <<0>> \in Seq(Blocks) /\ <<>> \in Seq(Blocks) /\ Len(<<0>>) = 1
    BY <1>1
  <2>2. root \in Inode /\ NewInode(0, "NF", <<>>) \in Inode
    BY <1>1, <2>1, InodesMade
  <2>3. free \in Inode
    BY <2>2 DEF Inode
  <2>4. /\ root.index = 0 /\ root.type = "DR" /\ root.link = <<0>> /\ root.size = 2
        /\ root.dir_len = 2 /\ root.link_num = 1
    BY <2>1 DEF NewInode
  <2> QED
    BY <2>2, <2>3, <2>4
<1> HIDE DEF root, free
<1>3. imap = {0} /\ dmap = {0} /\ table[0] = root /\ table \in [Inodes -> Inode]
  BY <1>1, <1>2 DEF Init, root, free
<1>4. data = [b \in Blocks |-> data[b]] /\ data[0] = Dots(0, 0)
  BY <1>1 DEF Init
<1>5. Dirs = {0} /\ Block(0) = 0 /\ Page(0) = Dots(0, 0)
  BY <1>2, <1>3, <1>4 DEF Dirs, Block, Page
<1>6. /\ Dots(0, 0) \in Seq(Entry) /\ Len(Dots(0, 0)) = 2
      /\ Dots(0, 0)[1] = Ent(0, ".", "DR") /\ Dots(0, 0)[2] = Ent(0, "..", "DR")
  BY <1>1 DEF Dots, Ent, Entry
<1>7. Typed /\ Named
  BY <1>1, <1>2, <1>3, <1>4 DEF Typed, Named
<1>8. Paged
  <2>1. /\ Len(table[0].link) = 1 /\ table[0].size = 2
        /\ Page(0)[2].name = ".." /\ Live(Page(0)[2])
    <3>1. Len(<<0>>) = 1
      OBVIOUS
    <3>2. Ent(0, "..", "DR").name = ".." /\ Live(Ent(0, "..", "DR"))
      BY DEF Ent, Live
    <3> QED
      BY <1>2, <1>3, <1>5, <1>6, <3>1, <3>2
  <2>2. DirShape(0)
    BY <1>1, <1>5, <1>6, <2>1 DEF DirShape
  <2> QED
    BY <1>5, <2>2 DEF Paged
<1>9. Tree = {}
  <2>1. \A d \in Dirs : Len(Page(d)) = 2
    BY <1>5, <1>6
  <2>2. 3 .. 2 = {}
    OBVIOUS
  <2>3. \A d \in Dirs : 3 .. Len(Page(d)) = {}
    BY <2>1, <2>2
  <2> QED
    BY <1>8, <2>3, TreeIs
<1>10. Shaped
  <2>1. IsFiniteSet(Tree)
    BY <1>9, FS_EmptySet
  <2> QED
    BY <1>2, <1>3, <1>5, <1>6, <1>9, <2>1 DEF Shaped, Ent
<1>11. MapsExact
  <2>1. ToSet(table[0].link) = {0}
    BY <1>2, <1>3 DEF ToSet
  <2> QED
    BY <1>3, <1>9, <2>1 DEF MapsExact
<1>12. LinksCounted
  <2>1. Cardinality(Below(Tree, 0)) = 0
    <3>1. Below(Tree, 0) = {}
      BY <1>9 DEF Below
    <3> QED
      BY <3>1, FS_EmptySet
  <2>2. AllLinks
    BY <1>2, <1>3, <2>1 DEF AllLinks, LinksAre
  <2> QED
    BY <2>2, LinksMean
<1>13. Sized
  BY <1>2, <1>3 DEF Sized
<1>14. Copied
  BY DEF Init, Copied
<1>15. Locked
  <2>1. \A t \in Tasks : NULL # t
    BY FilesAssumption
  <2> QED
    BY <2>1, InsidePcs DEF Init, Locked
<1>16. MapsAsserted
  BY DEF Init, MapsAsserted
<1> QED
  BY <1>7, <1>8, <1>10, <1>11, <1>12, <1>13, <1>14, <1>15, <1>16 DEF FilesInv, DiskInv
LEMMA StepKeeps == FilesInv /\ [Next /\ Careful']_vars => FilesInv'
<1> SUFFICES ASSUME FilesInv, [Next /\ Careful']_vars PROVE FilesInv'
  OBVIOUS
<1>1. ASSUME UNCHANGED vars PROVE FilesInv'
  <2>1. DiskInv /\ Copied /\ Locked /\ MapsAsserted
    BY DEF FilesInv
  <2>2. UNCHANGED <<disk, flides, lock_vfs, call, asserted>>
    BY <1>1 DEF vars
  <2>3. DiskInv'
    BY <2>1, <2>2, SameDisk
  <2>4. \A t \in Tasks : call'[t] = Idle \/ Inside(t)'
    <3> SUFFICES ASSUME NEW t \in Tasks PROVE call'[t] = Idle \/ Inside(t)'
      OBVIOUS
    <3>1. call[t] = Idle \/ Inside(t)
      BY <2>1 DEF Locked
    <3>2. call'[t] = call[t] /\ flides'[t] = flides[t] /\ UNCHANGED disk
      BY <2>2
    <3> QED
      BY <2>1, <3>1, <3>2, AsRead
  <2>5. Locked'
    BY <2>1, <2>2, <2>4 DEF Locked
  <2> QED
    BY <2>1, <2>2, <2>3, <2>5 DEF FilesInv, Copied, MapsAsserted
<1> SUFFICES ASSUME Next, Careful' PROVE FilesInv'
  BY <1>1
<1>2. ASSUME NEW t \in Tasks, NEW p \in Paths, OpenMissing(t, p) \/ MkdirLook(t, p) \/ RmLook(t, p)
      PROVE  FilesInv'
  <2>1. OpenMissing(t, p) => UNCHANGED vars
    BY DEF OpenMissing
  <2> QED
    BY <1>1, <1>2, <2>1, MkdirLookKeeps, RmLookKeeps
<1>3. ASSUME NEW t \in Tasks, NEW p \in Paths, NEW q \in Paths \cup {<<>>}, OpenLook(t, p, q)
      PROVE  FilesInv'
  BY <1>3, OpenLookKeeps
<1>4. ASSUME NEW t \in Tasks,
             \/ OpenCreate(t) \/ OpenSlot(t) \/ MkdirMake(t) \/ RmDo(t) \/ LinkLook(t) \/ LinkEntry(t)
      PROVE  FilesInv'
  BY <1>4, OpenCreateKeeps, OpenSlotKeeps, MkdirKeeps, RmKeeps, LinkLookKeeps, LinkKeeps
<1>5. ASSUME NEW t \in Tasks, NEW w \in Writes, WriteDo(t, w) PROVE FilesInv'
  BY <1>5, WriteKeeps
<1>6. ASSUME NEW t \in Tasks, NEW s \in Slots, Close(t, s) \/ WriteLook(t, s) PROVE FilesInv'
  BY <1>6, CloseKeeps, WriteLookKeeps
<1>7. ASSUME NEW t \in Tasks, NEW s \in Slots, NEW whence \in {"S_SET", "S_CUR", "S_END"},
             NEW x \in {-1, 0, 1}, Lseek(t, s, whence, x)
      PROVE  FilesInv'
  <2>1. x \in Int
    OBVIOUS
  <2> QED
    BY <1>7, <2>1, LseekKeeps
<1> QED
  BY <1>2, <1>3, <1>4, <1>5, <1>6, <1>7 DEF Next

-----------------------------------------------------------------------------
(* What FilesInv says to who looks from outside *)

LEMMA InvNests == FilesInv => DirectoriesNest
<1> SUFFICES ASSUME FilesInv, NEW e \in Tree, table[e.node].type = "DR"
             PROVE  /\ \A f \in Tree : f.node = e.node => f = e
                    /\ DirLookup(table[e.node], ".") = e.node
                    /\ DirLookup(table[e.node], "..") = e.dir
  BY DEF DirectoriesNest
<1>1. Typed /\ Paged /\ Shaped /\ MapsExact
  BY DEF FilesInv, DiskInv
<1>2. e.node \in Dirs
  BY <1>1, NodesUsed DEF Dirs
<1> QED
  BY <1>1, <1>2, Lookups DEF Shaped

(* The inductive invariant holds. *)
THEOREM FilesInvariant == CarefulSpec => []FilesInv
<1>1. Init => FilesInv
  BY InitHolds
<1>2. FilesInv /\ [Next /\ Careful']_vars => FilesInv'
  BY StepKeeps
<1> QED
  BY <1>1, <1>2, PTL DEF CarefulSpec

(* The assertions of write_map hold: nothing is taken twice or freed twice. *)
THEOREM AssertionsHold == CarefulSpec => []MapsAsserted
<1>1. FilesInv => MapsAsserted
  BY DEF FilesInv
<1> QED
  BY <1>1, FilesInvariant, PTL

(* IMAP has the root and what names lead to, DMAP their blocks, each of one inode. *)
THEOREM MapsStayExact == CarefulSpec => []MapsExact
<1>1. FilesInv => MapsExact
  BY DEF FilesInv, DiskInv
<1> QED
  BY <1>1, FilesInvariant, PTL

(* link_num counts the names of an inode, dir_len the live entries of a directory. *)
THEOREM LinksStayCounted == CarefulSpec => []LinksCounted
<1>1. FilesInv => LinksCounted
  BY DEF FilesInv, DiskInv
<1> QED
  BY <1>1, FilesInvariant, PTL

(* A directory below the root has one name, and its dots lead to it and to its father. *)
THEOREM DirectoriesStayNested == CarefulSpec => []DirectoriesNest
<1>1. FilesInv => DirectoriesNest
  BY InvNests
<1> QED
  BY <1>1, FilesInvariant, PTL
-----------------------------------------------------------------------------
(* The text of files *)

(* The blocks of file i are all different, and full but for the last one. *)
FilledAt(i) ==
  LET link == table[i].link
  IN  /\ Len(link) * BLOCK_BYTES < table[i].size + BLOCK_BYTES
      /\ \A k, l \in 1 .. Len(link) : k # l => link[k] # link[l]
      /\ \A k \in 1 .. Len(link) :
           /\ data[link[k]] \in Seq(Chars)
           /\ Len(data[link[k]]) = IF k < Len(link) THEN BLOCK_BYTES
                                   ELSE table[i].size - (k - 1) * BLOCK_BYTES

Filled == \A i \in imap : table[i].type = "NF" => FilledAt(i)

(* The block, from 1, and the place in it, from 1, of the character k of a file. *)
At(k) == (k - 1) \div BLOCK_BYTES + 1
Place(k) == Remain(k - 1) + 1

LEMMA Places ==
  ASSUME NEW k \in Nat \ {0}
  PROVE  /\ At(k) \in Nat \ {0} /\ Place(k) \in 1 .. BLOCK_BYTES
         /\ k = (At(k) - 1) * BLOCK_BYTES + Place(k)
<1> DEFINE B == BLOCK_BYTES
           o == k - 1
           q == o \div B
           r == o % B
<1>1. B \in Nat \ {0}
  BY FilesAssumption
<1>2. o \in Nat
  OBVIOUS
<1> HIDE DEF o
<1>3. q \in Nat /\ r \in Nat /\ r < B /\ o = q * B + r
  BY <1>1, <1>2
<1>4. At(k) = q + 1 /\ Place(k) = r + 1 /\ k = o + 1
  BY DEF At, Place, Remain, o
<1> HIDE DEF q, r, B
<1>5. q + 1 \in Nat \ {0} /\ r + 1 \in 1 .. B /\ o + 1 = q * B + (r + 1) /\ q + 1 - 1 = q
  BY <1>1, <1>3
<1>6. At(k) \in Nat \ {0} /\ Place(k) \in 1 .. B /\ k = q * B + Place(k) /\ At(k) - 1 = q
  BY <1>1, <1>3, <1>4, <1>5
<1>7. k = (At(k) - 1) * B + Place(k)
  BY <1>6
<1> QED
  BY <1>6, <1>7 DEF B

(* Two ways to write a number as blocks and a place in a block are one. *)
LEMMA SamePlace ==
  ASSUME NEW q \in Nat, NEW p \in Nat, NEW a \in 1 .. BLOCK_BYTES, NEW b \in 1 .. BLOCK_BYTES
  PROVE  /\ q < p => q * BLOCK_BYTES + a <= p * BLOCK_BYTES
         /\ q * BLOCK_BYTES + a = p * BLOCK_BYTES + b => q = p /\ a = b
<1> DEFINE B == BLOCK_BYTES
<1>1. B \in Nat \ {0} /\ a \in Nat \ {0} /\ b \in Nat \ {0} /\ a <= B /\ b <= B
  BY FilesAssumption
<1> HIDE DEF B
<1>2. ASSUME NEW x \in Nat, NEW y \in Nat, NEW c \in Nat, x < y, c <= B
      PROVE  x * B + c <= y * B
  <2>1. PICK d \in Nat : y = x + 1 + d
    <3>1. y - (x + 1) \in Nat /\ y = x + 1 + (y - (x + 1))
      BY <1>2
    <3> QED
      BY <3>1
  <2>2. y * B = x * B + B + d * B /\ d * B \in Nat /\ x * B \in Nat
    BY <1>1, <2>1
  <2> QED
    BY <1>1, <1>2, <2>2
<1>3. q * B \in Nat /\ p * B \in Nat
  BY <1>1
<1>4. q < p => q * B + a <= p * B
  BY <1>1, <1>2
<1>5. p < q => p * B + b <= q * B
  BY <1>1, <1>2
<1>6. q * B + a = p * B + b => q = p /\ a = b
  BY <1>1, <1>3, <1>4, <1>5
<1> QED
  BY <1>4, <1>6 DEF B

(* Where the characters of a file are. *)
LEMMA Written ==
  ASSUME Typed, Sized, NEW i \in imap, table[i].type = "NF", NEW k \in 1 .. table[i].size
  PROVE  At(k) \in 1 .. Len(table[i].link)
<1> DEFINE n == Len(table[i].link)
           o == k - 1
<1>1. /\ table[i].size \in Nat /\ n \in Nat /\ BLOCK_BYTES \in Nat \ {0}
      /\ table[i].size <= n * BLOCK_BYTES
  <2>1. table[i] \in Inode
    BY DEF Typed
  <2> QED
    BY <2>1, LenProperties, FilesAssumption DEF Inode, Sized
<1>2. o \in Nat /\ o < n * BLOCK_BYTES
  <2> DEFINE end == n * BLOCK_BYTES
  <2>1. end \in Nat
    BY <1>1
  <2> HIDE DEF end, n
  <2>2. o \in Nat /\ o < end
    BY <1>1, <2>1 DEF end
  <2> QED
    BY <2>2 DEF end
<1> HIDE DEF o, n
<1>3. Remain(o) + 0 <= BLOCK_BYTES
  BY <1>1, <1>2 DEF Remain
<1>4. o \div BLOCK_BYTES + 1 \in 1 .. n
  BY <1>1, <1>2, <1>3, WithinBlocks
<1> QED
  BY <1>4 DEF At, o, n

(* Where size, blocks and their content are kept, so is the text. *)
LEMMA TextKept ==
  ASSUME Typed, Sized, NEW i \in imap, table[i].type = "NF", FileKept(i)
  PROVE  Text(i)' = Text(i)
<1>1. /\ table'[i].size = table[i].size /\ table'[i].link = table[i].link
      /\ \A b \in ToSet(table[i].link) : data'[b] = data[b]
  BY DEF FileKept
<1>2. ASSUME NEW k \in 1 .. table[i].size
      PROVE  data'[table[i].link[(k - 1) \div BLOCK_BYTES + 1]] = data[table[i].link[(k - 1) \div BLOCK_BYTES + 1]]
  <2> DEFINE q == (k - 1) \div BLOCK_BYTES + 1
             link == table[i].link
  <2>1. q \in 1 .. Len(link)
    BY Written DEF At
  <2>2. link \in Seq(Blocks)
    BY DEF Typed, Inode
  <2> HIDE DEF q
  <2>3. link[q] \in ToSet(link)
    BY <2>1, <2>2, LenProperties DEF ToSet
  <2> QED
    BY <1>1, <2>3 DEF q
<1>3. Text(i)' = [k \in 1 .. table[i].size |->
                    data'[table[i].link[(k - 1) \div BLOCK_BYTES + 1]][Remain(k - 1) + 1]]
  BY <1>1 DEF Text, Remain
<1> QED
  BY <1>2, <1>3 DEF Text

(* ... and so are the full blocks. *)
LEMMA StillFilled ==
  ASSUME Typed, NEW i \in imap, FilledAt(i), FileKept(i)
  PROVE  FilledAt(i)'
<1> DEFINE link == table[i].link
<1>1. /\ table'[i].size = table[i].size /\ table'[i].link = link
      /\ \A b \in ToSet(link) : data'[b] = data[b]
  BY DEF FileKept
<1>2. link \in Seq(Blocks)
  BY DEF Typed, Inode
<1>3. \A k \in 1 .. Len(link) : link[k] \in ToSet(link)
  BY <1>2, LenProperties DEF ToSet
<1> QED
  BY <1>1, <1>3 DEF FilledAt

(* The text of a file is as long as the file, and made of characters. *)
LEMMA TextIs ==
  ASSUME Typed, Sized, NEW i \in imap, table[i].type = "NF", FilledAt(i)
  PROVE  /\ Text(i) \in Seq(Chars) /\ Len(Text(i)) = table[i].size
         /\ \A k \in 1 .. table[i].size : Text(i)[k] = data[table[i].link[At(k)]][Place(k)]
<1> DEFINE link == table[i].link
           z == table[i].size
           n == Len(link)
<1>1. z \in Nat /\ link \in Seq(Blocks) /\ n \in Nat
  <2>1. table[i] \in Inode
    BY DEF Typed
  <2> QED
    BY <2>1, LenProperties DEF Inode
<1>2. \A k \in 1 .. z : At(k) \in 1 .. n
  BY Written
<1>3. \A k \in 1 .. n : /\ data[link[k]] \in Seq(Chars)
                       /\ Len(data[link[k]]) = IF k < n THEN BLOCK_BYTES ELSE z - (k - 1) * BLOCK_BYTES
  BY DEF FilledAt
<1>4. Text(i) = [k \in 1 .. z |-> data[link[At(k)]][Place(k)]]
  BY DEF Text, At, Place
<1> HIDE DEF link, z, n
<1>5. ASSUME NEW k \in 1 .. z PROVE data[link[At(k)]][Place(k)] \in Chars
  <2> DEFINE here == data[link[At(k)]]
             B == BLOCK_BYTES
             before == (At(k) - 1) * B
  <2>1. /\ At(k) \in 1 .. n /\ Place(k) \in 1 .. B /\ k = before + Place(k) /\ B \in Nat
    <3>1. k \in Nat \ {0}
      BY <1>1
    <3> QED
      BY <1>2, <3>1, Places, FilesAssumption
  <2>2. here \in Seq(Chars) /\ Len(here) = (IF At(k) < n THEN B ELSE z - before)
    BY <1>3, <2>1
  <2>3. before \in Nat
    BY <1>1, <2>1
  <2> HIDE DEF here, before, B
  <2>4. Place(k) \in 1 .. Len(here)
    BY <1>1, <2>1, <2>2, <2>3
  <2>5. here[Place(k)] \in Chars
    BY <2>2, <2>4, ElementOfSeq
  <2> QED
    BY <2>5 DEF here
<1>6. Text(i) \in [1 .. z -> Chars]
  BY <1>4, <1>5
<1>7. Text(i) \in Seq(Chars) /\ Len(Text(i)) = z
  BY <1>1, <1>6
<1> QED
  BY <1>4, <1>7 DEF z, link

(* TextIs and Written about every file, as a formula about a state. *)
TextRead(i) ==
  /\ Text(i) \in Seq(Chars) /\ Len(Text(i)) = table[i].size
  /\ \A k \in 1 .. table[i].size :
       At(k) \in 1 .. Len(table[i].link) /\ Text(i)[k] = data[table[i].link[At(k)]][Place(k)]

TextsRead == \A i \in imap : table[i].type = "NF" /\ FilledAt(i) => TextRead(i)

LEMMA TextsAre == Typed /\ Sized => TextsRead
  BY TextIs, Written DEF TextsRead, TextRead

(* What is new between two places and old elsewhere is the text overwritten there. *)
LEMMA OverwrittenIs ==
  ASSUME NEW S, NEW old \in Seq(S), NEW w \in Seq(S), NEW o \in Nat, o <= Len(old),
         NEW new \in Seq(S), Len(new) = IF o + Len(w) >= Len(old) THEN o + Len(w) ELSE Len(old),
         \A k \in 1 .. Len(new) : new[k] = IF k > o /\ k <= o + Len(w) THEN w[k - o] ELSE old[k]
  PROVE  new = Abs!Overwritten(old, o, w)
<1> DEFINE m == Len(old)
           l == Len(w)
           a == SubSeq(old, 1, o)
           c == SubSeq(old, o + l + 1, m)
           z == Len(new)
<1>1. m \in Nat /\ l \in Nat /\ o <= m /\ z = IF o + l >= m THEN o + l ELSE m
  BY LenProperties
<1>2. /\ a \in Seq(S) /\ Len(a) = o /\ \A k \in 1 .. o : a[k] = old[k]
  BY <1>1
<1>3. /\ c \in Seq(S) /\ Len(c) = z - (o + l)
      /\ \A k \in 1 .. z - (o + l) : c[k] = old[o + l + k]
  <2>1. CASE o + l + 1 <= m
    <3> HIDE DEF z, l, m
    <3>1. z - (o + l) = m - (o + l + 1) + 1 /\ o + l + 1 \in 1 .. m + 1 /\ m \in Nat
      BY <1>1, <2>1
    <3>2. old \in Seq(S) /\ m = Len(old)
      BY DEF m
    <3>3. c \in Seq(S) /\ Len(c) = m - (o + l + 1) + 1
          /\ \A k \in 1 .. m - (o + l + 1) + 1 : c[k] = old[o + l + 1 + k - 1]
      BY <3>1, <3>2, <1>1
    <3>4. \A k \in Int : o + l + 1 + k - 1 = o + l + k
      BY <1>1
    <3> HIDE DEF c
    <3>5. Len(c) = z - (o + l) /\ \A k \in 1 .. z - (o + l) : c[k] = old[o + l + 1 + k - 1] /\ k \in Int
      BY <3>1, <3>3
    <3> QED
      BY <3>3, <3>4, <3>5
  <2>2. CASE ~(o + l + 1 <= m)
    <3> HIDE DEF z, l, m
    <3>1. z - (o + l) = 0 /\ o + l + 1 > m
      BY <1>1, <2>2
    <3>2. old \in Seq(S) /\ m = Len(old)
      BY DEF m
    <3>3. c = <<>>
      BY <1>1, <3>1, <3>2, SubSeqEmpty
    <3> HIDE DEF c
    <3>4. c \in Seq(S) /\ Len(c) = 0 /\ 1 .. 0 = {}
      BY <3>3
    <3> QED
      BY <3>1, <3>4
  <2> QED
    BY <2>1, <2>2
<1>4. w \in Seq(S) /\ l = Len(w) /\ new \in Seq(S) /\ z = Len(new)
      /\ \A k \in 1 .. z : new[k] = IF k > o /\ k <= o + l THEN w[k - o] ELSE old[k]
  OBVIOUS
<1>5. Abs!Overwritten(old, o, w) = a \o w \o c
  BY DEF Abs!Overwritten
<1> HIDE DEF a, c, m, l, z
<1> DEFINE x == a \o w
           y == x \o c
<1>6. x \in Seq(S) /\ Len(x) = o + l /\ \A k \in 1 .. o + l : x[k] = IF k <= o THEN a[k] ELSE w[k - o]
  <2>1. /\ x \in Seq(S) /\ Len(x) = Len(a) + Len(w)
        /\ \A k \in 1 .. Len(a) + Len(w) : x[k] = IF k <= Len(a) THEN a[k] ELSE w[k - Len(a)]
    <3>1. a \in Seq(S) /\ w \in Seq(S)
      BY <1>2
    <3> QED
      BY <3>1, ConcatProperties
  <2>2. Len(a) = o /\ Len(a) + Len(w) = o + l
    BY <1>2, <1>4
  <2> HIDE DEF x
  <2> QED
    BY <2>1, <2>2
<1> HIDE DEF x
<1>7. y \in Seq(S) /\ Len(y) = z /\ \A k \in 1 .. z : y[k] = IF k <= o + l THEN x[k] ELSE c[k - (o + l)]
  <2>1. y \in Seq(S) /\ Len(y) = Len(x) + Len(c)
        /\ \A k \in 1 .. Len(x) + Len(c) : y[k] = IF k <= Len(x) THEN x[k] ELSE c[k - Len(x)]
    <3>1. x \in Seq(S) /\ c \in Seq(S)
      BY <1>3, <1>6
    <3> QED
      BY <3>1, ConcatProperties
  <2>2. Len(x) = o + l /\ Len(x) + Len(c) = z
    BY <1>1, <1>3, <1>6
  <2> HIDE DEF y
  <2> QED
    BY <2>1, <2>2
<1> HIDE DEF y
<1>8. ASSUME NEW k \in 1 .. z PROVE new[k] = y[k]
  <2>1. CASE k <= o
    <3>1. k \in 1 .. o /\ k \in 1 .. o + l /\ ~(k > o) /\ k <= o + l
      BY <1>1, <2>1
    <3> QED
      BY <1>2, <1>4, <1>6, <1>7, <2>1, <3>1
  <2>2. CASE k > o /\ k <= o + l
    <3>1. k \in 1 .. o + l /\ ~(k <= o)
      BY <1>1, <2>2
    <3> QED
      BY <1>4, <1>6, <1>7, <2>2, <3>1
  <2>3. CASE k > o + l
    <3>1. k - (o + l) \in 1 .. z - (o + l) /\ o + l + (k - (o + l)) = k /\ ~(k <= o + l)
      BY <1>1, <2>3
    <3>2. c[k - (o + l)] = old[k]
      BY <1>3, <3>1
    <3> QED
      BY <1>4, <1>7, <3>1, <3>2
  <2> QED
    BY <1>1, <2>1, <2>2, <2>3
<1>9. new = y
  BY <1>4, <1>7, <1>8, SeqEqual
<1> QED
  BY <1>5, <1>9 DEF y, x

(* The content of a block after characters are put over it. *)
LEMMA OverIs ==
  ASSUME NEW old \in Seq(Chars), NEW w \in Seq(Chars), NEW r \in Nat, r <= Len(old)
  PROVE  /\ Over(old, r, w) \in Seq(Chars)
         /\ Len(Over(old, r, w)) = IF r + Len(w) >= Len(old) THEN r + Len(w) ELSE Len(old)
         /\ \A k \in 1 .. Len(Over(old, r, w)) :
              Over(old, r, w)[k] = IF k > r /\ k <= r + Len(w) THEN w[k - r] ELSE old[k]
<1> DEFINE m == Len(old)
           l == Len(w)
           top == Max({m, r + l})
           e == [k \in 1 .. top |-> IF k > r /\ k <= r + l THEN w[k - r] ELSE old[k]]
<1>1. m \in Nat /\ l \in Nat /\ r <= m
  BY LenProperties
<1>2. top = (IF r + l >= m THEN r + l ELSE m) /\ top \in Nat
  <2> HIDE DEF m, l
  <2>1. r + l \in Int /\ m \in Int
    BY <1>1
  <2>2. top = IF m >= r + l THEN m ELSE r + l
    BY <2>1, MaxOfTwo
  <2> HIDE DEF top
  <2> QED
    BY <1>1, <2>2
<1>3. Over(old, r, w) = e
  BY DEF Over
<1>4. \A k \in 1 .. l : w[k] \in Chars
  BY ElementOfSeq
<1>5. \A k \in 1 .. m : old[k] \in Chars
  BY ElementOfSeq
<1> HIDE DEF m, l, top
<1>6. ASSUME NEW k \in 1 .. top
      PROVE  (IF k > r /\ k <= r + l THEN w[k - r] ELSE old[k]) \in Chars
  <2>1. CASE k > r /\ k <= r + l
    <3>1. k - r \in 1 .. l
      BY <1>1, <2>1
    <3> QED
      BY <1>4, <2>1, <3>1
  <2>2. CASE ~(k > r /\ k <= r + l)
    <3>1. k \in 1 .. m
      BY <1>1, <1>2, <2>2
    <3> QED
      BY <1>5, <2>2, <3>1
  <2> QED
    BY <2>1, <2>2
<1>7. e \in [1 .. top -> Chars] /\ \A k \in 1 .. top : e[k] = IF k > r /\ k <= r + l THEN w[k - r] ELSE old[k]
  BY <1>6
<1> HIDE DEF e
<1>8. e \in Seq(Chars) /\ Len(e) = top
  BY <1>2, <1>7
<1> QED
  BY <1>2, <1>3, <1>7, <1>8 DEF m, l

(* Where a write goes: block q of link, from 0, the first r characters of which are kept. *)
LEMMA FilledWhere ==
  ASSUME DiskInv, NEW f \in Descriptors, f.inode = table[f.inode.index], f.inode.index \in imap,
         f.inode.type = "NF", FilledAt(f.inode.index),
         IF NeedsBlock(f.inode, f.offset) THEN Target(f) \in Blocks \ dmap
         ELSE f.offset \div BLOCK_BYTES + 1 \in 1 .. Len(f.inode.link)
  PROVE  LET new == NeedsBlock(f.inode, f.offset)
             old == IF new THEN <<>> ELSE data[Target(f)]
             link == f.inode.link
             more == WithTarget(f)
             z == f.inode.size
             n == Len(link)
             q == f.offset \div BLOCK_BYTES
             r == Remain(f.offset)
         IN  /\ q \in Nat /\ r \in Nat /\ r < BLOCK_BYTES /\ f.offset = q * BLOCK_BYTES + r
             /\ more \in Seq(Blocks) /\ q + 1 \in 1 .. Len(more) /\ more[q + 1] = Target(f)
             /\ \A k, m \in 1 .. Len(more) : k # m => more[k] # more[m]
             /\ \A k \in 1 .. n : k \in 1 .. Len(more) /\ more[k] = link[k]
             /\ IF new THEN Len(more) = n + 1 /\ q = n /\ f.offset = z /\ z = n * BLOCK_BYTES
                ELSE Len(more) = n
             /\ old \in Seq(Chars)
             /\ Len(old) = IF q + 1 < Len(more) THEN BLOCK_BYTES ELSE z - q * BLOCK_BYTES
             /\ r <= Len(old)
<1> DEFINE i == f.inode.index
           new == NeedsBlock(f.inode, f.offset)
           b == Target(f)
           old == IF new THEN <<>> ELSE data[b]
           link == f.inode.link
           more == WithTarget(f)
           z == f.inode.size
           n == Len(link)
           o == f.offset
           B == BLOCK_BYTES
           q == o \div B
           r == o % B
<1>1. Typed /\ Sized /\ BlocksExact
  BY MapsSplit DEF DiskInv
<1>2. /\ link \in Seq(Blocks) /\ n \in Nat /\ z \in Nat /\ o \in Nat /\ o <= z /\ B \in Nat \ {0}
      /\ z <= n * B /\ n * B < z + B
  <2>1. f.inode \in Inode /\ o \in Nat /\ o <= f.inode.size
    BY DEF Descriptors
  <2>2. link \in Seq(Blocks) /\ z \in Nat /\ o <= z
    BY <2>1 DEF Inode
  <2>3. z <= n * B
    BY <1>1 DEF Sized
  <2>4. n * B < z + B
    BY DEF FilledAt
  <2> QED
    BY <2>1, <2>2, <2>3, <2>4, LenProperties, FilesAssumption
<1>3. q \in Nat /\ r \in Nat /\ r < B /\ o = q * B + r
  <2> HIDE DEF o, B
  <2> QED
    BY <1>2
<1>4. \A k \in 1 .. n : link[k] \in ToSet(link) /\ link[k] \in dmap
  <2>1. ToSet(link) \subseteq dmap
    BY <1>1 DEF BlocksExact
  <2>2. \A k \in 1 .. n : link[k] \in ToSet(link)
    BY <1>2, LenProperties DEF ToSet
  <2> QED
    BY <2>1, <2>2
<1>5. \A k, m \in 1 .. n : k # m => link[k] # link[m]
  BY DEF FilledAt
<1>6. \A k \in 1 .. n : /\ data[link[k]] \in Seq(Chars)
                       /\ Len(data[link[k]]) = IF k < n THEN B ELSE z - (k - 1) * B
  BY DEF FilledAt
<1>7. IF new THEN b \in Blocks \ dmap /\ more = Append(link, b) ELSE b = link[q + 1] /\ more = link /\ q + 1 \in 1 .. n
  BY DEF Target, WithTarget
<1>8. new <=> o >= n * B
  BY DEF NeedsBlock
<1>9. r = Remain(o)
  BY DEF Remain
<1>10. CASE new
  <2>1. o = n * B /\ z = n * B
    <3> DEFINE end == n * B
    <3>1. end \in Nat
      BY <1>2
    <3>2. z <= end /\ o >= end
      BY <1>2, <1>8, <1>10
    <3> HIDE DEF end, z, o, n, B
    <3>3. o = end /\ z = end
      BY <1>2, <3>1, <3>2
    <3> QED
      BY <3>3 DEF end
  <2>2. q = n /\ r = 0
    <3> HIDE DEF q, r, n, o, z, B, link
    <3> DEFINE a == r + 1
    <3>1. a \in 1 .. BLOCK_BYTES /\ 1 \in 1 .. BLOCK_BYTES
      BY <1>2, <1>3 DEF B
    <3>2. q * B + a = n * B + 1
      <4>1. q * B \in Nat /\ n * B \in Nat
        BY <1>2, <1>3
      <4> QED
        BY <1>3, <2>1, <4>1
    <3> HIDE DEF a
    <3>3. q = n /\ a = 1
      BY <1>2, <1>3, <3>1, <3>2, SamePlace DEF B
    <3> QED
      BY <1>3, <3>3 DEF a
  <2>3. /\ more \in Seq(Blocks) /\ Len(more) = n + 1 /\ more[n + 1] = b
        /\ \A k \in 1 .. n : more[k] = link[k]
    <3>1. more = Append(link, b) /\ b \in Blocks
      BY <1>7, <1>10
    <3> HIDE DEF more, b
    <3> QED
      BY <1>2, <3>1, AppendProperties
  <2>4. b \notin dmap
    BY <1>7, <1>10
  <2>5. old = <<>>
    BY <1>10
  <2> HIDE DEF more, b, old, link, n, o, q, r, z, B, new
  <2>6. \A k \in 1 .. n : b # link[k]
    BY <1>4, <2>4
  <2>7. \A k \in 1 .. n + 1 : k = n + 1 \/ k \in 1 .. n
    BY <1>2
  <2>8. \A k, m \in 1 .. Len(more) : k # m => more[k] # more[m]
    BY <1>5, <2>3, <2>6, <2>7
  <2>9. old \in Seq(Chars) /\ Len(old) = 0
    BY <2>5
  <2>10. /\ q + 1 \in 1 .. Len(more) /\ ~(q + 1 < Len(more)) /\ z - q * B = 0
         /\ \A k \in 1 .. n : k \in 1 .. Len(more)
    <3>1. n * B - n * B = 0
      BY <1>2
    <3> QED
      BY <1>2, <2>1, <2>2, <2>3, <3>1
  <2>11. /\ q \in Nat /\ r \in Nat /\ r < B /\ o = q * B + r
         /\ more \in Seq(Blocks) /\ q + 1 \in 1 .. Len(more) /\ more[q + 1] = b
         /\ \A k, m \in 1 .. Len(more) : k # m => more[k] # more[m]
         /\ \A k \in 1 .. n : k \in 1 .. Len(more) /\ more[k] = link[k]
         /\ IF new THEN Len(more) = n + 1 /\ q = n /\ o = z /\ z = n * B ELSE Len(more) = n
         /\ old \in Seq(Chars)
         /\ Len(old) = IF q + 1 < Len(more) THEN B ELSE z - q * B
         /\ r <= Len(old)
    BY <1>3, <1>10, <2>1, <2>2, <2>3, <2>8, <2>9, <2>10
  <2> QED
    BY <1>9, <2>11 DEF more, b, old, link, n, o, q, r, z, B, new
<1>11. CASE ~new
  <2>1. more = link /\ b = link[q + 1] /\ old = data[link[q + 1]] /\ q + 1 \in 1 .. n
    BY <1>7, <1>11
  <2> HIDE DEF more, b, old, link, n, o, q, r, z, B, new
  <2>2. old \in Seq(Chars) /\ Len(old) = IF q + 1 < n THEN B ELSE z - q * B
    <3> DEFINE p == q + 1
    <3>1. p \in 1 .. n /\ old = data[link[p]]
      BY <2>1
    <3> HIDE DEF p
    <3>2. old \in Seq(Chars) /\ Len(old) = IF p < n THEN B ELSE z - (p - 1) * B
      BY <1>6, <3>1
    <3>3. p - 1 = q /\ p = q + 1
      BY <1>3 DEF p
    <3>4. (p - 1) * B = q * B
      BY <3>3
    <3>5. Len(old) = IF p < n THEN B ELSE z - q * B
      BY <3>2, <3>4
    <3> QED
      BY <3>2, <3>3, <3>5
  <2>3. q * B \in Nat
    BY <1>2, <1>3
  <2>4. Len(old) = (IF q + 1 < n THEN B ELSE z - q * B) /\ n = Len(more)
    BY <2>1, <2>2 DEF n
  <2>5. r <= Len(old)
    BY <1>2, <1>3, <2>3, <2>4
  <2>11. /\ q \in Nat /\ r \in Nat /\ r < B /\ o = q * B + r
         /\ more \in Seq(Blocks) /\ q + 1 \in 1 .. Len(more) /\ more[q + 1] = b
         /\ \A k, m \in 1 .. Len(more) : k # m => more[k] # more[m]
         /\ \A k \in 1 .. n : k \in 1 .. Len(more) /\ more[k] = link[k]
         /\ IF new THEN Len(more) = n + 1 /\ q = n /\ o = z /\ z = n * B ELSE Len(more) = n
         /\ old \in Seq(Chars)
         /\ Len(old) = IF q + 1 < Len(more) THEN B ELSE z - q * B
         /\ r <= Len(old)
    BY <1>2, <1>3, <1>5, <1>11, <2>1, <2>2, <2>4, <2>5
  <2> QED
    BY <1>9, <2>11 DEF more, b, old, link, n, o, q, r, z, B, new
<1> QED
  BY <1>10, <1>11

(* A write puts its characters at the offset, and leaves the file filled. *)
LEMMA WriteText ==
  ASSUME DiskInv, NEW f \in Descriptors, f.inode = table[f.inode.index], FilledAt(f.inode.index),
         NEW w \in Seq(Chars), Len(w) \in Nat \ {0}, Remain(f.offset) + Len(w) <= BLOCK_BYTES,
         IF NeedsBlock(f.inode, f.offset) THEN Target(f) \in Blocks \ dmap
         ELSE f.offset \div BLOCK_BYTES + 1 \in 1 .. Len(f.inode.link),
         Fills(f.inode.index, Target(f), WithTarget(f), f.offset + Len(w), Filling(f, w))
  PROVE  /\ FilledAt(f.inode.index)'
         /\ f.offset <= Len(Text(f.inode.index))
         /\ Text(f.inode.index)' = Abs!Overwritten(Text(f.inode.index), f.offset, w)
<1> DEFINE i == f.inode.index
           new == NeedsBlock(f.inode, f.offset)
           b == Target(f)
           old == IF new THEN <<>> ELSE data[b]
           link == f.inode.link
           more == WithTarget(f)
           here == Filling(f, w)
           n == Len(link)
           z == f.inode.size
           o == f.offset
           l == Len(w)
           B == BLOCK_BYTES
           q == o \div B
           r == Remain(o)
           z2 == IF o + l >= z THEN o + l ELSE z
<1>1. /\ i \in imap /\ f.inode.type = "NF" /\ more \in Seq(Blocks) /\ o + l \in Nat
      /\ f.inode \in Inode /\ table[i] = f.inode
  BY DEF Fills, Descriptors
<1>2. /\ DiskInv' /\ imap' = imap /\ data'[b] = here /\ \A c \in Blocks \ {b} : data'[c] = data[c]
      /\ table'[i] = Grown([table[i] EXCEPT !.link = more], o + l)
  <2> DEFINE size == o + l
  <2>1. Fills(i, b, more, size, here)
    OBVIOUS
  <2> HIDE DEF i, b, more, size, here, new, old, link, n, z, o, l, q, r, z2
  <2>2. DiskInv' /\ Wrote(i, b, more, size, here)
    BY <2>1, TextWritten
  <2>4. /\ data'[b] = here /\ \A d \in Blocks \ {b} : data'[d] = data[d]
        /\ table'[i] = Grown([table[i] EXCEPT !.link = more], size)
    BY <2>2 DEF Wrote
  <2>3. imap' = imap
    BY <2>1 DEF Fills
  <2> QED
    BY <2>2, <2>3, <2>4 DEF size
<1>3. table'[i].link = more /\ table'[i].size = z2 /\ table'[i].type = "NF"
  <2> HIDE DEF i, more
  <2> QED
    BY <1>1, <1>2, GrownMade
<1>4. /\ q \in Nat /\ r \in Nat /\ r < B /\ o = q * B + r
      /\ q + 1 \in 1 .. Len(more) /\ more[q + 1] = b
      /\ \A k, m \in 1 .. Len(more) : k # m => more[k] # more[m]
      /\ \A k \in 1 .. n : k \in 1 .. Len(more) /\ more[k] = link[k]
      /\ IF new THEN Len(more) = n + 1 /\ q = n /\ o = z /\ z = n * B ELSE Len(more) = n
      /\ old \in Seq(Chars)
      /\ Len(old) = IF q + 1 < Len(more) THEN B ELSE z - q * B
      /\ r <= Len(old)
  BY <1>1, FilledWhere
<1>5. /\ link \in Seq(Blocks) /\ n \in Nat /\ z \in Nat /\ o \in Nat /\ o <= z /\ B \in Nat \ {0}
      /\ n * B < z + B /\ l \in Nat \ {0} /\ r + l <= B
  <2>1. o \in Nat /\ o <= z
    BY DEF Descriptors
  <2>2. link \in Seq(Blocks) /\ z \in Nat
    BY <1>1 DEF Inode
  <2>3. n * B < z + B
    BY <1>1 DEF FilledAt
  <2> QED
    BY <2>1, <2>2, <2>3, LenProperties, FilesAssumption
<1>6. /\ \A k \in 1 .. n : /\ data[link[k]] \in Seq(Chars)
                          /\ Len(data[link[k]]) = IF k < n THEN B ELSE z - (k - 1) * B
  BY <1>1 DEF FilledAt
<1>7. /\ here \in Seq(Chars) /\ Len(here) = (IF r + l >= Len(old) THEN r + l ELSE Len(old))
      /\ \A k \in 1 .. Len(here) : here[k] = IF k > r /\ k <= r + l THEN w[k - r] ELSE old[k]
  <2>1. here = Over(old, r, w)
    BY DEF Filling
  <2>2. old \in Seq(Chars) /\ r \in Nat /\ r <= Len(old)
    BY <1>4
  <2> HIDE DEF old, r, here
  <2>3. /\ Over(old, r, w) \in Seq(Chars)
        /\ Len(Over(old, r, w)) = IF r + Len(w) >= Len(old) THEN r + Len(w) ELSE Len(old)
        /\ \A k \in 1 .. Len(Over(old, r, w)) :
             Over(old, r, w)[k] = IF k > r /\ k <= r + Len(w) THEN w[k - r] ELSE old[k]
    BY <2>2, OverIs
  <2> QED
    BY <2>1, <2>3
<1>8. old = IF new THEN <<>> ELSE data[b]
  OBVIOUS
<1>9. TextRead(i)
  <2>1. Typed /\ Sized
    BY DEF DiskInv
  <2> HIDE DEF i
  <2> QED
    BY <1>1, <2>1, TextsAre DEF TextsRead, i
<1> DEFINE T == Text(i)
<1>10. /\ T \in Seq(Chars) /\ Len(T) = z
       /\ \A k \in 1 .. z : At(k) \in 1 .. n /\ T[k] = data[link[At(k)]][Place(k)]
  BY <1>1, <1>9 DEF TextRead
<1> HIDE DEF i, new, b, old, link, more, here, n, z, o, l, B, q, r, T
<1>11. \A k \in 1 .. Len(more) : k # q + 1 => k \in 1 .. n /\ data'[more[k]] = data[link[k]]
  <2> SUFFICES ASSUME NEW k \in 1 .. Len(more), k # q + 1
               PROVE  k \in 1 .. n /\ data'[more[k]] = data[link[k]]
    OBVIOUS
  <2>1. k \in 1 .. n
    BY <1>4, <1>5
  <2>2. more[k] \in Blocks /\ more[k] # b
    BY <1>1, <1>4, ElementOfSeq
  <2> QED
    BY <1>2, <1>4, <2>1, <2>2
<1>12. /\ z2 \in Nat /\ z2 >= z /\ q * B \in Nat /\ n * B \in Nat
       /\ (q + 1) * B = q * B + B /\ o + l <= q * B + B
  BY <1>4, <1>5
<1>13. /\ new => n < Len(more) /\ z2 = o + l /\ o + l > z /\ z = n * B /\ q = n
       /\ ~new => n = Len(more)
       /\ Len(here) = IF q + 1 < Len(more) THEN B ELSE z2 - q * B
  <2>1. /\ new => n < Len(more) /\ z2 = o + l /\ o + l > z /\ z = n * B /\ q = n
        /\ ~new => n = Len(more)
    <3>1. CASE new
      <4>1. Len(more) = n + 1 /\ q = n /\ o = z /\ z = n * B
        BY <1>4, <3>1
      <4>2. n < Len(more) /\ o + l > z
        BY <1>5, <4>1
      <4> QED
        BY <1>5, <3>1, <4>1, <4>2
    <3>2. CASE ~new
      BY <1>4, <3>2
    <3> QED
      BY <3>1, <3>2
  <2>2. CASE q + 1 < Len(more)
    BY <1>4, <1>5, <1>7, <2>2
  <2>3. CASE ~(q + 1 < Len(more))
    <3>1. Len(old) = z - q * B
      BY <1>4, <2>3
    <3> DEFINE m == q * B
    <3>2. m \in Nat /\ o = m + r /\ Len(old) = z - m
      BY <1>4, <1>12, <3>1
    <3> HIDE DEF m
    <3>3. Len(here) = z2 - m
      BY <1>4, <1>5, <1>7, <3>2
    <3>4. Len(here) = z2 - q * B
      BY <3>3 DEF m
    <3> QED
      BY <2>1, <2>3, <3>4
  <2> QED
    BY <2>1, <2>2, <2>3
<1> HIDE DEF z2
<1>14. ASSUME NEW k \in 1 .. n, k # q + 1
       PROVE  (IF k < n THEN B ELSE z - (k - 1) * B) = (IF k < Len(more) THEN B ELSE z2 - (k - 1) * B)
  <2>1. CASE new
    <3>1. k < Len(more) /\ z = n * B
      BY <1>5, <1>13, <2>1
    <3>2. k = n => z - (k - 1) * B = B
      <4>1. (n - 1) * B = n * B - B
        BY <1>5
      <4> QED
        BY <1>5, <1>12, <3>1, <4>1
    <3> QED
      BY <1>5, <3>1, <3>2
  <2>2. CASE ~new
    <3>1. Len(more) = n
      BY <1>13, <2>2
    <3>2. k = n => z2 = z
      <4>1. SUFFICES ASSUME k = n PROVE o + l <= z
        BY <1>5 DEF z2
      <4>2. q + 1 <= n - 1
        <5>1. q + 1 \in 1 .. n /\ q + 1 # n
          BY <1>4, <1>14, <3>1, <4>1
        <5> QED
          BY <1>4, <1>5, <5>1
      <4>3. PICK d \in Nat : n = q + 2 + d
        <5>1. n - (q + 2) \in Nat /\ n = q + 2 + (n - (q + 2))
          BY <1>4, <1>5, <4>2
        <5> QED
          BY <5>1
      <4>4. n * B = q * B + B + B + d * B /\ d * B \in Nat
        BY <1>4, <1>5, <4>3
      <4> DEFINE m == q * B
                 e == d * B
                 h == n * B
      <4>5. /\ m \in Nat /\ e \in Nat /\ h = m + B + B + e /\ o + l <= m + B /\ h < z + B
        BY <1>5, <1>12, <4>4
      <4> HIDE DEF m, e, h
      <4> QED
        BY <1>5, <4>5
    <3> QED
      BY <3>1, <3>2
  <2> QED
    BY <2>1, <2>2
<1>15. Len(more) * B < z2 + B
  <2>1. CASE new
    <3>1. Len(more) = n + 1
      BY <1>4, <2>1
    <3>2. Len(more) * B = n * B + B
      BY <1>5, <3>1
    <3>3. z2 = o + l /\ o + l > n * B
      BY <1>13, <2>1
    <3> DEFINE h == n * B
    <3>4. h \in Nat /\ Len(more) * B = h + B /\ o + l > h
      BY <1>12, <3>2, <3>3
    <3> HIDE DEF h
    <3> QED
      BY <1>5, <3>3, <3>4
  <2>2. CASE ~new
    <3>1. Len(more) = n
      BY <1>13, <2>2
    <3> DEFINE h == n * B
    <3>2. h \in Nat /\ h < z + B /\ Len(more) * B = h
      BY <1>5, <1>12, <3>1
    <3> HIDE DEF h
    <3> QED
      BY <1>5, <1>12, <3>2
  <2> QED
    BY <2>1, <2>2
<1>16. \A k \in 1 .. Len(more) :
         /\ data'[more[k]] \in Seq(Chars)
         /\ Len(data'[more[k]]) = IF k < Len(more) THEN B ELSE z2 - (k - 1) * B
  <2> SUFFICES ASSUME NEW k \in 1 .. Len(more)
               PROVE  /\ data'[more[k]] \in Seq(Chars)
                      /\ Len(data'[more[k]]) = IF k < Len(more) THEN B ELSE z2 - (k - 1) * B
    OBVIOUS
  <2>1. CASE k = q + 1
    <3>1. data'[more[k]] = here
      BY <1>2, <1>4, <2>1
    <3>2. k - 1 = q
      BY <1>4, <2>1
    <3>3. Len(here) = IF k < Len(more) THEN B ELSE z2 - (k - 1) * B
      BY <1>13, <2>1, <3>2
    <3> QED
      BY <1>7, <3>1, <3>3
  <2>2. CASE k # q + 1
    <3>1. k \in 1 .. n /\ data'[more[k]] = data[link[k]]
      BY <1>11, <2>2
    <3>2. data[link[k]] \in Seq(Chars) /\ Len(data[link[k]]) = IF k < n THEN B ELSE z - (k - 1) * B
      BY <1>6, <3>1
    <3>3. (IF k < n THEN B ELSE z - (k - 1) * B) = (IF k < Len(more) THEN B ELSE z2 - (k - 1) * B)
      BY <1>14, <2>2, <3>1
    <3> QED
      BY <3>1, <3>2, <3>3
  <2> QED
    BY <2>1, <2>2
<1>17. FilledAt(i)'
  <2>1. \A k, m \in 1 .. Len(more) : k # m => more[k] # more[m]
    BY <1>4
  <2> QED
    BY <1>3, <1>15, <1>16, <2>1 DEF FilledAt, B
<1>18. TextRead(i)'
  <2>1. TextsRead'
    <3>1. Typed' /\ Sized'
      BY <1>2 DEF DiskInv
    <3> QED
      BY <3>1, TextsAre, PTL
  <2> QED
    BY <1>1, <1>2, <1>3, <1>17, <2>1 DEF TextsRead
<1> DEFINE T2 == Text(i)'
<1>19. /\ T2 \in Seq(Chars) /\ Len(T2) = z2
       /\ \A k \in 1 .. z2 : At(k) \in 1 .. Len(more) /\ T2[k] = data'[more[At(k)]][Place(k)]
  BY <1>3, <1>18 DEF TextRead, At, Place, Remain
<1> HIDE DEF T2
<1>20. ASSUME NEW k \in 1 .. z2
       PROVE  T2[k] = IF k > o /\ k <= o + l THEN w[k - o] ELSE T[k]
  <2>1. /\ k \in Nat \ {0} /\ At(k) \in 1 .. Len(more) /\ Place(k) \in 1 .. B
        /\ k = (At(k) - 1) * B + Place(k) /\ At(k) - 1 \in Nat
    <3>1. k \in Nat \ {0}
      BY <1>12
    <3>2. /\ At(k) \in Nat \ {0} /\ Place(k) \in 1 .. B
          /\ k = (At(k) - 1) * B + Place(k)
      BY <3>1, Places DEF B
    <3>3. At(k) - 1 \in Nat
      BY <3>2
    <3> QED
      BY <1>19, <3>1, <3>2, <3>3
  <2>2. ~(k > o /\ k <= o + l) => k \in 1 .. z
    BY <1>5, <2>1 DEF z2
  <2>3. CASE At(k) = q + 1
    <3>1. T2[k] = here[Place(k)] /\ k = q * B + Place(k)
      <4>1. At(k) - 1 = q
        BY <1>4, <2>3
      <4> QED
        BY <1>2, <1>4, <1>19, <2>1, <2>3, <4>1
    <3>2. /\ Place(k) > r /\ Place(k) <= r + l <=> k > o /\ k <= o + l
          /\ Place(k) - r = k - o
      <4> DEFINE m == q * B
                 x == Place(k)
      <4>1. x \in Nat /\ m \in Nat /\ k = m + x /\ o = m + r
        BY <1>4, <1>12, <2>1, <3>1
      <4>2. r \in Nat /\ o \in Nat /\ l \in Nat /\ k \in Nat
        BY <1>4, <1>5, <2>1
      <4> HIDE DEF m, x
      <4>3. x > r <=> k > o
        BY <4>1, <4>2
      <4>4. x <= r + l <=> k <= o + l
        BY <4>1, <4>2
      <4>5. x - r = k - o
        BY <4>1, <4>2
      <4> QED
        BY <4>3, <4>4, <4>5 DEF x
    <3>3. CASE k > o /\ k <= o + l
      <4>1. Place(k) \in 1 .. Len(here)
        <5>1. Place(k) <= r + l
          BY <3>2, <3>3
        <5>2. Len(old) \in Nat /\ Len(here) \in Nat
          BY <1>4, <1>7, LenProperties
        <5>3. Len(here) >= r + l
          BY <1>4, <1>5, <1>7, <5>2
        <5>4. Place(k) \in Nat \ {0} /\ r + l \in Nat
          BY <1>4, <1>5, <2>1
        <5> QED
          BY <5>1, <5>2, <5>3, <5>4
      <4> QED
        BY <1>7, <3>1, <3>2, <3>3, <4>1
    <3>4. CASE ~(k > o /\ k <= o + l)
      <4>1. k \in 1 .. z /\ At(k) \in 1 .. n /\ T[k] = data[link[At(k)]][Place(k)]
        BY <1>10, <2>2, <3>4
      <4>2. ~new
        BY <1>4, <1>5, <2>3, <4>1
      <4>3. old = data[link[At(k)]]
        BY <1>4, <1>8, <2>3, <4>1, <4>2
      <4>4. Place(k) \in 1 .. Len(here)
        <5>1. Len(here) \in Nat
          BY <1>7, LenProperties
        <5>2. CASE q + 1 < Len(more)
          BY <1>5, <1>13, <2>1, <5>1, <5>2
        <5>3. CASE ~(q + 1 < Len(more))
          <6> DEFINE m == q * B
          <6>1. Len(here) = z2 - m /\ m \in Nat /\ k = m + Place(k) /\ k <= z2
            BY <1>12, <1>13, <3>1, <5>3
          <6> HIDE DEF m
          <6> QED
            BY <1>12, <2>1, <5>1, <6>1
        <5> QED
          BY <5>2, <5>3
      <4> QED
        BY <1>7, <3>1, <3>2, <3>4, <4>1, <4>3, <4>4
    <3> QED
      BY <3>3, <3>4
  <2>4. CASE At(k) # q + 1
    <3>1. ~(k > o /\ k <= o + l)
      <4> SUFFICES ASSUME k > o, k <= o + l PROVE FALSE
        OBVIOUS
      <4> DEFINE m == q * B
                 a == k - m
                 p == At(k) - 1
      <4>1. m \in Nat /\ o = m + r
        BY <1>4, <1>12
      <4>2. a \in 1 .. B /\ k = m + a
        <5> HIDE DEF m
        <5> QED
          BY <1>4, <1>5, <2>1, <4>1
      <4>3. p \in Nat /\ p # q /\ k = p * B + Place(k)
        BY <1>4, <2>1, <2>4
      <4> HIDE DEF a, p
      <4>4. q * B + a = p * B + Place(k)
        BY <4>2, <4>3
      <4> QED
        BY <1>4, <2>1, <4>2, <4>3, <4>4, SamePlace DEF B
    <3>2. T[k] = data[link[At(k)]][Place(k)]
      BY <1>10, <2>2, <3>1
    <3>3. T2[k] = data[link[At(k)]][Place(k)]
      BY <1>11, <1>19, <2>1, <2>4
    <3> QED
      BY <3>1, <3>2, <3>3
  <2> QED
    BY <2>3, <2>4
<1>21. T2 = Abs!Overwritten(T, o, w)
  <2>1. Len(T2) = IF o + Len(w) >= Len(T) THEN o + Len(w) ELSE Len(T)
    BY <1>10, <1>19 DEF z2, l
  <2>2. \A k \in 1 .. Len(T2) : T2[k] = IF k > o /\ k <= o + Len(w) THEN w[k - o] ELSE T[k]
    BY <1>19, <1>20 DEF l
  <2>3. o \in Nat /\ o <= Len(T) /\ T \in Seq(Chars) /\ T2 \in Seq(Chars)
    BY <1>5, <1>10, <1>19
  <2> QED
    BY <2>1, <2>2, <2>3, OverwrittenIs
<1> QED
  BY <1>5, <1>10, <1>17, <1>21 DEF T, T2, i, o

-----------------------------------------------------------------------------
(* What a call does to the tree that the files implement *)

(* Inodes that are kept are the same files with the same text. *)
LEMMA FilesKept ==
  ASSUME DiskInv, Filled, NEW j \in imap, j \in imap', InodesKept({j})
  PROVE  /\ table'[j].type = table[j].type /\ kind'[j] = kind[j] /\ text'[j] = text[j]
         /\ table[j].type = "NF" => FilledAt(j)'
<1>1. Typed /\ Sized /\ j \in Inodes /\ table[j] \in Inode
  BY DEF DiskInv, Typed
<1>2. table'[j].type = table[j].type /\ (table[j].type = "NF" => FileKept(j))
  BY DEF InodesKept
<1>3. table[j].type = "NF" => FilledAt(j)' /\ Text(j)' = Text(j)
  BY <1>1, <1>2, TextKept, StillFilled DEF Filled
<1>4. kind[j] = table[j].type /\ kind'[j] = table'[j].type
  BY <1>1 DEF kind
<1>5. text[j] = (IF kind[j] = "NF" THEN Text(j) ELSE <<>>) /\ text'[j] = (IF kind'[j] = "NF" THEN Text(j)' ELSE <<>>)
  BY <1>1 DEF text
<1> QED
  BY <1>2, <1>3, <1>4, <1>5

(* Inodes that are free before and after are nothing. *)
LEMMA NothingThere ==
  ASSUME NEW j \in Inodes
  PROVE  /\ j \notin imap => kind[j] = "none" /\ text[j] = <<>>
         /\ j \in imap => kind[j] = table[j].type
BY DEF kind, text

LEMMA NothingAnywhere == \A j \in Inodes : j \notin imap => kind[j] = "none" /\ text[j] = <<>>
  BY NothingThere

LEMMA KindsAre ==
  /\ kind = [j \in Inodes |-> kind[j]] /\ text = [j \in Inodes |-> text[j]]
  BY DEF kind, text

(* An empty file has no text. *)
LEMMA EmptyText ==
  ASSUME NEW i \in imap, i \in Inodes, table[i].size = 0, table[i].link = <<>>
  PROVE  text[i] = <<>> /\ FilledAt(i)
<1>1. 1 .. 0 = {}
  OBVIOUS
<1>2. Text(i) = <<>>
  BY <1>1 DEF Text
<1>3. text[i] = <<>>
  BY <1>2 DEF text
<1>4. Len(table[i].link) = 0 /\ BLOCK_BYTES \in Nat \ {0}
  BY FilesAssumption
<1>5. FilledAt(i)
  BY <1>1, <1>4 DEF FilledAt
<1> QED
  BY <1>3, <1>5

(* The same about every file, as a formula about a state. *)
EmptyTexts ==
  \A i \in imap : i \in Inodes /\ table[i].size = 0 /\ table[i].link = <<>> => text[i] = <<>> /\ FilledAt(i)

LEMMA AllEmptyTexts == EmptyTexts
  BY EmptyText DEF EmptyTexts

(* The directory of a path is the one the tree has for it. *)
LEMMA AbsDir ==
  ASSUME NEW p, NEW d, InDir(p, d)
  PROVE  Abs!Dir(p, d)
BY DEF InDir, Abs!Dir, Abs!Name, Edge

(* Making a file or a directory is the Make of the tree. *)
LEMMA MadeIs ==
  ASSUME DiskInv, Filled, NEW p, NEW f, InDir(p, f), NEW i, NEW type, NEW link,
         Makes(f, Last(p), i, type, link), UNCHANGED flides
  PROVE  Filled' /\ Abs!Make(p, f, i, type)
<1>0. PICK n : n = Last(p)
  OBVIOUS
<1>1. Makes(f, n, i, type, link) /\ DiskInv' /\ Tree' = Tree \cup {Edge(f, n, i)} /\ InodesKept(imap)
  BY <1>0, Created
<1>2. /\ f \in Dirs /\ f # i /\ i \in Inodes /\ i \notin imap /\ i \in imap' /\ imap' = imap \cup {i}
      /\ type \in {"NF", "DR"} /\ (type # "DR" => link = <<>>)
      /\ table'[i] = NewInode(i, type, link) /\ Unused(f, n) /\ link \in Seq(Blocks)
  <2>1. table \in [Inodes -> Inode]
    BY DEF DiskInv, Typed
  <2> QED
    BY <1>1, <2>1 DEF Makes, HasFather, Dirs, Put
<1>3. /\ table'[i].type = type /\ (type # "DR" => table'[i].size = 0 /\ table'[i].link = <<>>)
  BY <1>2, InodesMade
<1>4. \A j \in imap : /\ j \in imap' /\ j \in Inodes /\ kind'[j] = kind[j] /\ text'[j] = text[j]
                     /\ table'[j].type = table[j].type /\ (table[j].type = "NF" => FilledAt(j)')
  BY <1>1, <1>2, FilesKept DEF InodesKept, DiskInv, Typed
<1>5. kind[i] = "none" /\ text[i] = <<>> /\ kind'[i] = type
  BY <1>2, <1>3, NothingThere DEF kind
<1>6. type # "DR" => text'[i] = <<>> /\ FilledAt(i)'
  <2>1. EmptyTexts'
    BY AllEmptyTexts, PTL
  <2> QED
    BY <1>2, <1>3, <2>1 DEF EmptyTexts
<1>7. text'[i] = <<>>
  BY <1>2, <1>5, <1>6 DEF text
<1>8. \A j \in Inodes \ imap' : kind'[j] = kind[j] /\ text'[j] = text[j]
  <2>1. \A j \in Inodes : j \notin imap' => kind'[j] = "none" /\ text'[j] = <<>>
    BY DEF kind, text
  <2> QED
    BY <1>2, <2>1, NothingAnywhere
<1>9. kind' = [kind EXCEPT ![i] = type] /\ text' = text
  <2>1. \A j \in Inodes \ {i} : kind'[j] = kind[j] /\ text'[j] = text[j]
    BY <1>2, <1>4, <1>8
  <2>2. kind' = [j \in Inodes |-> kind'[j]] /\ text' = [j \in Inodes |-> text'[j]]
    BY DEF kind, text
  <2>3. kind' = [j \in Inodes |-> IF j = i THEN type ELSE kind[j]] /\ text' = [j \in Inodes |-> text[j]]
    BY <1>5, <1>7, <2>1, <2>2
  <2> QED
    BY <2>3, KindsAre
<1>10. kind[f] = "DR" /\ \A e \in Tree : <<e.dir, e.name>> # <<f, n>>
  <2>1. kind[f] = "DR"
    BY <1>2, <1>4 DEF kind, Dirs
  <2> QED
    BY <1>2, <2>1 DEF Unused
<1>11. descriptors' = descriptors
  BY DEF descriptors
<1>12. Filled'
  BY <1>2, <1>3, <1>4, <1>6 DEF Filled
<1>13. Abs!Free(p, f)
  BY <1>0, <1>10, AbsDir DEF Abs!Free, Abs!Last, Last
<1> QED
  BY <1>0, <1>1, <1>5, <1>9, <1>11, <1>12, <1>13 DEF Abs!Make, Abs!Name, Abs!Last, Last, Edge

(* Kinds and texts stay where the inodes do. *)
LEMMA AllFilesKept ==
  ASSUME DiskInv, Filled, imap' = imap, InodesKept(imap)
  PROVE  Filled' /\ kind' = kind /\ text' = text
<1>1. \A j \in imap : /\ j \in Inodes /\ kind'[j] = kind[j] /\ text'[j] = text[j]
                     /\ table'[j].type = table[j].type /\ (table[j].type = "NF" => FilledAt(j)')
  BY FilesKept DEF InodesKept, DiskInv, Typed
<1>2. \A j \in Inodes \ imap : kind'[j] = kind[j] /\ text'[j] = text[j]
  BY DEF kind, text
<1>3. /\ kind = [j \in Inodes |-> kind[j]] /\ text = [j \in Inodes |-> text[j]]
      /\ kind' = [j \in Inodes |-> kind'[j]] /\ text' = [j \in Inodes |-> text'[j]]
  BY DEF kind, text
<1>4. kind' = kind /\ text' = text
  BY <1>1, <1>2, <1>3
<1>5. Filled'
  BY <1>1 DEF Filled
<1> QED
  BY <1>4, <1>5

(* Where nothing is written, the tree and its files are the same. *)
LEMMA SameFiles ==
  ASSUME DiskInv, Filled, UNCHANGED disk
  PROVE  Filled' /\ Tree' = Tree /\ kind' = kind /\ text' = text
<1>1. imap' = imap /\ table' = table /\ data' = data /\ Tree' = Tree
  BY SameDisk DEF disk
<1>2. InodesKept(imap)
  BY <1>1 DEF InodesKept, FileKept
<1> QED
  BY <1>1, <1>2, AllFilesKept

(* Removing a name is the Unname of the tree. *)
LEMMA RemovedIs ==
  ASSUME DiskInv, Filled, NEW x, Drops(x), NEW p, IsName(p, x.dir, x.node), UNCHANGED flides
  PROVE  Filled' /\ x \in Tree /\ Abs!Unname(p, x)
<1> DEFINE i == x.node
<1>1. /\ DiskInv' /\ Tree' = Tree \ {x} /\ InodesKept(imap)
      /\ Below(Tree, i) = {} /\ i \in Inodes
  BY NameRemoved
<1>2. x \in Tree /\ i # 0 /\ i \in imap /\ (imap' = imap \/ imap' = imap \ {i})
  <2>1. x \in Tree /\ (imap' = imap \/ imap' = imap \ {i})
    BY DEF Drops
  <2>2. i # 0 /\ i \in imap
    BY <2>1, NodesUsed DEF DiskInv, Shaped
  <2> QED
    BY <2>1, <2>2
<1>3. \A f \in Tree : f.dir # i
  BY <1>1 DEF Below
<1>4. (\E f \in Tree' : f.node = i) <=> i \in imap'
  <2>1. MapsExact'
    BY <1>1 DEF DiskInv
  <2>2. imap' = {0} \cup {e.node : e \in Tree'}
    BY <2>1 DEF MapsExact
  <2> QED
    BY <1>2, <2>2
<1>5. descriptors' = descriptors
  BY DEF descriptors
<1>51. Abs!Dir(p, x.dir) /\ Abs!Name(x.dir, Last(p), i) \in Tree
  BY AbsDir DEF IsName, Abs!Name, Edge
<1> HIDE DEF i
<1>6. CASE i \in imap'
  <2>1. imap' = imap
    BY <1>2, <1>6
  <2>2. Filled' /\ kind' = kind /\ text' = text
    BY <1>1, <2>1, AllFilesKept
  <2> QED
    BY <1>1, <1>2, <1>3, <1>4, <1>5, <1>51, <1>6, <2>2 DEF Abs!Unname, Abs!Name, Abs!Last, Last, i
<1>7. CASE i \notin imap'
  <2>1. imap' = imap \ {i}
    BY <1>2, <1>7
  <2>2. \A j \in imap' : /\ j \in imap /\ kind'[j] = kind[j] /\ text'[j] = text[j]
                         /\ table'[j].type = table[j].type /\ (table[j].type = "NF" => FilledAt(j)')
    BY <1>1, <2>1, FilesKept DEF InodesKept
  <2>3. \A j \in Inodes \ (imap \ {i}) : kind'[j] = "none" /\ text'[j] = <<>>
    BY <2>1 DEF kind, text
  <2>4. \A j \in Inodes \ imap : kind[j] = "none" /\ text[j] = <<>>
    BY NothingAnywhere
  <2>5. \A j \in Inodes : /\ kind'[j] = IF j = i THEN "none" ELSE kind[j]
                          /\ text'[j] = IF j = i THEN <<>> ELSE text[j]
    BY <1>1, <2>1, <2>2, <2>3, <2>4
  <2>6. /\ kind = [j \in Inodes |-> kind[j]] /\ text = [j \in Inodes |-> text[j]]
        /\ kind' = [j \in Inodes |-> kind'[j]] /\ text' = [j \in Inodes |-> text'[j]]
    BY DEF kind, text
  <2>7. kind' = [kind EXCEPT ![i] = "none"] /\ text' = [text EXCEPT ![i] = <<>>]
    BY <2>5, <2>6
  <2>8. Filled'
    BY <2>2 DEF Filled
  <2> QED
    BY <1>1, <1>2, <1>3, <1>4, <1>5, <1>51, <1>7, <2>7, <2>8 DEF Abs!Unname, Abs!Name, Abs!Last, Last, i
<1> QED
  BY <1>6, <1>7

(* A slot gets a descriptor of that node at that offset. *)
Puts(t, s, i, offset) ==
  descriptors' = [descriptors EXCEPT ![t][s] = [node |-> i, offset |-> offset]]

(* A descriptor of the tree is one of the files, without its copy of the inode. *)
LEMMA SlotPut ==
  ASSUME Copied, NEW t \in Tasks, NEW s \in Slots, NEW c \in [inode : Inode, offset : Nat],
         flides' = [flides EXCEPT ![t][s] = c]
  PROVE  c # NULL /\ c.inode.index \in Inodes /\ Puts(t, s, c.inode.index, c.offset)
<1>2. c # NULL /\ c.inode.index \in Inodes
  BY NullAssumption DEF Inode
<1>3. \A u \in Tasks, v \in Slots : flides'[u][v] = IF u = t /\ v = s THEN c ELSE flides[u][v]
  BY DEF Copied
<1> DEFINE d == [node |-> c.inode.index, offset |-> c.offset]
<1>4. descriptors' = [u \in Tasks |-> [v \in Slots |-> IF u = t /\ v = s THEN d ELSE descriptors[u][v]]]
  BY <1>2, <1>3 DEF descriptors
<1>5. descriptors = [u \in Tasks |-> [v \in Slots |-> descriptors[u][v]]]
  BY DEF descriptors
<1>6. descriptors' = [descriptors EXCEPT ![t][s] = d]
  BY <1>4, <1>5
<1> QED
  BY <1>2, <1>6 DEF Puts

(* What a descriptor is for the tree. *)
LEMMA SlotIs ==
  ASSUME Copied, NEW t \in Tasks, NEW s \in Slots
  PROVE  IF flides[t][s] = NULL THEN descriptors[t][s] = NULL
         ELSE /\ flides[t][s] \in Descriptors
              /\ descriptors[t][s] = [node |-> flides[t][s].inode.index, offset |-> flides[t][s].offset]
              /\ descriptors[t][s] # NULL
<1>1. flides[t][s] \in Descriptors \cup {NULL}
  BY DEF Copied
<1>2. ASSUME flides[t][s] # NULL
      PROVE  [node |-> flides[t][s].inode.index, offset |-> flides[t][s].offset] # NULL
  <2>1. flides[t][s] \in [inode : Inode, offset : Nat]
    BY <1>1, <1>2 DEF Descriptors
  <2>2. [node |-> flides[t][s].inode.index, offset |-> flides[t][s].offset] \in [node : Inodes, offset : Nat]
    BY <2>1 DEF Inode
  <2> QED
    BY <2>2, NullAssumption
<1> QED
  BY <1>1, <1>2 DEF descriptors

(* A step that writes nothing and moves no descriptor is none of the tree's. *)
LEMMA LookIs ==
  ASSUME FilesInv, Filled, UNCHANGED <<disk, flides>>
  PROVE  Filled' /\ UNCHANGED Abs!vars
<1>1. Filled' /\ Tree' = Tree /\ kind' = kind /\ text' = text
  BY SameFiles DEF FilesInv
<1>2. descriptors' = descriptors
  BY DEF descriptors
<1> QED
  BY <1>1, <1>2 DEF Abs!vars

(* The steps that write each are one of the tree's. *)
LEMMA OpenCreateIs ==
  ASSUME FilesInv, Filled, NEW t \in Tasks, OpenCreate(t)
  PROVE  Filled' /\ \E p \in Paths, d, i \in Inodes : Abs!Make(p, d, i, "NF")
<1>1. PICK p, f, i : p = call[t].path /\ f = call[t].father.index /\ i = call[t].index
  OBVIOUS
<1> DEFINE link == <<>>
<1>2. DiskInv /\ flides' = flides /\ InDir(p, f) /\ Makes(f, Last(p), i, "NF", link)
  BY <1>1, OpenCreateMakes DEF FilesInv, OpenCreate, Creating, IsFree
<1> HIDE DEF link
<1>3. Filled' /\ Abs!Make(p, f, i, "NF")
  BY <1>2, MadeIs
<1>4. p \in Paths /\ f \in Inodes /\ i \in Inodes
  BY <1>2 DEF InDir, Makes, Dirs, DiskInv, Typed
<1> QED
  BY <1>3, <1>4

LEMMA MkdirIs ==
  ASSUME FilesInv, Filled, NEW t \in Tasks, MkdirMake(t)
  PROVE  Filled' /\ \E p \in Paths, d, i \in Inodes : Abs!Make(p, d, i, "DR")
<1>1. PICK p, f, i, b : /\ p = call[t].path /\ f = call[t].father.index /\ i = call[t].index
                        /\ b = call[t].block
  OBVIOUS
<1> DEFINE link == <<b>>
<1>2. DiskInv /\ flides' = flides /\ InDir(p, f) /\ Makes(f, Last(p), i, "DR", link)
  BY <1>1, MkdirMakes DEF FilesInv, MkdirMake, Making, IsFree
<1> HIDE DEF link
<1>3. Filled' /\ Abs!Make(p, f, i, "DR")
  BY <1>2, MadeIs
<1>4. p \in Paths /\ f \in Inodes /\ i \in Inodes
  BY <1>2 DEF InDir, Makes, Dirs, DiskInv, Typed
<1> QED
  BY <1>3, <1>4

LEMMA RmIs ==
  ASSUME FilesInv, Filled, NEW t \in Tasks, RmDo(t)
  PROVE  Filled' /\ \E e \in Tree, p \in Paths : Abs!Unname(p, e)
<1>1. PICK x, p : /\ Drops(x) /\ x.dir = call[t].dir.index /\ x.node = call[t].inode.index
                  /\ p = call[t].path
  BY RmDrops
<1>2. DiskInv /\ flides' = flides /\ IsName(p, x.dir, x.node)
  BY <1>1, RmDrops DEF FilesInv, RmDo, Removing
<1>3. Filled' /\ x \in Tree /\ Abs!Unname(p, x)
  BY <1>1, <1>2, RemovedIs
<1>4. p \in Paths
  BY <1>2 DEF IsName, InDir
<1> QED
  BY <1>3, <1>4

LEMMA OpenSlotIs ==
  ASSUME FilesInv, Filled, NEW t \in Tasks, OpenSlot(t)
  PROVE  Filled' /\ \E s \in Slots, i \in Inodes, p \in Paths : Abs!Open(t, s, p, i)
<1>1. DiskInv /\ Copied /\ Locked /\ call[t].pc = "slot" /\ UNCHANGED disk
  BY DEF FilesInv, OpenSlot
<1>2. Opening(t)
  BY <1>1, OnlyOne, InsidePcs
<1>3. PICK s, p, inode : s = FirstSlot(t) /\ p = call[t].path /\ inode = call[t].cur
  OBVIOUS
<1>4. PICK c, i : c = [inode |-> inode, offset |-> 0] /\ i = inode.index
  OBVIOUS
<1>5. flides' = [flides EXCEPT ![t][s] = c]
  BY <1>3, <1>4 DEF OpenSlot
<1>6. PICK d \in Dirs : IsName(p, d, i)
  BY <1>2, <1>3, <1>4 DEF Opening
<1>7. s \in Slots /\ flides[t][s] = NULL
  BY <1>2, <1>3, FirstIsFree DEF Opening
<1>8. /\ i \in Inodes /\ d \in Inodes /\ c \in [inode : Inode, offset : Nat]
      /\ c.inode.index = i /\ c.offset = 0
  <2>1. IsCurrent(inode)
    BY <1>2, <1>3 DEF Opening
  <2>2. i \in Inodes /\ d \in Inodes /\ inode \in Inode
    BY <1>1, <1>4, <2>1 DEF IsCurrent, Dirs, DiskInv, Typed
  <2> QED
    BY <1>4, <2>2
<1>9. Filled' /\ Tree' = Tree /\ kind' = kind /\ text' = text
  BY <1>1, SameFiles
<1>10. descriptors' = [descriptors EXCEPT ![t][s] = [node |-> i, offset |-> 0]] /\ descriptors[t][s] = NULL
  <2>1. Puts(t, s, c.inode.index, c.offset)
    BY <1>1, <1>5, <1>7, <1>8, SlotPut
  <2> QED
    BY <1>1, <1>7, <1>8, <2>1, SlotIs DEF Puts
<1>11. Abs!Leads(p, i) /\ p \in Paths
  <2>1. Abs!Dir(p, d) /\ p \in Paths
    BY <1>6, AbsDir DEF IsName, InDir
  <2>2. Abs!Name(d, Abs!Last(p), i) \in Tree
    BY <1>6 DEF IsName, Edge, Abs!Name, Abs!Last, Last
  <2> QED
    BY <1>8, <2>1, <2>2 DEF Abs!Leads
<1>12. Abs!Open(t, s, p, i)
  BY <1>9, <1>10, <1>11 DEF Abs!Open
<1> QED
  BY <1>7, <1>8, <1>9, <1>11, <1>12

LEMMA LinkIs ==
  ASSUME FilesInv, Filled, NEW t \in Tasks, LinkEntry(t)
  PROVE  Filled' /\ \E s \in Slots, d \in Inodes, p \in Paths :
                       descriptors[t][s] # NULL /\ Abs!Link(t, s, p, d)
<1>1. PICK s, f, i, p, d : /\ s = call[t].slot /\ f = flides[t][s] /\ i = f.inode.index
                           /\ p = call[t].path /\ d = call[t].father.index
  OBVIOUS
<1>2. PICK inode, c : inode = Linked(table[i]) /\ c = [f EXCEPT !.inode = inode]
  OBVIOUS
<1>3. /\ DiskInv /\ Copied /\ Entering(t) /\ s \in Slots /\ f \in Descriptors
      /\ i \in imap /\ f.inode = table[i] /\ Adds(d, Last(p), i)
  BY <1>1, LinkAdds DEF FilesInv
<1>4. flides' = [flides EXCEPT ![t][s] = c]
  BY <1>1, <1>2, <1>3 DEF LinkEntry
<1>5. /\ DiskInv' /\ Tree' = Tree \cup {Edge(d, Last(p), i)} /\ InodesKept(imap) /\ imap' = imap
      /\ kind[d] = "DR" /\ kind[i] = "NF" /\ Unused(d, Last(p)) /\ i \in Inodes /\ d \in Inodes
  <2>1. DiskInv' /\ Tree' = Tree \cup {Edge(d, Last(p), i)} /\ InodesKept(imap) /\ imap' = imap
    BY <1>3, NameMade DEF Adds
  <2>2. i \in Inodes /\ d \in Dirs /\ d \in Inodes /\ d \in imap /\ table[i] \in Inode
    BY <1>3 DEF DiskInv, Typed, Adds, HasFather, Dirs
  <2>3. table[i].type = "NF" /\ Unused(d, Last(p))
    BY <1>3, <2>2 DEF Adds, Inode
  <2> QED
    BY <1>3, <2>1, <2>2, <2>3, NothingThere DEF Dirs
<1>6. Filled' /\ kind' = kind /\ text' = text
  BY <1>3, <1>5, AllFilesKept
<1>7. InDir(p, d)
  BY <1>1, <1>3 DEF Entering, IsFree
<1>8. descriptors[t][s] = [node |-> i, offset |-> f.offset] /\ descriptors[t][s] # NULL
  BY <1>1, <1>3, SlotIs, DescriptorsAre
<1>9. c \in [inode : Inode, offset : Nat] /\ c.inode.index = i /\ c.offset = f.offset
  <2>1. inode \in Inode /\ inode.index = f.inode.index
    BY <1>2, <1>3, LinkedMade DEF Descriptors
  <2> QED
    BY <1>1, <1>2, <1>3, <2>1 DEF Descriptors
<1>10. descriptors' = descriptors
  <2>1. Puts(t, s, c.inode.index, c.offset)
    BY <1>3, <1>4, <1>9, SlotPut
  <2>2. descriptors = [u \in Tasks |-> [v \in Slots |-> descriptors[u][v]]]
    BY DEF descriptors
  <2> QED
    BY <1>3, <1>8, <1>9, <2>1, <2>2 DEF Puts
<1>11. Abs!Free(p, d)
  <2>1. Abs!Dir(p, d)
    BY <1>7, AbsDir
  <2> QED
    BY <1>5, <2>1 DEF Abs!Free, Unused, Abs!Last, Last
<1>12. Abs!Link(t, s, p, d)
  BY <1>5, <1>6, <1>8, <1>10, <1>11 DEF Abs!Link, Abs!Name, Edge, Abs!Last, Last
<1> QED
  BY <1>3, <1>5, <1>6, <1>7, <1>8, <1>12 DEF InDir

LEMMA CloseIs ==
  ASSUME FilesInv, Filled, NEW t \in Tasks, NEW s \in Slots, Close(t, s)
  PROVE  Filled' /\ descriptors[t][s] # NULL /\ Abs!Close(t, s)
<1>1. /\ DiskInv /\ Copied /\ Locked /\ Filled /\ UNCHANGED disk /\ call' = call
      /\ call[t] = Idle /\ flides[t][s] # NULL /\ flides' = [flides EXCEPT ![t][s] = NULL]
  BY DEF FilesInv, Filled, Close
<1>2. Filled' /\ Tree' = Tree /\ kind' = kind /\ text' = text
  BY <1>1, SameFiles
<1>3. descriptors' = [descriptors EXCEPT ![t][s] = NULL]
  <2>1. \A u \in Tasks, v \in Slots : flides'[u][v] = IF u = t /\ v = s THEN NULL ELSE flides[u][v]
    BY <1>1 DEF Copied
  <2>2. descriptors' = [u \in Tasks |-> [v \in Slots |-> IF u = t /\ v = s THEN NULL ELSE descriptors[u][v]]]
    BY <2>1 DEF descriptors
  <2>3. descriptors = [u \in Tasks |-> [v \in Slots |-> descriptors[u][v]]]
    BY DEF descriptors
  <2> QED
    BY <2>2, <2>3
<1>4. Abs!Close(t, s)
  BY <1>2, <1>3 DEF Abs!Close
<1> QED
  BY <1>1, <1>2, <1>4, SlotIs

LEMMA LseekIs ==
  ASSUME FilesInv, Filled, NEW t \in Tasks, NEW s \in Slots,
         NEW whence \in {"S_SET", "S_CUR", "S_END"}, NEW x \in Int, Lseek(t, s, whence, x)
  PROVE  Filled' /\ descriptors[t][s] # NULL /\ Abs!Seek(t, s)
<1> DEFINE f == flides[t][s]
           o == Sought(f, whence, x)
           c == [f EXCEPT !.offset = o]
<1>1. /\ DiskInv /\ Copied /\ Locked /\ Filled /\ UNCHANGED disk /\ call' = call
      /\ call[t] = Idle /\ f # NULL /\ flides' = [flides EXCEPT ![t][s] = c]
  BY DEF FilesInv, Filled, Lseek
<1>2. Filled' /\ Tree' = Tree /\ kind' = kind /\ text' = text
  BY <1>1, SameFiles
<1>3. f \in Descriptors
  BY <1>1 DEF Copied
<1>4. c \in [inode : Inode, offset : Nat] /\ c.inode = f.inode /\ c.offset = o /\ o \in Nat
  <2>1. o \in Nat
    BY <1>3, SoughtWithin
  <2> HIDE DEF o
  <2> QED
    BY <1>3, <2>1 DEF Descriptors
<1>5. descriptors[t][s] = [node |-> f.inode.index, offset |-> f.offset] /\ descriptors[t][s] # NULL
  BY <1>1, SlotIs
<1> HIDE DEF f, c, o
<1>6. Puts(t, s, f.inode.index, o)
  <2>1. Puts(t, s, c.inode.index, c.offset)
    BY <1>1, <1>4, SlotPut
  <2> QED
    BY <1>4, <2>1
<1>7. descriptors' = [descriptors EXCEPT ![t][s].offset = descriptors'[t][s].offset]
  <2> DEFINE d == [node |-> f.inode.index, offset |-> o]
  <2>1. descriptors = [u \in Tasks |-> [v \in Slots |-> descriptors[u][v]]]
    BY DEF descriptors
  <2>2. descriptors' = [descriptors EXCEPT ![t][s] = d]
    BY <1>6 DEF Puts
  <2>3. descriptors'[t][s] = d /\ d.offset = o
    BY <2>1, <2>2
  <2>4. [descriptors[t][s] EXCEPT !.offset = o] = d
    BY <1>5
  <2>5. [descriptors EXCEPT ![t][s].offset = o] = [descriptors EXCEPT ![t][s] = d]
    BY <2>1, <2>4
  <2> QED
    BY <2>2, <2>3, <2>5
<1>8. Abs!Seek(t, s)
  BY <1>2, <1>7 DEF Abs!Seek
<1> QED
  BY <1>2, <1>5, <1>8

LEMMA WriteIs ==
  ASSUME FilesInv, Filled, NEW t \in Tasks, NEW w \in Writes, WriteDo(t, w)
  PROVE  Filled' /\ \E s \in Slots : descriptors[t][s] # NULL /\ Abs!Write(t, s, w)
<1>0. PICK s, f : s = call[t].slot /\ f = flides[t][s]
  OBVIOUS
<1> DEFINE i == f.inode.index
           b == Target(f)
           more == WithTarget(f)
           size == f.offset + Len(w)
           here == Filling(f, w)
           inode == Grown([table[i] EXCEPT !.link = more], size)
           c == [f EXCEPT !.inode = inode]
<1>1. DiskInv /\ Copied /\ Locked
  BY DEF FilesInv
<1>2. /\ s \in Slots /\ f \in Descriptors /\ f.inode = table[i] /\ Len(w) \in Nat \ {0}
      /\ Remain(f.offset) + Len(w) <= BLOCK_BYTES
      /\ IF NeedsBlock(f.inode, f.offset) THEN b \in Blocks \ dmap
         ELSE f.offset \div BLOCK_BYTES + 1 \in 1 .. Len(f.inode.link)
      /\ Fills(i, b, more, size, here)
      /\ flides' = [flides EXCEPT ![t][s].inode = inode]
  BY <1>0, WriteFills
<1>3. /\ i \in imap /\ i \in Inodes /\ table[i].type = "NF" /\ table[i] \in Inode /\ table[i].index = i
      /\ imap' = imap /\ more \in Seq(Blocks) /\ size \in Nat
  BY <1>1, <1>2 DEF Fills, DiskInv, Typed, Named
<1>4. FilledAt(i)
  BY <1>1, <1>3 DEF Filled
<1>5. /\ FilledAt(i)' /\ f.offset <= Len(Text(i))
      /\ Text(i)' = Abs!Overwritten(Text(i), f.offset, w)
  <2>1. w \in Seq(Chars)
    BY WritesAre
  <2> QED
    BY <1>1, <1>2, <1>4, <2>1, WriteText
<1>6. inode \in Inode /\ inode.index = i /\ inode.type = "NF"
  <2> HIDE DEF i, more, size
  <2> QED
    BY <1>3, GrownMade
<1> HIDE DEF i, b, more, size, here
<1>7. DiskInv' /\ Tree' = Tree /\ InodesKept(imap \ {i}) /\ table'[i] = inode
  <2>1. DiskInv' /\ Wrote(i, b, more, size, here)
    BY <1>1, <1>2, TextWritten
  <2> QED
    BY <2>1 DEF Wrote
<1>8. flides' = [flides EXCEPT ![t][s] = c]
  BY <1>0, <1>2
<1>9. c \in [inode : Inode, offset : Nat] /\ c.inode.index = i /\ c.offset = f.offset
  <2> HIDE DEF inode
  <2> QED
    BY <1>2, <1>6 DEF Descriptors
<1>10. descriptors[t][s] = [node |-> i, offset |-> f.offset] /\ descriptors[t][s] # NULL
  BY <1>0, <1>1, <1>2, SlotIs, DescriptorsAre DEF i
<1> HIDE DEF c, inode
<1>11. descriptors' = descriptors
  <2>1. Puts(t, s, c.inode.index, c.offset)
    BY <1>1, <1>2, <1>8, <1>9, SlotPut
  <2>2. descriptors = [u \in Tasks |-> [v \in Slots |-> descriptors[u][v]]]
    BY DEF descriptors
  <2> QED
    BY <1>2, <1>9, <1>10, <2>1, <2>2 DEF Puts
<1>12. \A j \in imap \ {i} : /\ j \in Inodes /\ kind'[j] = kind[j] /\ text'[j] = text[j]
                            /\ table'[j].type = table[j].type /\ (table[j].type = "NF" => FilledAt(j)')
  BY <1>1, <1>3, <1>7, FilesKept DEF InodesKept, DiskInv, Typed
<1>13. /\ kind[i] = "NF" /\ kind'[i] = "NF" /\ text[i] = Text(i) /\ text'[i] = Text(i)'
  BY <1>3, <1>6, <1>7 DEF kind, text
<1>14. \A j \in Inodes \ imap : kind'[j] = kind[j] /\ text'[j] = text[j]
  BY <1>3 DEF kind, text
<1>15. /\ kind = [j \in Inodes |-> kind[j]] /\ text = [j \in Inodes |-> text[j]]
       /\ kind' = [j \in Inodes |-> kind'[j]] /\ text' = [j \in Inodes |-> text'[j]]
  BY DEF kind, text
<1> DEFINE new == Abs!Overwritten(text[i], f.offset, w)
<1>16. text'[i] = new
  BY <1>5, <1>13
<1> HIDE DEF new
<1>17. kind' = kind
  BY <1>12, <1>13, <1>14, <1>15
<1>18. text' = [text EXCEPT ![i] = new]
  <2>1. \A j \in Inodes : text'[j] = IF j = i THEN new ELSE text[j]
    BY <1>12, <1>14, <1>16
  <2> QED
    BY <1>15, <2>1
<1>19. Abs!Write(t, s, w)
  <2> DEFINE d == descriptors[t][s]
  <2>1. d.node = i /\ d.offset = f.offset
    BY <1>10
  <2> HIDE DEF d
  <2>2. d.offset <= Len(text[d.node]) /\ kind[d.node] = "NF"
    BY <1>5, <1>13, <2>1
  <2>3. text' = [text EXCEPT ![d.node] = Abs!Overwritten(text[d.node], d.offset, w)]
    BY <1>18, <2>1 DEF new
  <2>4. UNCHANGED <<Tree, kind, descriptors>>
    BY <1>7, <1>11, <1>17
  <2> QED
    BY <2>2, <2>3, <2>4 DEF Abs!Write, d
<1>20. Filled'
  BY <1>3, <1>5, <1>12 DEF Filled
<1> QED
  BY <1>2, <1>10, <1>19, <1>20

LEMMA InitText == Init => Filled /\ Abs!Init
<1> SUFFICES ASSUME Init PROVE Filled /\ Abs!Init
  OBVIOUS
<1>1. FilesInv
  BY InitHolds
<1>2. imap = {0} /\ 0 \in Inodes /\ table[0].type = "DR"
  <2>1. imap = {0} /\ 0 \in Inodes
    BY FilesAssumption DEF Init, Inodes
  <2> QED
    BY <1>1, <2>1 DEF FilesInv, DiskInv, Shaped
<1>3. Filled
  BY <1>2 DEF Filled
<1>4. Tree = {}
  <2>1. \A e \in Tree : e.node = 0
    BY <1>1, <1>2 DEF FilesInv, DiskInv, MapsExact
  <2> QED
    BY <1>1, <2>1 DEF FilesInv, DiskInv, Shaped
<1>5. kind = [j \in Inodes |-> IF j = 0 THEN "DR" ELSE "none"]
  BY <1>2 DEF kind
<1>6. text = [j \in Inodes |-> <<>>]
  BY <1>5 DEF text
<1>7. descriptors = [t \in Tasks |-> [s \in Slots |-> NULL]]
  BY DEF Init, descriptors
<1> QED
  BY <1>3, <1>4, <1>5, <1>6, <1>7 DEF Abs!Init

LEMMA StepIs ==
  FilesInv /\ Filled /\ [Next /\ Careful']_vars => Filled' /\ [Abs!Next]_(Abs!vars)
<1> SUFFICES ASSUME FilesInv, Filled, [Next /\ Careful']_vars
             PROVE  Filled' /\ [Abs!Next]_(Abs!vars)
  OBVIOUS
<1>1. ASSUME UNCHANGED <<disk, flides>> PROVE Filled' /\ UNCHANGED Abs!vars
  BY <1>1, LookIs
<1>2. UNCHANGED vars => UNCHANGED <<disk, flides>>
  BY DEF vars
<1>3. ASSUME NEW t \in Tasks, NEW p \in Paths,
             \/ OpenMissing(t, p) \/ MkdirLook(t, p) \/ RmLook(t, p)
             \/ \E q \in Paths \cup {<<>>} : OpenLook(t, p, q)
      PROVE  UNCHANGED <<disk, flides>>
  BY <1>2, <1>3 DEF OpenMissing, MkdirLook, RmLook, OpenLook
<1>4. ASSUME NEW t \in Tasks, LinkLook(t) \/ \E s \in Slots : WriteLook(t, s)
      PROVE  UNCHANGED <<disk, flides>>
  BY <1>4 DEF LinkLook, WriteLook
<1>5. ASSUME NEW t \in Tasks, OpenCreate(t) \/ MkdirMake(t) PROVE Filled' /\ Abs!Next
  BY <1>5, OpenCreateIs, MkdirIs DEF Abs!Next
<1>6. ASSUME NEW t \in Tasks, RmDo(t) PROVE Filled' /\ Abs!Next
  BY <1>6, RmIs DEF Abs!Next
<1>7. ASSUME NEW t \in Tasks, OpenSlot(t) PROVE Filled' /\ Abs!Next
  BY <1>7, OpenSlotIs DEF Abs!Next
<1>8. ASSUME NEW t \in Tasks, LinkEntry(t) PROVE Filled' /\ Abs!Next
  BY <1>8, LinkIs DEF Abs!Next
<1>9. ASSUME NEW t \in Tasks, NEW w \in Writes, WriteDo(t, w) PROVE Filled' /\ Abs!Next
  BY <1>9, WriteIs DEF Abs!Next
<1>10. ASSUME NEW t \in Tasks, NEW s \in Slots, Close(t, s) PROVE Filled' /\ Abs!Next
  BY <1>10, CloseIs DEF Abs!Next
<1>11. ASSUME NEW t \in Tasks, NEW s \in Slots, NEW whence \in {"S_SET", "S_CUR", "S_END"},
              NEW x \in {-1, 0, 1}, Lseek(t, s, whence, x)
       PROVE  Filled' /\ Abs!Next
  <2>1. x \in Int
    OBVIOUS
  <2> QED
    BY <1>11, <2>1, LseekIs DEF Abs!Next
<1> QED
  BY <1>1, <1>2, <1>3, <1>4, <1>5, <1>6, <1>7, <1>8, <1>9, <1>10, <1>11 DEF Next

-----------------------------------------------------------------------------
(* Reading *)

(* One part alone is the whole. *)
LEMMA FlattenOne ==
  ASSUME NEW x, NEW ss, ss = [j \in 1 .. 1 |-> x]
  PROVE  FlattenSeq(ss) = x
<1>1. Len(ss) = 1 /\ ss[1] = x
  OBVIOUS
<1> DEFINE flatten == CHOOSE flatten :
             flatten = [i \in 1 .. Len(ss) |-> IF i = 1 THEN ss[i] ELSE flatten[i - 1] \o ss[i]]
<1>2. flatten = [i \in 1 .. Len(ss) |-> IF i = 1 THEN ss[i] ELSE flatten[i - 1] \o ss[i]]
  <2> DEFINE g == [i \in 1 .. 1 |-> x]
  <2>1. g = [i \in 1 .. Len(ss) |-> IF i = 1 THEN ss[i] ELSE g[i - 1] \o ss[i]]
    <3>1. \A i \in 1 .. 1 : i = 1
      OBVIOUS
    <3> QED
      BY <1>1, <3>1
  <2> HIDE DEF g
  <2> QED
    BY <2>1
<1>3. FlattenSeq(ss) = flatten[1]
  BY <1>1 DEF FlattenSeq
<1> HIDE DEF flatten
<1>4. flatten[1] = ss[1]
  BY <1>1, <1>2
<1> QED
  BY <1>1, <1>3, <1>4

(* Reading in the last block of a file takes what is there from the offset on. *)
LEMMA ReadIs ==
  ASSUME Typed, Sized, NEW f, f.inode.index \in imap, f.inode = table[f.inode.index],
         f.inode.type = "NF", FilledAt(f.inode.index), f.offset \in Nat,
         f.offset \div BLOCK_BYTES >= Len(f.inode.link) - 1, f.offset < f.inode.size
  PROVE  ReadText(f) = SubSeq(Text(f.inode.index), f.offset + 1, f.inode.size)
<1> DEFINE i == f.inode.index
           link == f.inode.link
           z == f.inode.size
           n == Len(link)
           o == f.offset
           B == BLOCK_BYTES
           q == o \div B
           r == Remain(o)
           m == q * B
           here == data[link[q + 1]]
           T == Text(i)
<1>1. f.inode = table[i] /\ f.inode \in Inode /\ i \in imap
  BY DEF Typed
<1>2. /\ z \in Nat /\ link \in Seq(Blocks) /\ n \in Nat /\ o \in Nat /\ o < z /\ B \in Nat \ {0}
      /\ z <= n * B
  <2>1. z \in Nat /\ link \in Seq(Blocks)
    BY <1>1 DEF Inode
  <2>2. z <= n * B
    BY <1>1 DEF Sized
  <2> QED
    BY <2>1, <2>2, LenProperties, FilesAssumption
<1>3. q \in Nat /\ r \in Nat /\ r < B /\ o = m + r /\ m \in Nat
  <2> HIDE DEF o, B
  <2> QED
    BY <1>2 DEF Remain, B
<1>4. TextRead(i)
  BY <1>1, TextsAre DEF TextsRead
<1>5. /\ T \in Seq(Chars) /\ Len(T) = z
      /\ \A k \in 1 .. z : At(k) \in 1 .. n /\ T[k] = data[link[At(k)]][Place(k)]
  BY <1>1, <1>4 DEF TextRead
<1>6. \A k \in 1 .. n : /\ data[link[k]] \in Seq(Chars)
                       /\ Len(data[link[k]]) = IF k < n THEN B ELSE z - (k - 1) * B
  BY <1>1 DEF FilledAt
<1>7. q >= n - 1
  OBVIOUS
<1>8. ReadText(f) = FlattenSeq([j \in 1 .. n - q |-> ReadBlock(f, q + j - 1)])
  BY DEF ReadText
<1>9. ReadBlock(f, q) = [j \in 1 .. Left(f, q) |-> IF r + j \in DOMAIN here THEN here[r + j] ELSE NULL]
  BY DEF ReadBlock
<1>10. Left(f, q) = IF q < n - 1 THEN B - r ELSE z - (n - 1) * B - r
  BY DEF Left
<1> HIDE DEF i, link, z, n, o, B, q, r, T
<1>11. n = q + 1
  <2>1. At(o + 1) \in 1 .. n
    BY <1>2, <1>5
  <2> DEFINE k == o + 1
  <2>3. k - 1 = o
    BY <1>2
  <2> HIDE DEF k
  <2>4. At(k) = q + 1
    BY <2>3 DEF At, q, B
  <2> QED
    BY <1>2, <1>3, <1>7, <2>1, <2>4 DEF k
<1>12. (n - 1) * B = m /\ n * B = m + B
  BY <1>2, <1>3, <1>11
<1>13. here \in Seq(Chars) /\ Len(here) = z - m
  <2> DEFINE p == q + 1
  <2>1. p \in 1 .. n /\ ~(p < n) /\ here = data[link[p]] /\ p - 1 = q
    BY <1>2, <1>3, <1>11
  <2> HIDE DEF p
  <2>2. (p - 1) * B = m
    BY <2>1
  <2> HIDE DEF here, m
  <2> QED
    BY <1>6, <2>1, <2>2
<1> HIDE DEF m, here
<1>14. z - m - r = z - o /\ z - o \in Nat /\ z <= m + B
  BY <1>2, <1>3, <1>12
<1>15. Left(f, q) = z - o
  BY <1>2, <1>3, <1>10, <1>11, <1>12, <1>14
<1>16. ReadText(f) = ReadBlock(f, q)
  <2> DEFINE ss == [j \in 1 .. n - q |-> ReadBlock(f, q + j - 1)]
             x == ReadBlock(f, q)
  <2>1. n - q = 1 /\ q + 1 - 1 = q /\ \A j \in 1 .. 1 : j = 1
    BY <1>3, <1>11
  <2>2. ss = [j \in 1 .. 1 |-> x]
    BY <2>1
  <2> HIDE DEF ss, x
  <2>3. FlattenSeq(ss) = x
    BY <2>2, FlattenOne
  <2> QED
    BY <1>8, <2>3 DEF ss, x
<1>17. ASSUME NEW j \in 1 .. z - o
       PROVE  T[o + j] = IF r + j \in DOMAIN here THEN here[r + j] ELSE NULL
  <2> DEFINE k == o + j
             a == r + j
  <2>1. k \in 1 .. z /\ k \in Nat \ {0} /\ a \in 1 .. Len(here) /\ a \in 1 .. B /\ k = m + a
    BY <1>2, <1>3, <1>13, <1>14
  <2>2. a \in DOMAIN here
    BY <1>13, <2>1
  <2> HIDE DEF k, a
  <2>3. At(k) \in 1 .. n /\ T[k] = data[link[At(k)]][Place(k)]
    BY <1>5, <2>1
  <2>4. At(k) = q + 1 /\ Place(k) = a
    <3> DEFINE p == At(k) - 1
    <3>4. At(k) \in Nat \ {0} /\ Place(k) \in 1 .. B /\ k = (At(k) - 1) * B + Place(k)
      BY <2>1, Places DEF B
    <3>1. p \in Nat /\ Place(k) \in 1 .. B /\ k = p * B + Place(k) /\ At(k) = p + 1
      BY <3>4
    <3> HIDE DEF p
    <3>2. q * B + a = p * B + Place(k)
      BY <2>1, <3>1 DEF m
    <3>3. q = p /\ a = Place(k)
      BY <1>3, <2>1, <3>1, <3>2, SamePlace DEF B
    <3> QED
      BY <3>1, <3>3
  <2>5. T[k] = here[a]
    BY <2>3, <2>4 DEF here
  <2> QED
    BY <2>2, <2>5 DEF k, a
<1>18. SubSeq(T, o + 1, z) = [j \in 1 .. z - o |-> T[o + j]]
  <2> DEFINE y == SubSeq(T, o + 1, z)
             a == o + 1
             l == z - o
  <2>1. z - a + 1 = l /\ a \in 1 .. Len(T) + 1 /\ z \in a - 1 .. Len(T) /\ a \in Int /\ l \in Nat
        /\ \A j \in Int : a + j - 1 = o + j
    BY <1>2, <1>5
  <2>2. y = SubSeq(T, a, z)
    OBVIOUS
  <2> HIDE DEF y, a, l
  <2>3. y \in Seq(Chars) /\ Len(y) = l /\ \A j \in 1 .. l : y[j] = T[a + j - 1]
    BY <1>2, <1>5, <2>1, <2>2
  <2>4. \A j \in 1 .. l : y[j] = T[o + j]
    <3>1. \A j \in 1 .. l : j \in Int
      OBVIOUS
    <3> QED
      BY <2>1, <2>3, <3>1
  <2>5. y = [j \in 1 .. l |-> y[j]]
    BY <2>3
  <2>6. y = [j \in 1 .. l |-> T[o + j]]
    BY <2>4, <2>5
  <2> QED
    BY <2>6 DEF y, l
<1>19. ReadBlock(f, q) = [j \in 1 .. z - o |-> T[o + j]]
  BY <1>9, <1>15, <1>17
<1> QED
  BY <1>16, <1>18, <1>19 DEF T, o, z, i

LEMMA InvReads == FilesInv /\ Filled => ReadsBack
<1> SUFFICES ASSUME FilesInv, Filled, NEW t \in Tasks, NEW s \in Slots,
                    flides[t][s] # NULL, Current(t, s), flides[t][s].inode.type = "NF",
                    flides[t][s].offset \div BLOCK_BYTES >= Len(flides[t][s].inode.link) - 1,
                    flides[t][s].offset < flides[t][s].inode.size
             PROVE  LET f == flides[t][s]
                    IN  ReadText(f) = SubSeq(Text(f.inode.index), f.offset + 1, f.inode.size)
  BY DEF ReadsBack
<1> DEFINE f == flides[t][s]
<1>1. Typed /\ Sized /\ Filled /\ f \in Descriptors
  BY DEF FilesInv, DiskInv, Copied
<1>2. f.inode.index \in imap /\ f.inode = table[f.inode.index] /\ f.offset \in Nat
  BY <1>1 DEF Current, Descriptors
<1>3. FilledAt(f.inode.index)
  BY <1>1, <1>2 DEF Filled
<1>4. /\ f.inode.type = "NF" /\ f.offset < f.inode.size
      /\ f.offset \div BLOCK_BYTES >= Len(f.inode.link) - 1
  OBVIOUS
<1> HIDE DEF f
<1>5. ReadText(f) = SubSeq(Text(f.inode.index), f.offset + 1, f.inode.size)
  BY <1>1, <1>2, <1>3, <1>4, ReadIs
<1> QED
  BY <1>5 DEF f

(* The text of files as the blocks keep it, along any order of calls. *)
THEOREM TextInvariant == CarefulSpec => [](FilesInv /\ Filled)
<1>1. Init => FilesInv /\ Filled
  BY InitHolds, InitText
<1>2. FilesInv /\ Filled /\ [Next /\ Careful']_vars => FilesInv' /\ Filled'
  BY StepKeeps, StepIs
<1> QED
  BY <1>1, <1>2, PTL DEF CarefulSpec

(* What is read in the last block of a file is what was written there. *)
THEOREM ReadsGiveBack == CarefulSpec => []ReadsBack
<1>1. FilesInv /\ Filled => ReadsBack
  BY InvReads
<1> QED
  BY <1>1, TextInvariant, PTL

(* The file system implements FilesAbs: open, mkdir, rmdir, link, unlink, write, lseek and
   close each are one step of the tree of names, or none, and change no other file's text. *)
THEOREM TreeImplemented == CarefulSpec => ImplementsTree
<1>1. Init => Abs!Init
  BY InitText
<1>2. FilesInv /\ Filled /\ [Next /\ Careful']_vars => [Abs!Next]_(Abs!vars)
  BY StepIs
<1> QED
  BY <1>1, <1>2, TextInvariant, PTL DEF CarefulSpec, ImplementsTree, Abs!Spec

=============================================================================
