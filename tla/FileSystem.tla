----------------------------- MODULE FileSystem -----------------------------
(***************************************************************************)
(* The file system of snfs_server/fs.c: a table of inodes, two bitmaps,    *)
(* blocks that hold file data or pages of directory entries, and three     *)
(* caches: of blocks, of directory pages (above the block cache) and of    *)
(* inodes.  Each call is one action, as if nothing ran beside it; what     *)
(* handlers that run in parallel do to the caches is in ParallelReads.     *)
(*                                                                         *)
(* The size of a directory is counted in entries, of which a block holds   *)
(* DIR_PAGE_ENTRIES.  A cache is a sequence of entries, the last used      *)
(* first.  Bitmaps and inode table are also written to reserved blocks     *)
(* that are read only at start: these copies are left out.  So is the      *)
(* flush of entries that are dirty for WRITEBACK_INTERVAL: entries are     *)
(* dirty only during a call, and which of them reach the disk before its   *)
(* end no other call can see.                                              *)
(***************************************************************************)
EXTENDS Integers, SequencesExt, FiniteSetsExt

CONSTANTS
    ITAB_SIZE, NUM_BLOCKS, RESERVED, INODE_NUM_BLKS,
    BLOCK_SIZE, DIR_PAGE_ENTRIES,
    BLOCK_CACHE_SIZE, INODE_CACHE_SIZE, DIR_CACHE_SIZE,
    NULL,
    \* The workload.
    Name,         \* the names of files
    Path,         \* the paths that are looked up, as sequences of names
    Data,         \* what is written
    Offset        \* where it is written, and read

ASSUME GeometryAssumption ==
    /\ {ITAB_SIZE, NUM_BLOCKS, RESERVED} \subseteq Nat \ {0}
    /\ {INODE_NUM_BLKS, BLOCK_SIZE, DIR_PAGE_ENTRIES} \subseteq Nat \ {0}
    /\ ITAB_SIZE > 1                                       \* there is a root
    /\ RESERVED <= NUM_BLOCKS
    /\ ITAB_SIZE - 2 <= INODE_NUM_BLKS * DIR_PAGE_ENTRIES   \* no directory overflows

ASSUME CacheAssumption ==
    {BLOCK_CACHE_SIZE, INODE_CACHE_SIZE, DIR_CACHE_SIZE} \subseteq Nat \ {0}

ASSUME WorkloadAssumption ==
    /\ Path \subseteq Seq(Name)
    /\ Data \subseteq Seq(UNION {ToSet(data) : data \in Data})
    /\ Offset \subseteq Nat

ROOT == 1
Inode == 1 .. ITAB_SIZE - 1
Block == 0 .. NUM_BLOCKS - 1

ASSUME NullAssumption == NULL \notin Inode

VARIABLES
    mem,          \* disk: the blocks; bc, dc: the caches of blocks and pages
    icache,       \* the inode cache
    inode_tab, inode_bmap, blk_bmap,
    fault         \* a call that went wrong beyond repair: see below

fsVars == <<mem, icache, inode_tab, inode_bmap, blk_bmap, fault>>

NewInode(type) == [type |-> type, size |-> 0,
                   blocks |-> [i \in 0 .. INODE_NUM_BLKS - 1 |-> 0]]

ZeroBlock == [i \in 0 .. Max({BLOCK_SIZE, DIR_PAGE_ENTRIES}) - 1 |-> NULL]

\* fs_new and fs_format, called when the server starts.
FsInit ==
    /\ mem = [disk |-> [b \in Block |-> ZeroBlock], bc |-> << >>, dc |-> << >>]
    /\ icache = << >>
    /\ inode_tab = [i \in Inode |-> NewInode(IF i = ROOT THEN "dir" ELSE "none")]
    /\ inode_bmap = {0, ROOT}
    /\ blk_bmap = 0 .. RESERVED - 1
    /\ fault = "no"

\* The k lowest numbers in s, in ascending order.
Lowest(s, k) == [i \in 1 .. k |-> CHOOSE b \in s : Cardinality({x \in s : x <= b}) = i]

-----------------------------------------------------------------------------
(* Caches.                                                                 *)

Entry(key, data, dirty) == [key |-> key, data |-> data, dirty |-> dirty]

Cached(c, key) == \E i \in DOMAIN c : c[i].key = key
Place(c, key) == CHOOSE i \in DOMAIN c : c[i].key = key
Lookup(c, key) == c[Place(c, key)]
Without(c, key) == IF Cached(c, key) THEN RemoveAt(c, Place(c, key)) ELSE c

\* The entry given up for a new one: the clean one used least recently, or else
\* the dirty one.
Victim(c) == LET clean == {i \in DOMAIN c : ~c[i].dirty}
             IN  IF clean # {} THEN Max(clean) ELSE Len(c)

Full(c, key, size) == ~Cached(c, key) /\ Len(c) >= size

\* Mutant: nothing is given up.
UseKeeping(c, e, size) == <<e>> \o Without(c, e.key)

\* c with e in front.
Use(c, e, size) ==
    <<e>> \o (IF Full(c, e.key, size) THEN RemoveAt(c, Victim(c))
              ELSE Without(c, e.key))

\* m once a slot was found for block b.
EvictBlock(m, b) ==
    IF Full(m.bc, b, BLOCK_CACHE_SIZE) /\ m.bc[Victim(m.bc)].dirty
    THEN LET v == m.bc[Victim(m.bc)] IN [m EXCEPT !.disk[v.key] = v.data]
    ELSE m

bc_data(m, b) ==
    IF Cached(m.bc, b) THEN Lookup(m.bc, b).data ELSE m.disk[b]

bc_read(m, b) ==
    LET e == IF Cached(m.bc, b) THEN Lookup(m.bc, b)
             ELSE Entry(b, m.disk[b], FALSE)
    IN  [EvictBlock(m, b) EXCEPT !.bc = Use(@, e, BLOCK_CACHE_SIZE)]

bc_write(m, b, data) ==
    [EvictBlock(m, b) EXCEPT !.bc = Use(@, Entry(b, data, TRUE), BLOCK_CACHE_SIZE)]

\* The same for the page of directory d in block b, above the block cache.
EvictPage(m, key) ==
    IF Full(m.dc, key, DIR_CACHE_SIZE) /\ m.dc[Victim(m.dc)].dirty
    THEN LET v == m.dc[Victim(m.dc)] IN bc_write(m, v.key[2], v.data)
    ELSE m

dc_data(m, d, b) ==
    IF Cached(m.dc, <<d, b>>) THEN Lookup(m.dc, <<d, b>>).data ELSE bc_data(m, b)

dc_read(m, d, b) ==
    LET key == <<d, b>>
        e == IF Cached(m.dc, key) THEN Lookup(m.dc, key)
             ELSE Entry(key, bc_data(m, b), FALSE)
        below == IF Cached(m.dc, key) THEN m ELSE bc_read(EvictPage(m, key), b)
    IN  [below EXCEPT !.dc = Use(m.dc, e, DIR_CACHE_SIZE)]

dc_write(m, d, b, page) ==
    LET e == Entry(<<d, b>>, page, TRUE)
    IN  [EvictPage(m, e.key) EXCEPT !.dc = Use(m.dc, e, DIR_CACHE_SIZE)]

\* An inode is written to inode_tab whenever it is marked dirty (ic_dirty), so
\* that an eviction has nothing to write.
ic_get(ic, id) ==
    Use(ic, IF Cached(ic, id) THEN Lookup(ic, id)
            ELSE Entry(id, inode_tab[id], FALSE), INODE_CACHE_SIZE)

\* The inode that a call sees after ic_get.
SeenInode(id) ==
    IF Cached(icache, id) THEN Lookup(icache, id).data ELSE inode_tab[id]

\* Mutant: the blocks stay in the cache.
StoreBlocksNot(m) == m

\* c with all its entries clean.
Cleaned(c) == [i \in DOMAIN c |-> Entry(c[i].key, c[i].data, FALSE)]

Flush(disk, e) == IF e.dirty THEN [disk EXCEPT ![e.key] = e.data] ELSE disk

StoreBlocks(m) == [m EXCEPT !.disk = FoldLeft(Flush, @, m.bc), !.bc = Cleaned(@)]

FlushPage(m, e) == IF e.dirty THEN bc_write(m, e.key[2], e.data) ELSE m

\* The pages are flushed to the block cache, which is then flushed to the disk.
fsi_store_fsdata(m) ==
    StoreBlocks([FoldLeft(FlushPage, m, m.dc) EXCEPT !.dc = Cleaned(@)])

-----------------------------------------------------------------------------
(* Helpers of the calls.                                                   *)

\* The number of parts of the given length that hold n units.
Parts(n, length) == (n + length - 1) \div length

\* Mutant: the last part of a block is not counted.
OFFSET_TO_BLOCKS_Down(pos) == pos \div BLOCK_SIZE

OFFSET_TO_BLOCKS(pos) == Parts(pos, BLOCK_SIZE)

Pages(n) == Parts(n, DIR_PAGE_ENTRIES)

\* Mutant: every block is used from its start.
StartOfBlock(num, o) == 0

\* Where in its block the next byte of a call is, num bytes being done.
Start(num, o) == IF num = 0 THEN o % BLOCK_SIZE ELSE 0

\* The first n entries of directory d, whose inode is idir.
Entries(m, d, idir, n) ==
    [k \in 1 .. n |-> dc_data(m, d, idir.blocks[(k - 1) \div DIR_PAGE_ENTRIES])
                         [(k - 1) % DIR_PAGE_ENTRIES]]

\* Mutant: only the first page is searched.
PositionInFirstPage(m, d, idir, n) ==
    LET e == Entries(m, d, idir, Min({idir.size, DIR_PAGE_ENTRIES}))
        match == {k \in DOMAIN e : e[k][1] = n}
    IN  IF match = {} THEN 0 ELSE Min(match)

\* fsi_dir_search: the position of the entry with this name, 0 if there is none.
Position(m, d, idir, n) ==
    LET e == Entries(m, d, idir, idir.size)
        match == {k \in DOMAIN e : e[k][1] = n}
    IN  IF match = {} THEN 0 ELSE Min(match)

\* The pages it reads on the way.
ReadPage(acc, p) == [acc EXCEPT !.mem = dc_read(@, acc.d, acc.idir.blocks[p - 1])]

fsi_dir_search(m, d, idir, n) ==
    LET k == Position(m, d, idir, n)
        last == Pages(IF k = 0 THEN idir.size ELSE k)
    IN  FoldLeft(ReadPage, [mem |-> m, d |-> d, idir |-> idir],
                 [p \in 1 .. last |-> p]).mem

\* A call on an inode in use, whatever its type.
CallOn(i) == fault = "no" /\ i \in inode_bmap

-----------------------------------------------------------------------------
(* Calls that only read: they change what is cached.                       *)

\* fs_get_attrs, and every call that is refused for the type of its inode.
GetAttrs(i) ==
    /\ CallOn(i)
    /\ icache' = ic_get(icache, i)
    /\ UNCHANGED <<mem, inode_tab, inode_bmap, blk_bmap, fault>>

\* One step of fs_lookup, from directory acc.at to the entry called n.
Walk(acc, n) ==
    LET ic == ic_get(acc.ic, acc.at)
        idir == Head(ic).data
        k == Position(acc.mem, acc.at, idir, n)
    IN  IF ~acc.ok THEN acc
        ELSE IF idir.type # "dir" THEN [acc EXCEPT !.ic = ic, !.ok = FALSE]
        ELSE [mem |-> fsi_dir_search(acc.mem, acc.at, idir, n),
              ic |-> ic,
              ok |-> k # 0,
              at |-> IF k = 0 THEN acc.at
                     ELSE Entries(acc.mem, acc.at, idir, idir.size)[k][2]]

fs_lookup(path) ==
    FoldLeft(Walk, [mem |-> mem, ic |-> icache, ok |-> TRUE, at |-> ROOT], path)

LookupPath(path) ==
    /\ fault = "no"
    /\ mem' = fs_lookup(path).mem
    /\ icache' = fs_lookup(path).ic
    /\ UNCHANGED <<inode_tab, inode_bmap, blk_bmap, fault>>

\* One step of the loop of fs_read: the part of a block that is asked for.
ReadBlock(acc, iblock) ==
    LET b == acc.ifile.blocks[iblock]
        start == Start(Len(acc.buffer), acc.o)
        num == Min({BLOCK_SIZE - start, acc.max - Len(acc.buffer)})
    IN  [acc EXCEPT
            !.mem = bc_read(@, b),
            !.buffer = @ \o [i \in 1 .. num |-> bc_data(acc.mem, b)[start + i - 1]]]

\* What fs_read returns, and the caches.
fs_read(ifile, o, count) ==
    LET max == Min({count, ifile.size - o})
        first == o \div BLOCK_SIZE
        last == IF max <= 0 THEN first - 1 ELSE (o + max - 1) \div BLOCK_SIZE
    IN  FoldLeft(ReadBlock,
                 [mem |-> mem, buffer |-> << >>, ifile |-> ifile, o |-> o, max |-> max],
                 [j \in 1 .. last - first + 1 |-> first + j - 1])

Read(f, o, count) ==
    /\ CallOn(f)
    /\ SeenInode(f).type = "file"
    /\ icache' = ic_get(icache, f)
    /\ mem' = fs_read(SeenInode(f), o, count).mem
    /\ UNCHANGED <<inode_tab, inode_bmap, blk_bmap, fault>>

\* One step of its inner loop: the type of entry e is read.
GetType(ic, e) == ic_get(ic, e[2])

\* fs_readdir keeps a pointer into the inode cache while it reads the types of
\* the entries through the same cache.  If the slot of d is taken for another
\* inode between two pages, the next page comes from a block of that inode:
\* what the server does from then on is not modelled.
ListPage(acc, p) ==
    LET page == SubSeq(acc.entries, (p - 1) * DIR_PAGE_ENTRIES + 1,
                       Min({p * DIR_PAGE_ENTRIES, Len(acc.entries)}))
    IN  IF ~Cached(acc.ic, acc.d)
        THEN [acc EXCEPT !.ok = FALSE]
        ELSE [acc EXCEPT
                !.mem = dc_read(@, acc.d, SeenInode(acc.d).blocks[p - 1]),
                !.ic = FoldLeft(GetType, @, page)]

fs_readdir(d, max) ==
    LET num == Min({SeenInode(d).size, max})
    IN  FoldLeft(ListPage,
                 [mem |-> mem, ic |-> ic_get(icache, d), ok |-> TRUE, d |-> d,
                  entries |-> Entries(mem, d, SeenInode(d), num)],
                 [p \in 1 .. Pages(num) |-> p])

Readdir(d, max) ==
    /\ CallOn(d)
    /\ SeenInode(d).type = "dir"
    /\ LET r == fs_readdir(d, max)
       IN  /\ mem' = r.mem
           /\ icache' = r.ic
           /\ fault' = IF r.ok THEN "no" ELSE "readdir"
    /\ UNCHANGED <<inode_tab, inode_bmap, blk_bmap>>

-----------------------------------------------------------------------------
(* Calls that change the file system.                                      *)

FreeBlocks == Block \ blk_bmap
FreeInodes == Inode \ inode_bmap

\* The cached copy of an inode is replaced: it is the one used last.
CacheInode(i, inode) == Use(icache, Entry(i, inode, FALSE), INODE_CACHE_SIZE)

\* Mutant: blocks in use are not looked at.
NewBlocksAny(n) == Lowest(Block, n)

\* The n blocks that fs_write gets, or the ones that are left.
NewBlocks(n) == Lowest(FreeBlocks, Min({n, Cardinality(FreeBlocks)}))

\* Inode ifile with the new blocks after the ones it has used so far.
WithBlocks(ifile, used, new) ==
    [ifile EXCEPT !.blocks =
        [i \in DOMAIN @ |-> IF i \in used .. used + Len(new) - 1
                            THEN new[i - used + 1] ELSE @[i]]]

\* The two loops of fs_write: a block the file had is read and changed, a new
\* one is written whole; what it holds beyond the end is never read.
WriteBlock(acc, iblock) ==
    LET had == iblock < acc.used
        b == acc.ifile.blocks[iblock]
        start == IF had THEN Start(acc.num, acc.o) ELSE 0
        num == Min({BLOCK_SIZE - start, Len(acc.data) - acc.num})
        old == IF had THEN bc_data(acc.mem, b) ELSE ZeroBlock
        block == [i \in DOMAIN old |->
                    IF i \in start .. start + num - 1
                    THEN acc.data[acc.num + i - start + 1] ELSE old[i]]
    IN  [acc EXCEPT !.mem = bc_write(IF had THEN bc_read(@, b) ELSE @, b, block),
                    !.num = @ + num]

WriteBlocks(ifile, used, o, data) ==
    LET first == o \div BLOCK_SIZE
    IN  FoldLeft(WriteBlock,
                 [mem |-> mem, num |-> 0, ifile |-> ifile, used |-> used, o |-> o,
                  data |-> data],
                 [j \in 1 .. OFFSET_TO_BLOCKS(o + Len(data)) - first |->
                    first + j - 1])

\* fs_write.  When the inode is full nothing changes.
WriteRefused(f, offset, data) ==
    /\ CallOn(f)
    /\ SeenInode(f).type = "file"
    /\ OFFSET_TO_BLOCKS(Min({offset, SeenInode(f).size}) + Len(data))
          > INODE_NUM_BLKS
    /\ icache' = ic_get(icache, f)
    /\ UNCHANGED <<mem, inode_tab, inode_bmap, blk_bmap, fault>>

\* When the blocks run out the ones found so far stay marked as used, and stay
\* in the cached copy of the inode.
Write(f, offset, data) ==
    /\ CallOn(f)
    /\ SeenInode(f).type = "file"
    /\ LET ifile == SeenInode(f)
           o == Min({offset, ifile.size})
           end == o + Len(data)
           used == OFFSET_TO_BLOCKS(ifile.size)
           req == Max({OFFSET_TO_BLOCKS(end), used}) - used
           new == NewBlocks(req)
           grown == WithBlocks(ifile, used, new)
           written == [grown EXCEPT !.size = Max({end, @})]
           w == WriteBlocks(grown, used, o, data)
       IN  /\ used + req <= INODE_NUM_BLKS
           /\ blk_bmap' = blk_bmap \cup ToSet(new)
           /\ IF Len(new) < req
              THEN /\ icache' = CacheInode(f, grown)
                   /\ UNCHANGED <<mem, inode_tab, fault>>
              ELSE /\ icache' = CacheInode(f, written)
                   /\ inode_tab' = [inode_tab EXCEPT ![f] = written]
                   /\ mem' = fsi_store_fsdata(w.mem)
                   /\ fault' = IF w.num = Len(data) THEN "no" ELSE "write"
    /\ UNCHANGED inode_bmap

\* fs_create and fs_mkdir, up to the first reason to refuse.
Refuse(d, n) ==
    LET idir == SeenInode(d)
    IN  \/ Position(mem, d, idir, n) # 0
        \/ FreeInodes = {}
        \/ idir.size % DIR_PAGE_ENTRIES = 0 /\ FreeBlocks = {}

MakeRefused(d, n) ==
    /\ CallOn(d)
    /\ SeenInode(d).type = "dir"
    /\ Refuse(d, n)
    /\ icache' = ic_get(icache, d)
    /\ mem' = fsi_dir_search(mem, d, SeenInode(d), n)
    /\ UNCHANGED <<inode_tab, inode_bmap, blk_bmap, fault>>

\* The block a directory grows by when its last page is full.
DirBlocks(idir) ==
    IF idir.size % DIR_PAGE_ENTRIES = 0 THEN {Min(FreeBlocks)} ELSE {}

\* Mutant: the inode of the entry is marked as used too late.
MarkNot(i) == UNCHANGED inode_bmap

Mark(i) == inode_bmap' = inode_bmap \cup {i}

\* The entry goes after the last one, in a new page if that one is full.
Make(d, n, type) ==
    /\ CallOn(d)
    /\ SeenInode(d).type = "dir"
    /\ ~Refuse(d, n)
    /\ LET old == SeenInode(d)
           finode == Min(FreeInodes)
           page == old.size \div DIR_PAGE_ENTRIES
           new == DirBlocks(old)
           idir == [old EXCEPT !.size = @ + 1,
                               !.blocks[page] = IF new = {} THEN @ ELSE Min(new)]
           b == idir.blocks[page]
           m == dc_read(fsi_dir_search(mem, d, old, n), d, b)
           entries == [dc_data(m, d, b) EXCEPT
                          ![old.size % DIR_PAGE_ENTRIES] = <<n, finode>>]
       IN  /\ blk_bmap' = blk_bmap \cup new
           /\ mem' = fsi_store_fsdata(dc_write(m, d, b, entries))
           /\ inode_tab' = [inode_tab EXCEPT ![d] = idir,
                                             ![finode] = NewInode(type)]
           /\ icache' = Without(CacheInode(d, idir), finode)
           /\ Mark(finode)
    /\ UNCHANGED fault

-----------------------------------------------------------------------------
\* After a fault the server goes on in a way that is not modelled.
Faulty == fault # "no" /\ UNCHANGED fsVars

FsNext ==
    \/ \E i \in Inode : GetAttrs(i)
    \/ \E path \in Path : LookupPath(path)
    \/ \E f \in Inode, o \in Offset, count \in Offset : Read(f, o, count)
    \/ \E d \in Inode : Readdir(d, ITAB_SIZE)
    \/ \E f \in Inode, o \in Offset, data \in Data : WriteRefused(f, o, data)
    \/ \E f \in Inode, o \in Offset, data \in Data : Write(f, o, data)
    \/ \E d \in Inode, n \in Name : MakeRefused(d, n)
    \/ \E d \in Inode, n \in Name, type \in {"dir", "file"} : Make(d, n, type)
    \/ Faulty

FsSpec == FsInit /\ [][FsNext]_fsVars

-----------------------------------------------------------------------------
(* Properties.                                                             *)

INode == [type : {"none", "dir", "file"},
          size : 0 .. INODE_NUM_BLKS * Max({BLOCK_SIZE, DIR_PAGE_ENTRIES}),
          blocks : [0 .. INODE_NUM_BLKS - 1 -> Block]]

FsTypeOK ==
    /\ DOMAIN mem.disk = Block
    /\ Len(mem.bc) <= BLOCK_CACHE_SIZE
    /\ Len(mem.dc) <= DIR_CACHE_SIZE
    /\ Len(icache) <= INODE_CACHE_SIZE
    /\ inode_tab \in [Inode -> INode]
    /\ inode_bmap \subseteq Inode \cup {0}
    /\ blk_bmap \subseteq Block
    /\ fault \in {"no", "readdir"}     \* fs_write finds no "severe error"

\* The blocks of inode i that hold data.
BlocksOf(i) == 
    LET inode == inode_tab[i]
        n == IF inode.type = "dir" THEN Pages(inode.size)
             ELSE OFFSET_TO_BLOCKS(inode.size)
    IN  {<<i, k>> : k \in 0 .. n - 1}
AllBlocks == UNION {BlocksOf(i) : i \in Inode}
Number(x) == inode_tab[x[1]].blocks[x[2]]

\* No block belongs to two files, or twice to one; none of the blocks in use is
\* reserved or marked as free.  Writes that fail halfway leave block numbers in
\* the cached inode, which a later write must not bring back.
BlocksApart ==
    /\ \A x, y \in AllBlocks : x # y => Number(x) # Number(y)
    /\ \A x \in AllBlocks : Number(x) \in blk_bmap \ (0 .. RESERVED - 1)

OnceAndClean(c) ==
    /\ \A i, j \in DOMAIN c : i # j => c[i].key # c[j].key
    /\ \A i \in DOMAIN c : ~c[i].dirty

\* Between calls the caches hide nothing: no entry is dirty, none is cached
\* twice, and each agrees with what is below it, for inodes in the part in use.
CachesAgree ==
    /\ OnceAndClean(mem.bc) /\ OnceAndClean(mem.dc) /\ OnceAndClean(icache)
    /\ \A i \in DOMAIN mem.bc : mem.bc[i].data = mem.disk[mem.bc[i].key]
    /\ \A i \in DOMAIN mem.dc : mem.dc[i].data = mem.disk[mem.dc[i].key[2]]
    /\ \A i \in DOMAIN icache :
          LET id == icache[i].key
              inode == icache[i].data
          IN  /\ inode.size = inode_tab[id].size
              /\ inode.type = inode_tab[id].type
              /\ \A x \in BlocksOf(id) : inode.blocks[x[2]] = Number(x)

-----------------------------------------------------------------------------
(* The file system implements FileStore.                                   *)

storeKind ==
    [i \in Inode |-> IF i \in inode_bmap THEN SeenInode(i).type ELSE "free"]

EntriesOf(d) == Entries(mem, d, SeenInode(d), SeenInode(d).size)

storeListing ==
    [d \in Inode |-> [n \in Name |->
        LET match == {k \in DOMAIN EntriesOf(d) : EntriesOf(d)[k][1] = n}
        IN  IF storeKind[d] # "dir" \/ match = {} THEN NULL
            ELSE EntriesOf(d)[Max(match)][2]]]

storeContent ==
    [f \in Inode |->
        IF storeKind[f] # "file" THEN << >>
        ELSE [k \in 1 .. SeenInode(f).size |->
                bc_data(mem, SeenInode(f).blocks[(k - 1) \div BLOCK_SIZE])
                   [(k - 1) % BLOCK_SIZE]]]

Store == INSTANCE FileStore WITH Root <- ROOT, kind <- storeKind,
                                 listing <- storeListing, content <- storeContent

\* Seen through the caches, every call changes one file or one directory as it
\* should and nothing else, and a call that fails changes nothing (fs.h: "the
\* write operation is atomic").
ImplementsFileStore == Store!StoreSpec

\* fs_read returns the bytes asked for, across blocks, as far as the file goes.
ReadsContent ==
    \A f \in Inode : storeKind[f] = "file" =>
        \A o, count \in Offset :
            LET got == fs_read(SeenInode(f), o, count).buffer
                size == SeenInode(f).size
            IN  got = SubSeq(storeContent[f], o + 1, Min({o + count, size}))

\* Where name n leads to from at, if anywhere.
Down(at, n) ==
    IF at = NULL THEN NULL
    ELSE IF storeKind[at] # "dir" THEN NULL
    ELSE storeListing[at][n]

\* fs_lookup finds a path if and only if each of its names is in the directory
\* the names before it lead to.
LookupFinds ==
    \A path \in Path :
        LET found == FoldLeft(Down, ROOT, path)
        IN  /\ fs_lookup(path).ok = (found # NULL)
            /\ found # NULL => fs_lookup(path).at = found

\* fs.h, fs_readdir: "read the contents of a directory".
ReaddirReadsDirectory == fault # "readdir"
=============================================================================
