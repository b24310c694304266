--------------------------- MODULE ParallelReads ---------------------------
(***************************************************************************)
(* fs_read of snfs_server/fs.c as the server really runs it: the Service   *)
(* table of server.c has it as OP_READ, so that handlers of reads run in   *)
(* parallel under the read lock, and a tick can switch between them at any *)
(* instruction.  Every read changes two caches that have no lock of their  *)
(* own: ic_get and bc_read choose a slot, fill it, label it and use it.    *)
(*                                                                         *)
(* Module FileSystem has what a call does when it runs alone.  Here no     *)
(* writer runs (module ReadersWriters), so that the files are constants,   *)
(* every file has SIZE blocks, the content of a block is its number and no *)
(* entry is dirty.  A read is of the whole file.                           *)
(***************************************************************************)
EXTENDS Integers, SequencesExt, FiniteSetsExt

CONSTANTS
    Reader,        \* consumers with a request to read
    File,
    FileBlocks,    \* the sequence of blocks of each file: the inode table
    SIZE,          \* how many blocks each file has
    CACHE_SIZE,    \* slots of the cache of inodes and of the cache of blocks
    NULL

VARIABLES
    slots,         \* of each cache: key (NULL if not valid) and data
    order,         \* of each cache: its slots, the least recently used first
    reader         \* the local variables of each read

prVars == <<slots, order, reader>>

Cache == {"inode", "block"}

Idle == [pc |-> "idle", cache |-> NULL, file |-> NULL, ifile |-> NULL, key |-> NULL,
         v |-> NULL, buffer |-> << >>]

PrInit ==
    /\ slots = [c \in Cache |->
                  [i \in 1 .. CACHE_SIZE[c] |-> [key |-> NULL, data |-> NULL]]]
    /\ order = [c \in Cache |-> [i \in 1 .. CACHE_SIZE[c] |-> i]]
    /\ reader = [r \in Reader |-> Idle]

\* What the cache is filled from.
Below(c, key) == IF c = "inode" THEN FileBlocks[key] ELSE key

Hits(c, key) == {i \in DOMAIN slots[c] : slots[c][i].key = key}

\* ic_victim, bc_victim: the first slot not valid, or the least recently used.
PrVictim(c) ==
    IF Hits(c, NULL) # {} THEN Min(Hits(c, NULL)) ELSE Head(order[c])

\* lru = ++lru_clock
Touch(c, i) == order' = [order EXCEPT ![c] = Append(SelectSeq(@, LAMBDA j : j # i), i)]

At(r, pc) == reader[r].pc = pc
In(r, pc, c) == At(r, pc) /\ reader[r].cache = c

-----------------------------------------------------------------------------
(* ic_get and bc_read.  The search and the new lru are one step, and what  *)
(* comes after is another.                                                 *)

Hit(r, c) ==
    /\ In(r, "search", c)
    /\ Hits(c, reader[r].key) # {}
    /\ LET i == Min(Hits(c, reader[r].key))
       IN  /\ Touch(c, i)
           /\ reader' = [reader EXCEPT ![r].pc = "use", ![r].v = i]
    /\ UNCHANGED slots

Miss(r, c) ==
    /\ In(r, "search", c)
    /\ Hits(c, reader[r].key) = {}
    /\ reader' = [reader EXCEPT ![r].pc = "fill", ![r].v = PrVictim(c)]
    /\ UNCHANGED <<slots, order>>

\* The data comes before the label (the key and the use).
Fill(r, c) ==
    /\ In(r, "fill", c)
    /\ slots' = [slots EXCEPT ![c][reader[r].v].data = Below(c, reader[r].key)]
    /\ reader' = [reader EXCEPT ![r].pc = "label"]
    /\ UNCHANGED order

Label(r, c) ==
    /\ In(r, "label", c)
    /\ slots' = [slots EXCEPT ![c][reader[r].v].key = reader[r].key]
    /\ Touch(c, reader[r].v)
    /\ reader' = [reader EXCEPT ![r].pc = "use"]

-----------------------------------------------------------------------------
(* fs_read.                                                                *)

CallRead(r, f) ==
    /\ At(r, "idle")
    /\ reader' = [reader EXCEPT ![r] = [Idle EXCEPT !.pc = "search", !.cache = "inode",
                                                    !.file = f, !.key = f]]
    /\ UNCHANGED <<slots, order>>

\* The next block to read, seen through the pointer to slot i.
NextBlock(i, buffer) == slots["inode"][i].data[Len(buffer) + 1]

\* ic_get returns a pointer to the slot, not a copy of it.
UseInode(r) ==
    /\ In(r, "use", "inode")
    /\ reader' = [reader EXCEPT ![r].pc = "search", ![r].cache = "block",
                                ![r].ifile = reader[r].v,
                                ![r].key = NextBlock(reader[r].v, << >>)]
    /\ UNCHANGED <<slots, order>>

\* memcpy from the slot to the buffer.
UseBlock(r) ==
    /\ In(r, "use", "block")
    /\ LET buffer == Append(reader[r].buffer, slots["block"][reader[r].v].data)
           next == IF Len(buffer) < SIZE
                   THEN [reader[r] EXCEPT
                          !.pc = "search",
                          !.key = NextBlock(reader[r].ifile, buffer)]
                   ELSE [reader[r] EXCEPT !.pc = "done"]
       IN  reader' = [reader EXCEPT ![r] = [next EXCEPT !.buffer = buffer]]
    /\ UNCHANGED <<slots, order>>

Answer(r) ==
    /\ At(r, "done")
    /\ reader' = [reader EXCEPT ![r] = Idle]
    /\ UNCHANGED <<slots, order>>

PrNext ==
    \E r \in Reader :
        \/ \E f \in File : CallRead(r, f)
        \/ \E c \in Cache : Hit(r, c) \/ Miss(r, c) \/ Fill(r, c) \/ Label(r, c)
        \/ UseInode(r)
        \/ UseBlock(r)
        \/ Answer(r)

PrSpec == PrInit /\ [][PrNext]_prVars

-----------------------------------------------------------------------------
\* fs.h, fs_read: "read the contents of a file": a read that is done has put
\* the blocks of its own file in its buffer.
ReadReturnsFile ==
    \A r \in Reader : At(r, "done") => reader[r].buffer = FileBlocks[reader[r].file]
=============================================================================
