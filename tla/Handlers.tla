------------------------------ MODULE Handlers ------------------------------
(***************************************************************************)
(* The handlers of snfs_server/snfs.c: each checks a request, calls the    *)
(* file system and fills in the answer.  A handler takes the store of its  *)
(* server to a new store and an answer.  Handlers that write run alone     *)
(* (module Server), and the file system behaves as FileStore says (module  *)
(* FileSystem), so the effect of a request is one step.                    *)
(*                                                                         *)
(* A store is a record of the three variables of FileStore.  Blocks are    *)
(* not counted: there are 16384 for 62 files of at most 10.                *)
(***************************************************************************)
EXTENDS Paths

CONSTANTS
    ITAB_SIZE,
    Name,               \* the names that files can get
    NULL,
    MAX_READ_DATA, MAX_WRITE_DATA, MAX_READDIR_ENTRIES,
    MAX_FILE_SIZE,      \* of the blocks an inode can have
    DENTRY_SIZE         \* sizeof(fs_dentry_t)

ASSUME HandlersAssumption ==
    /\ {ITAB_SIZE, MAX_READ_DATA, MAX_WRITE_DATA, MAX_READDIR_ENTRIES,
        MAX_FILE_SIZE, DENTRY_SIZE} \subseteq Nat \ {0}
    /\ ITAB_SIZE > 1                                      \* there is a root

\* An answer has room for all the entries a directory can have.
ASSUME ReaddirAssumption == ITAB_SIZE <= MAX_READDIR_ENTRIES

ROOT == 1
Inode == 1 .. ITAB_SIZE - 1

\* What a directory has where it has no entry.
ASSUME NoEntryAssumption == NULL \notin Inode

\* snfs_init of the server: an empty file system, in memory.
NewStore ==
    [kind |-> [i \in Inode |-> IF i = ROOT THEN "dir" ELSE "free"],
     listing |-> [i \in Inode |-> [n \in Name |-> NULL]],
     content |-> [i \in Inode |-> << >>]]

\* The answer is cleared before the handler runs.
RES_ERROR == [ok |-> FALSE, file |-> 0, size |-> 0, data |-> << >>, names |-> {}]
RES_OK == [RES_ERROR EXCEPT !.ok = TRUE]

Failed(st) == [store |-> st, answer |-> RES_ERROR]

-----------------------------------------------------------------------------
(* Requests.                                                               *)

Lookup(path) == [type |-> "lookup", path |-> path]
Read(f, o, n) == [type |-> "read", file |-> f, offset |-> o, count |-> n]
Write(f, o, d) == [type |-> "write", file |-> f, offset |-> o, data |-> d]
Make(d, n, k) == [type |-> "make", dir |-> d, name |-> n, kind |-> k]
Readdir(d) == [type |-> "readdir", dir |-> d]

NoRequest == [type |-> "none"]

-----------------------------------------------------------------------------
(* The file system, as its callers see it.                                 *)

IsKind(st, i, k) == i \in Inode /\ st.kind[i] = k

Listed(st, d) == {n \in Name : st.listing[d][n] # NULL}

\* fs_lookup: from directory acc.at to the entry called n; 0 stands for "not found".
Down(acc, n) ==
    LET st == acc.st
    IN  [acc EXCEPT !.at = IF IsKind(st, @, "dir") /\ n \in Listed(st, @)
                           THEN st.listing[@][n] ELSE 0]

Resolve(st, path) == FoldLeft(Down, [st |-> st, at |-> ROOT], Components(path)).at

\* fs_get_attrs.
SizeOf(st, i) == IF st.kind[i] = "dir" THEN DENTRY_SIZE * Cardinality(Listed(st, i))
                 ELSE Len(st.content[i])

-----------------------------------------------------------------------------
(* The handlers.                                                           *)

snfs_lookup(st, req) ==
    LET i == Resolve(st, req.path)
    IN  IF i = 0 THEN Failed(st)
        ELSE [store |-> st,
              answer |-> [RES_OK EXCEPT !.file = i, !.size = SizeOf(st, i)]]

snfs_read(st, req) ==
    IF req.count > MAX_READ_DATA \/ ~IsKind(st, req.file, "file") THEN Failed(st)
    ELSE LET bytes == st.content[req.file]
             end == Min({req.offset + req.count, Len(bytes)})
         IN  [store |-> st,
              answer |-> [RES_OK EXCEPT !.data = SubSeq(bytes, req.offset + 1, end)]]

\* fs_write moves a write that starts beyond the end of the file to the end.
snfs_write(st, req) ==
    IF \/ Len(req.data) > MAX_WRITE_DATA
       \/ ~IsKind(st, req.file, "file")
    THEN Failed(st)
    ELSE LET bytes == st.content[req.file]
             o == Min({req.offset, Len(bytes)})
             new == SubSeq(bytes, 1, o) \o req.data
                    \o SubSeq(bytes, o + Len(req.data) + 1, Len(bytes))
         IN  IF o + Len(req.data) > MAX_FILE_SIZE THEN Failed(st)
             ELSE [store |-> [st EXCEPT !.content[req.file] = new],
                   answer |-> [RES_OK EXCEPT !.size = Len(new)]]

FreeInodes(st) == {i \in Inode : st.kind[i] = "free"}

\* Mutant: a name can be given twice in a directory.
TakenNot(st, d, n) == FALSE

Taken(st, d, n) == n \in Listed(st, d)

\* snfs_create and snfs_mkdir.
snfs_make(st, req) ==
    LET n == Cut(req.name, MAX_FILE_NAME_SIZE - 1)
        d == req.dir
        i == Min(FreeInodes(st))
    IN  IF \/ n = << >>
           \/ ~IsKind(st, d, "dir")
           \/ Taken(st, d, n)
           \/ FreeInodes(st) = {}
        THEN Failed(st)
        ELSE [store |-> [st EXCEPT !.kind[i] = req.kind, !.listing[d][n] = i],
              answer |-> [RES_OK EXCEPT !.file = i]]

\* The client asks for MAX_READDIR_ENTRIES, more than there are.
snfs_readdir(st, req) ==
    IF ~IsKind(st, req.dir, "dir") THEN Failed(st)
    ELSE [store |-> st, answer |-> [RES_OK EXCEPT !.names = Listed(st, req.dir)]]

\* The Service table of server.c.
Serve(st, req) ==
    CASE req.type = "lookup"  -> snfs_lookup(st, req)
      [] req.type = "read"    -> snfs_read(st, req)
      [] req.type = "write"   -> snfs_write(st, req)
      [] req.type = "make"    -> snfs_make(st, req)
      [] req.type = "readdir" -> snfs_readdir(st, req)

-----------------------------------------------------------------------------
\* The type of a store.
Store == [kind : [Inode -> {"free", "dir", "file"}],
          listing : [Inode -> [Name -> Inode \cup {NULL}]],
          content : [Inode -> Seq(1 .. MAX_FILE_SIZE)]]
=============================================================================
