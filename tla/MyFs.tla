-------------------------------- MODULE MyFs --------------------------------
(***************************************************************************)
(* The client's file interface, snfs_lib/myfs.c: a list of open files, and *)
(* functions that make one remote call after another.  A client is a       *)
(* process of one thread, so it is in one function at a time; what it does *)
(* between two answers is one step.  A function that returns without a     *)
(* remote call and without a change is left out: bad arguments, too many   *)
(* open files, a file that is not open.                                    *)
(*                                                                         *)
(* Data.  A program writes at position p of a file the value p + 1, so     *)
(* that a byte tells where it was meant to be.                             *)
(***************************************************************************)
EXTENDS RemoteCall

CONSTANTS
    MAX_OPEN_FILES,
    OpenPath,           \* workload: paths of files to open,
    DirPath, ListPath,  \* of directories to make and to list
    Count,              \* workload: numbers of bytes to read and to write
    MaxCalls            \* bound: how many functions the programs call

ASSUME MyFsAssumption ==
    /\ MAX_OPEN_FILES \in Nat \ {0}
    /\ Count \subseteq Nat \ {0}
    /\ OpenPath \cup DirPath \cup ListPath \subseteq Seq(STRING)
    /\ \A p \in OpenPath \cup DirPath :
          /\ Components(p) # << >>
          /\ Cut(newfilename(p), MAX_FILE_NAME_SIZE - 1) \in Name
    /\ MaxCalls \in Nat

VARIABLES
    Open_files_list,    \* of each client
    Open_files,
    op,                 \* the function each client is in, and its locals
    calls               \* how many functions were called

myVars == <<Open_files_list, Open_files, op, calls>>
fsVars == <<rcVars, myVars>>

\* Where a client is: "idle", or the call it waits for, named for the function.
Label == {"idle", "exited", "open", "open_dir", "open_create", "read", "write",
          "list", "list_dir", "mkdir", "mkdir_dir", "mkdir_make"}

\* path, create: the arguments of my_open and my_mkdir; file: the file id given
\* to my_read and my_write, left: numBytes; fsize, dir: locals of my_open.
\* from and buffer: what the last my_read read, and from where.
Idle == [at |-> "idle", path |-> << >>, create |-> FALSE, file |-> 0, left |-> 0,
         fsize |-> 0, dir |-> 0, from |-> 0, buffer |-> << >>]

MyFsInit ==
    /\ RemoteInit
    /\ Open_files_list = [c \in Client |-> << >>]
    /\ Open_files = [c \in Client |-> 0]
    /\ op = [c \in Client |-> Idle]
    /\ calls = 0

-----------------------------------------------------------------------------
(* snfs_lib/queue.c: the list of open files.                               *)

Positions(fds, id) == {i \in DOMAIN fds : fds[i].fileId = id}

queue_node_search(fds, id) == Positions(fds, id) # {}

\* queue_node_get: the first descriptor with this id.
queue_node_get(fds, id) == Min(Positions(fds, id))

queue_node_remove(fds, id) == RemoveAt(fds, queue_node_get(fds, id))

fdesc(c, id) == Open_files_list[c][queue_node_get(Open_files_list[c], id)]

-----------------------------------------------------------------------------
(* How functions begin, go on and end.                                     *)

Goto(c, o) == op' = [op EXCEPT ![c] = o]

\* A function of c is called, and its first remote call sent.
Begin(c, o, req, all) ==
    /\ op[c].at = "idle"
    /\ calls < MaxCalls
    /\ calls' = calls + 1
    /\ Goto(c, o)
    /\ Issue(c, req, all)
    /\ UNCHANGED <<Num_servers, up, store, cli_box>>

\* The remote call of c made at label returns a result and c does not exit.
Back(c, label) ==
    /\ op[c].at = label
    /\ Returns(c)
    /\ ~Diverged(c)
    /\ TakeLast(c)
    /\ UNCHANGED calls

\* The next remote call of the same function.
Next_call(c, o, req, all) == Goto(c, o) /\ Issue(c, req, all)

Return(c) == Goto(c, [op[c] EXCEPT !.at = "idle"]) /\ EndCall(c)

SameFiles == UNCHANGED <<Open_files_list, Open_files>>

\* The servers gave different answers: remote_call ends the process.
Exit(c) ==
    /\ Returns(c)
    /\ Diverged(c)
    /\ TakeLast(c)
    /\ Goto(c, [op[c] EXCEPT !.at = "exited"])
    /\ EndCall(c)
    /\ SameFiles /\ UNCHANGED calls

LookupRequest(path) == Lookup(pname(path))
ListRequest(dir) == Readdir(dir)

-----------------------------------------------------------------------------
(* my_open.                                                                *)

\* path and new, which says that my_open created the file, are history.
Opened(id, size, path, new) ==
    [fileId |-> id, size |-> size, read_offset |-> 0, write_offset |-> 0,
     path |-> path, new |-> new]

AddFile(c, fd) ==
    /\ Open_files_list' = [Open_files_list EXCEPT ![c] = Append(@, fd)]
    /\ Open_files' = [Open_files EXCEPT ![c] = @ + 1]

\* Mutant: off by one.
TooManyOpenLate(c) == Open_files[c] > MAX_OPEN_FILES

TooManyOpen(c) == Open_files[c] >= MAX_OPEN_FILES

my_open(c, path, create) ==
    /\ ~TooManyOpen(c)
    /\ myparse(path)
    /\ Begin(c, [Idle EXCEPT !.at = "open", !.path = path, !.create = create],
             LookupRequest(path), FALSE)
    /\ SameFiles

\* The file is there; or it is not, and its directory is looked for, even when
\* no file is to be created.
OpenFound(c) ==
    /\ Back(c, "open")
    /\ Result(c).ok
    /\ AddFile(c, Opened(Result(c).file, Result(c).size, op[c].path, FALSE))
    /\ Return(c)

OpenNotFound(c) ==
    /\ Back(c, "open")
    /\ ~Result(c).ok
    /\ Next_call(c, [op[c] EXCEPT !.at = "open_dir"],
                 LookupRequest(newdirname(op[c].path)), FALSE)
    /\ SameFiles

\* Mutant: the directory of a path is always the root.
AlwaysRoot(path, found) == ROOT

\* The result of the lookup of the directory is not tested.
DirOf(path, found) == IF Len(Components(path)) = 1 THEN ROOT ELSE found

CreateRequest(path, dir) == Make(dir, newfilename(path), "file")

\* fsize, from here on, is the size of the directory, if it was found.
OpenDir(c) ==
    /\ Back(c, "open_dir")
    /\ IF op[c].create
       THEN Next_call(c, [op[c] EXCEPT !.at = "open_create",
                                       !.fsize = Result(c).size],
                      CreateRequest(op[c].path, DirOf(op[c].path, Result(c).file)),
                      TRUE)
       ELSE Return(c)
    /\ SameFiles

OpenCreated(c) ==
    /\ Back(c, "open_create")
    /\ IF Result(c).ok
       THEN AddFile(c, Opened(Result(c).file, op[c].fsize, op[c].path, TRUE))
       ELSE SameFiles
    /\ Return(c)

-----------------------------------------------------------------------------
(* my_read, my_write, my_close.                                            *)

\* The descriptor of op[c].file becomes fd.
SetFile(c, fd) ==
    /\ Open_files_list' =
           [Open_files_list EXCEPT
              ![c][queue_node_get(Open_files_list[c], op[c].file)] = fd]
    /\ UNCHANGED Open_files

ReadRequest(fd, n) == Read(fd.fileId, fd.read_offset, Min({MAX_READ_DATA, n}))

\* Mutant: numBytes is not cut to what the file still has.
Whole(fd, n) == n

\* What is asked for, or what the file had when its size was last known.
InSize(fd, n) == IF fd.size < fd.read_offset + n THEN fd.size - fd.read_offset ELSE n

\* At the end of the file, as far as the client knows, nothing is sent.
my_read(c, id, n) ==
    /\ queue_node_search(Open_files_list[c], id)
    /\ LET fd == fdesc(c, id)
           num == InSize(fd, n)
       IN  /\ fd.read_offset # fd.size
           /\ Begin(c, [Idle EXCEPT !.at = "read", !.file = id, !.left = num,
                                    !.from = fd.read_offset],
                    ReadRequest(fd, num), FALSE)
    /\ SameFiles

AdvanceRead(fd, n) == [fd EXCEPT !.read_offset = @ + n]

\* The next part is asked for until all have come: an answer of no bytes changes
\* nothing, and the same request is sent again.
ReadPart(c) ==
    /\ Back(c, "read")
    /\ Result(c).ok
    /\ LET data == Result(c).data
           fd == AdvanceRead(fdesc(c, op[c].file), Len(data))
           o == [op[c] EXCEPT !.left = @ - Len(data), !.buffer = @ \o data]
       IN  /\ SetFile(c, fd)
           /\ IF o.left = 0
              THEN Goto(c, [o EXCEPT !.at = "idle"]) /\ EndCall(c)
              ELSE Next_call(c, o, ReadRequest(fd, o.left), FALSE)

\* Mutant: the request says where the descriptor reads.
WriteAtRead(fd) == fd.read_offset

WriteAt(fd) == fd.write_offset

WriteRequest(fd, n) ==
    Write(fd.fileId, WriteAt(fd),
          [k \in 1 .. Min({MAX_WRITE_DATA, n}) |-> fd.write_offset + k])

my_write(c, id, n) ==
    /\ queue_node_search(Open_files_list[c], id)
    /\ Begin(c, [Idle EXCEPT !.at = "write", !.file = id, !.left = n],
             WriteRequest(fdesc(c, id), n), TRUE)
    /\ SameFiles

\* Mutant: the size is left as it was at open.
WrittenSizeOld(fd, size, n) == [fd EXCEPT !.write_offset = @ + n]

Written(fd, size, n) == [fd EXCEPT !.size = size, !.write_offset = @ + n]

WritePart(c) ==
    /\ Back(c, "write")
    /\ Result(c).ok
    /\ LET n == Min({MAX_WRITE_DATA, op[c].left})
           fd == Written(fdesc(c, op[c].file), Result(c).size, n)
           o == [op[c] EXCEPT !.left = @ - n]
       IN  /\ SetFile(c, fd)
           /\ IF o.left = 0 THEN Return(c)
              ELSE Next_call(c, o, WriteRequest(fd, o.left), TRUE)

\* A part fails: -1 is returned, and the parts before it stay.
PartFails(c) ==
    /\ Back(c, "read") \/ Back(c, "write")
    /\ ~Result(c).ok
    /\ Return(c)
    /\ SameFiles

my_close(c, id) ==
    /\ op[c].at = "idle"
    /\ calls < MaxCalls
    /\ calls' = calls + 1
    /\ queue_node_search(Open_files_list[c], id)
    /\ Open_files_list' = [Open_files_list EXCEPT ![c] = queue_node_remove(@, id)]
    /\ Open_files' = [Open_files EXCEPT ![c] = @ - 1]
    /\ Goto(c, Idle)
    /\ UNCHANGED rcVars

-----------------------------------------------------------------------------
(* my_listdir and my_mkdir.                                                *)

\* The root is not looked up.
my_listdir(c, path) ==
    /\ myparse(path)
    /\ LET o == [Idle EXCEPT !.path = path]
       IN  IF path = <<"/">>
           THEN Begin(c, [o EXCEPT !.at = "list_dir"], ListRequest(ROOT), FALSE)
           ELSE Begin(c, [o EXCEPT !.at = "list"], LookupRequest(path), FALSE)
    /\ SameFiles

ListFound(c) ==
    /\ Back(c, "list")
    /\ IF Result(c).ok
       THEN Next_call(c, [op[c] EXCEPT !.at = "list_dir"],
                      ListRequest(Result(c).file), FALSE)
       ELSE Return(c)
    /\ SameFiles

Listing(c) == Back(c, "list_dir") /\ Return(c) /\ SameFiles

my_mkdir(c, path) ==
    /\ myparse(path)
    /\ Begin(c, [Idle EXCEPT !.at = "mkdir", !.path = path], LookupRequest(path), FALSE)
    /\ SameFiles

MkdirRequest(path, dir) == Make(dir, newfilename(path), "dir")

MkdirLookedUp(c) ==
    /\ Back(c, "mkdir")
    /\ IF Result(c).ok THEN Return(c)
       ELSE IF Len(Components(op[c].path)) = 1
       THEN Next_call(c, [op[c] EXCEPT !.at = "mkdir_make"],
                      MkdirRequest(op[c].path, ROOT), TRUE)
       ELSE Next_call(c, [op[c] EXCEPT !.at = "mkdir_dir"],
                      LookupRequest(newdirname(op[c].path)), FALSE)
    /\ SameFiles

\* Unlike my_open, my_mkdir returns when there is no such directory.
MkdirDir(c) ==
    /\ Back(c, "mkdir_dir")
    /\ IF Result(c).ok
       THEN Next_call(c, [op[c] EXCEPT !.at = "mkdir_make"],
                      MkdirRequest(op[c].path, Result(c).file), TRUE)
       ELSE Return(c)
    /\ SameFiles

MkdirMade(c) == Back(c, "mkdir_make") /\ Return(c) /\ SameFiles

-----------------------------------------------------------------------------
MyCall(c) ==
    \/ \E p \in OpenPath, create \in BOOLEAN : my_open(c, p, create)
    \/ \E p \in DirPath : my_mkdir(c, p)
    \/ \E p \in ListPath : my_listdir(c, p)
    \/ \E id \in Inode : my_close(c, id)
    \/ \E id \in Inode, n \in Count : my_read(c, id, n) \/ my_write(c, id, n)

MyStep(c) ==
    \/ OpenFound(c) \/ OpenNotFound(c) \/ OpenDir(c) \/ OpenCreated(c)
    \/ ReadPart(c) \/ WritePart(c) \/ PartFails(c)
    \/ ListFound(c) \/ Listing(c)
    \/ MkdirLookedUp(c) \/ MkdirDir(c) \/ MkdirMade(c)
    \/ Exit(c)

MyFsNext ==
    \/ RemoteStep /\ UNCHANGED myVars
    \/ \E c \in Client : MyCall(c) \/ MyStep(c)

MyFsSpec == MyFsInit /\ [][MyFsNext]_fsVars

-----------------------------------------------------------------------------
(* Properties.                                                             *)

ClientTypeOK ==
    /\ Num_servers \in Registered
    /\ up \subseteq Server
    /\ store \in [Server -> Store]
    /\ next_sn \in [Client -> 0 .. SN_RANGE - 1]
    /\ rr_index \in [Client -> Server]
    /\ \A c \in Client :
          /\ op[c].at \in Label
          /\ op[c].left \in Nat
          /\ Len(call[c].got) < Needed(c)
          /\ op[c].at \in {"idle", "exited"} <=> call[c].req = NoRequest
          /\ Open_files[c] = Len(Open_files_list[c])
          /\ Open_files[c] <= MAX_OPEN_FILES

\* The files that c has open.
Descriptors(c) == ToSet(Open_files_list[c])

\* The offsets a client keeps, across its reads and writes, those of others and
\* calls that fail, are places that the file has on every server that runs, and
\* that the client knows it has: a write is never moved (fs.c:542), and what a
\* client has written is not beyond the end of the file when it reads.
OffsetsInFile ==
    OneOrder => \A c \in Client : \A fd \in Descriptors(c), s \in up :
        /\ store[s].kind[fd.fileId] # "free"
        /\ {fd.read_offset, fd.write_offset}
              \subseteq 0 .. Min({fd.size, SizeOf(store[s], fd.fileId)})

\* A path of one name, without a slash at the end.
InRoot(path) == Len(Components(path)) = 1 /\ path[Len(path)] # "/"

\* A file that my_open created outside the root, with nothing written to it since:
\* its size is that of what the lookup of its directory found.
NotYetWritten(fd) == fd.new /\ ~InRoot(fd.path) /\ fd.write_offset = 0

\* my_read goes on until it has all the bytes it wants, so that they must be in
\* the file.  They are, except for a file that was created in a directory and not
\* written yet: its size is that of the directory (my_open uses one fsize for
\* both), and my_read of it sends the same request for ever.  With a slash at the
\* end of the path it is the size of another file: my_open of "/a/" creates "a/",
\* after its second lookup has found the "a" that another client created.
ReadsEnd ==
    OneOrder => \A c \in Client, s \in up : op[c].at = "read" =>
        LET fd == fdesc(c, op[c].file)
        IN  \/ fd.read_offset + op[c].left <= SizeOf(store[s], fd.fileId)
            \/ NotYetWritten(fd)

InOrder(bytes, from) == \A k \in DOMAIN bytes : bytes[k] = from + k

\* What programs write in parts ends up where they meant it, whatever other
\* programs write at the same time, and my_read returns the bytes that follow the
\* ones read before, each once, over as many messages as it takes.
ReadsInOrder ==
    OneOrder =>
    /\ \A s \in up, f \in Inode : InOrder(store[s].content[f], 0)
    /\ \A c \in Client : InOrder(op[c].buffer, op[c].from)

\* my_open: "open the file 'nome'".  If all goes well the descriptor is of the
\* file with that path; it is not for every path that is not plain.
OpenedWhatWasNamed ==
    OneOrder => \A c \in Client : \A fd \in Descriptors(c), s \in up :
        Plain(fd.path) => Resolve(store[s], fd.path) = fd.fileId

\* What every server does with the requests is what FileStore allows.
StoresAsPromised ==
    \A s \in Server : \/ UNCHANGED store[s]
                      \/ \E msg \in srv_box[s] : ServesAsPromised(s, msg)

ServesFileStore == [][StoresAsPromised]_fsVars
=============================================================================
