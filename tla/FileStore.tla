----------------------------- MODULE FileStore ------------------------------
(***************************************************************************)
(* What the file system promises to its clients: a tree of directories,    *)
(* files that hold what was last written to them, and calls that change    *)
(* one file or one directory or, if they fail, nothing.  There are no      *)
(* blocks, bitmaps or caches.                                              *)
(***************************************************************************)
EXTENDS Integers, Sequences

CONSTANTS Inode, Root, Name, Data, NULL

VARIABLES
    kind,       \* of each inode: "free", "dir" or "file"
    listing,    \* of each directory: the inode of each name, or NULL
    content     \* of each file

storeVars == <<kind, listing, content>>

StoreInit ==
    /\ kind = [i \in Inode |-> IF i = Root THEN "dir" ELSE "free"]
    /\ listing = [i \in Inode |-> [n \in Name |-> NULL]]
    /\ content = [i \in Inode |-> << >>]

\* A new file, or an empty directory, with a name not used in d.
Make(d, n, i, k) ==
    /\ kind[d] = "dir"
    /\ listing[d][n] = NULL
    /\ kind[i] = "free"
    /\ kind' = [kind EXCEPT ![i] = k]
    /\ listing' = [listing EXCEPT ![d][n] = i]
    /\ UNCHANGED content

\* What is at o and after is overwritten, and the file may grow.
Overwrite(f, o, data) ==
    /\ kind[f] = "file"
    /\ content' = [content EXCEPT ![f] =
                      SubSeq(@, 1, o) \o data
                      \o SubSeq(@, o + Len(data) + 1, Len(@))]
    /\ UNCHANGED <<kind, listing>>

StoreNext ==
    \/ \E d, i \in Inode, n \in Name, k \in {"dir", "file"} : Make(d, n, i, k)
    \/ \E f \in Inode, data \in Data :
          \E o \in 0 .. Len(content[f]) : Overwrite(f, o, data)

StoreSpec == StoreInit /\ [][StoreNext]_storeVars
=============================================================================
