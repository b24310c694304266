------------------------------- MODULE Paths --------------------------------
(***************************************************************************)
(* What the client does to path names (snfs_lib/myfs.c and snfs_api.c).    *)
(* A text is a sequence of characters without the final zero; a buffer     *)
(* that was cleared is the empty text, and strncpy without a terminator    *)
(* leaves what the buffer held beyond the copied characters.               *)
(***************************************************************************)
EXTENDS Integers, SequencesExt, FiniteSetsExt

CONSTANTS MAX_FILE_NAME_SIZE, MAX_PATH_NAME_SIZE

ASSUME PathAssumption == {MAX_FILE_NAME_SIZE, MAX_PATH_NAME_SIZE} \subseteq Nat \ {0, 1}

\* The loop over strtok(text, "/"), character by character: the names between the
\* slashes, and whether one is going on.
Take(acc, ch) ==
    IF ch = "/" THEN [acc EXCEPT !.inside = FALSE]
    ELSE IF acc.inside
    THEN [acc EXCEPT !.names[Len(acc.names)] = Append(@, ch)]
    ELSE [names |-> Append(acc.names, <<ch>>), inside |-> TRUE]

Components(text) == FoldLeft(Take, [names |-> << >>, inside |-> FALSE], text).names

\* strcpy and a receiver that has n characters of it.
Cut(text, n) == SubSeq(text, 1, Min({n, Len(text)}))

\* The path in a lookup request: pname has room for a file name only.
pname(path) == Cut(path, MAX_FILE_NAME_SIZE)

\* The test of the last character, in the code, looks at the final zero.
myparse(path) ==
    LET Pair(i, a, b) == path[i] = a /\ path[i + 1] = b
    IN  /\ Len(path) \in 1 .. MAX_PATH_NAME_SIZE - 1
        /\ path[1] = "/"
        /\ " " \notin ToSet(path)
        /\ \A i \in 1 .. Len(path) - 1 : ~Pair(i, "/", "/")
        /\ \A name \in ToSet(Components(path)) : Len(name) < MAX_FILE_NAME_SIZE

\* strncpy(buffer, token, strlen(token)).
CopyOver(buffer, token) ==
    token \o SubSeq(buffer, Len(token) + 1, Len(buffer))

\* Each name is copied over the one before it.
newfilename(path) ==
    LET names == Components(path)
        left == FoldLeft(CopyOver, << >>, names)
    IN  IF Len(names) > 1 THEN left ELSE CopyOver(left, Tail(path))

newdirname(path) ==
    IF Len(Components(path)) > 1
    THEN Cut(path, Len(path) - (Len(newfilename(path)) + 1))
    ELSE path

-----------------------------------------------------------------------------
\* The paths that survive all this: they fit in pname, have no slash at the end,
\* and no name in them is longer than the last one.
Plain(path) ==
    LET names == Components(path)
    IN  /\ Len(path) <= MAX_FILE_NAME_SIZE
        /\ names # << >> /\ path[Len(path)] # "/"
        /\ \A i \in DOMAIN names : Len(names[i]) <= Len(names[Len(names)])

\* What newfilename and newdirname are meant to be.
LastName(path) == LET names == Components(path) IN names[Len(names)]
Parent(path) == Cut(path, Len(path) - Len(LastName(path)) - 1)

\* On plain paths they are that: PlainPathsSplit in MyFsProofs.
SplitsRight(path) ==
    /\ newfilename(path) = LastName(path)
    /\ Len(Components(path)) > 1 => newdirname(path) = Parent(path)
=============================================================================
