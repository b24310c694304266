------------------------------- MODULE MCMyFs -------------------------------
(***************************************************************************)
(* Small instances of MyFs for TLC.                                        *)
(***************************************************************************)
EXTENDS MyFs, TLC

CONSTANTS c1, c2

\* "/a", "/a/b" and "/aa/b", whose last name is the shorter one.
A   == <<"/", "a">>
AB  == <<"/", "a", "/", "b">>
AAB == <<"/", "a", "a", "/", "b">>

MCOpenPath == {A, AB, AAB}
MCDirPath  == {A, AB}
MCListPath == {A, <<"/">>}
MCName == {newfilename(p) : p \in MCOpenPath \cup MCDirPath}

\* On plain paths the file name and the directory are the ones meant, whatever
\* the names: all texts of up to seven characters.
ASSUME PlainPathsSplitRight ==
    \A n \in 1 .. 7 : \A path \in [1 .. n -> {"/", "a", "b"}] :
        myparse(path) /\ Plain(path) => SplitsRight(path)

Symmetry == Permutations(Client)

\* Each server more gets one call less.  Two clients make two calls to two servers,
\* which are enough for these to differ; with three servers one client calls.
OneActive == \E c \in Client : \A d \in Client \ {c} : next_sn[d] = 0

FewCalls == Num_servers > 1 => /\ calls < MaxCalls + 2 - Num_servers
                               /\ calls > 2 \/ Num_servers > 2 => OneActive
=============================================================================
