----------------------------- MODULE MCFileTable -----------------------------
(***************************************************************************)
(* A tree like testfs's on a smaller scale: a file "f" and a directory "d" *)
(* in the root, a file "c" in the directory.                               *)
(***************************************************************************)
EXTENDS FileTable

\* ".", "f", "d", "c"
MCNames == [id \in 0 .. 3 |-> CASE id = 0 -> <<46>> [] id = 1 -> <<102>>
                               [] id = 2 -> <<100>> [] id = 3 -> <<99>>]

MCChildren == [d \in {0, 2} |-> IF d = 0 THEN {0, 1, 2} ELSE {3}]

\* A file, a file in a directory with more slashes than needed, the directory, a
\* name that is not there, one that a file's name begins, a file used as a
\* directory, and the root itself: f  /d//c/  d/  x  fx  f/c
MCPaths == {<<102>>, <<47, 100, 47, 47, 99, 47>>, <<100, 47>>,
            <<120>>, <<102, 120>>, <<102, 47, 99>>, << >>}

MCModes == {{"READ"}, {"APPEND"}}

MCOffsets == {-1, 1}

MCMsg == <<72, 101>>
==============================================================================
