------------------------------ MODULE Strings ------------------------------
(***************************************************************************)
(* The string functions of generic/forslib/string.c that the kernel calls. *)
(* Memory is a sequence of characters, a character is a natural number and *)
(* NUL is 0; a C string is the sequence of its characters without the NUL, *)
(* and reading at or past its end gives NUL.  A pointer into memory is the *)
(* offset of the byte it points to, from 0; NULL is -1.                    *)
(***************************************************************************)
EXTENDS Integers, Sequences, FiniteSetsExt

NUL == 0
NULL == -1

\* The byte at offset i.
At(m, i) == IF i \in 0 .. Len(m) - 1 THEN m[i + 1] ELSE NUL

\* The first of the n bytes from p that is c.
memchr(m, p, c, n) ==
    LET hits == {i \in p .. p + n - 1 : At(m, i) = c}
    IN  IF hits = {} THEN NULL ELSE Min(hits)

\* The last of them.
memrchr(m, p, c, n) ==
    LET hits == {i \in p .. p + n - 1 : At(m, i) = c}
    IN  IF hits = {} THEN NULL ELSE Max(hits)

\* The difference of the first bytes that differ.
memcmp(a, b, n) ==
    LET differ == {i \in 0 .. n - 1 : At(a, i) # At(b, i)}
    IN  IF differ = {} THEN 0 ELSE At(a, Min(differ)) - At(b, Min(differ))

strlen(s) == Len(s)

\* The length of the string that starts at p, at most n.
strnlen(s, p, n) == Min({n, Len(s) - p})

strnchr(s, p, c, n) == memchr(s, p, c, strnlen(s, p, n))

\* Compares only as far as the shorter string goes, without its NUL.
strncmp(a, b, n) == memcmp(a, b, Min({strnlen(a, 0, n), strnlen(b, 0, n)}))

\* Copies at most n characters to the start of dest, and a NUL behind them: the
\* memory it leaves.
stpncpy(dest, src, n) ==
    LET k == strnlen(src, 0, n)
    IN  [i \in DOMAIN dest |-> IF i <= k THEN src[i] ELSE IF i = k + 1 THEN NUL ELSE dest[i]]
=============================================================================
