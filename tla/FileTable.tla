------------------------------ MODULE FileTable ------------------------------
(***************************************************************************)
(* File descriptors: the system calls open and close                       *)
(* (kernel/src/generic/fs/sys.c), the operations under them (fsops.c), the *)
(* tables they share (vfs.c) and the filesystem mounted at the root        *)
(* (fs/test.c).                                                            *)
(*                                                                         *)
(* A process names an open file by an index into its own fdmap, whose      *)
(* entries index the global open_files, whose entries point to fsnodes.    *)
(* A system call runs with interrupts off, so a call is one step; the      *)
(* steps of the processes interleave.                                      *)
(*                                                                         *)
(* A path is a C string, walked with the kernel's string functions.        *)
(* add_child has no caller, so the child list of every fsnode stays empty, *)
(* and each lookup fills a new fsnode.                                     *)
(***************************************************************************)
EXTENDS Strings, FiniteSets, SequencesExt

CONSTANTS
    NUM_FSNODES, NUM_OPEN_FILES, FDS_PER_PROC, FILENAME_SIZE,
    Proc,               \* the processes that make system calls
    Paths, Modes,       \* bound: the paths and modes they pass to open
    node_names,         \* the names of the internal ids of testfs
    Children,           \* the ids in each directory; 0 is the root, and its own "."
    msg, BufSize,       \* the contents of every file; the size of a read buffer
    Offsets, MaxCursor  \* bound: seek offsets, and how far a cursor goes

ASSUME FileTableAssumption ==
    /\ {NUM_FSNODES, NUM_OPEN_FILES, FDS_PER_PROC} \subseteq Nat \ {0}
    /\ Proc \subseteq Nat
    /\ 0 \in DOMAIN Children
    /\ \A m \in Modes : m \subseteq {"READ", "WRITE", "APPEND"}

VARIABLES
    fsnodes, open_files,
    fdmap,              \* fdmap[p]: the descriptor table of process p
    panicked            \* "no", "oom" (KPANIC) or "fault" (a NULL dereference)

vars == <<fsnodes, open_files, fdmap, panicked>>

Node == 0 .. NUM_FSNODES - 1
Fd   == 0 .. NUM_OPEN_FILES - 1
Pfd  == 0 .. FDS_PER_PROC - 1
Dirs == DOMAIN Children
Delim == 47

\* The slots of the tables, as found at boot.  Of a closed file only .node is
\* ever read again before an open overwrites the rest.
NoNode == [type |-> "EMPTY", id |-> 0, ref_count |-> 0]
Fresh == 1000   \* what a buffer holds before a read
NoFile == [node |-> NULL, mode |-> {}, proc |-> NULL, cursor |-> 0, target |-> NULL]

(***************************************************************************)
(* testfs.  The fields user of all nodes are 0: no code sets them.         *)
(***************************************************************************)
tfs_retrieve_child(id, name, name_len) ==
    LET hits == IF id \notin Dirs THEN {}
                ELSE {i \in Children[id] : strncmp(name, node_names[i], name_len) = 0}
    IN  IF hits = {} THEN -1 ELSE Min(hits)

tfs_node_from_id(id) ==
    [type |-> IF id \in Dirs THEN "DIRECTORY" ELSE "FILE", id |-> id, ref_count |-> 0]

Perms(node) ==
    {"ROTH", "RUSR", "RGRP", "WUSR"} \cup
    (IF node.type = "DIRECTORY" THEN {"XOTH", "XUSR", "XGRP"} ELSE {})

user == 0

\* Faulty variant: the cursor is not added to the message.
tfs_read_start(cursor, nbytes, kbuffer) ==
    IF cursor >= Len(msg) + 1 THEN [buffer |-> kbuffer, count |-> -1]
    ELSE [buffer |-> stpncpy(kbuffer, msg, nbytes), count |-> Min({nbytes, Len(msg) + 1})]

\* The terminating NUL of msg counts as one of its bytes.  The copy begins before
\* the message when the cursor is negative: what is there is not known.
tfs_read(cursor, nbytes, kbuffer) ==
    IF cursor >= Len(msg) + 1 THEN [buffer |-> kbuffer, count |-> -1]
    ELSE [buffer |-> IF cursor < 0 THEN << >>
                     ELSE stpncpy(kbuffer, SubSeq(msg, cursor + 1, Len(msg)), nbytes),
          count |-> Min({nbytes, Len(msg) + 1})]

can_read(node, p)  == p = -1 \/ "ROTH" \in Perms(node) \/ ("RUSR" \in Perms(node) /\ p = user)
can_write(node, p) == p = -1 \/ "WOTH" \in Perms(node) \/ ("WUSR" \in Perms(node) /\ p = user)
can_exec(node, p)  == p = -1 \/ "XOTH" \in Perms(node) \/ ("XUSR" \in Perms(node) /\ p = user)

FtInit ==
    /\ fsnodes = [i \in Node |-> IF i = 0 THEN tfs_node_from_id(0) ELSE NoNode]
    /\ open_files = [f \in Fd |-> NoFile]
    /\ fdmap = [p \in Proc |-> [i \in Pfd |-> -1]]
    /\ panicked = "no"

-----------------------------------------------------------------------------
(***************************************************************************)
(* Lookup.  get_node gives the table with the new node in it, and its      *)
(* index, or NULL if the table is full or the name is not found.           *)
(***************************************************************************)
find_any_node(nodes) == Node \ {0}   \* faulty variant: the type is not looked at

find_free_node(nodes) == {i \in Node : nodes[i].type = "EMPTY"}

get_node_with_len(nodes, parent, name, len) ==
    LET free == find_free_node(nodes)
        id   == tfs_retrieve_child(nodes[parent].id, name, len)
    IN  IF free = {} \/ id = -1
        THEN [nodes |-> nodes, node |-> NULL]
        ELSE [nodes |-> [nodes EXCEPT ![Min(free)] = tfs_node_from_id(id)], node |-> Min(free)]

From(path, p) == SubSeq(path, p + 1, Len(path))

\* The end of the string from p, without the slashes at its end.
first_of_trailing(path, p) ==
    LET others == {i \in p .. strlen(path) - 1 : At(path, i) # Delim}
    IN  IF others = {} THEN p ELSE Max(others) + 1

\* The fields that the loop of find_parent_checkperm comes to, behind the first
\* slash and before the last; a field may be empty.
Fields(path) ==
    LET end == first_of_trailing(path, 1)
        last_delim == memrchr(path, 1, Delim, end - 1)
        rest[p \in 1 .. Len(path)] ==
            LET next_delim == strnchr(path, p, Delim, end - p)
                last == next_delim = last_delim
            IN  IF next_delim = NULL THEN << >>
                ELSE <<[name |-> From(path, p), len |-> next_delim - p, last |-> last]>>
                        \o (IF last THEN << >> ELSE rest[next_delim + 1])
    IN  rest[1]

\* find_parent_checkperm: walk from the root through the fields.  The nodes made
\* on the way stay in the table, also when the walk fails.
find_parent_checkperm(path, p) ==
    LET Enter(up, f) ==
            LET got == IF f.len = 0 \/ up.node = NULL THEN up
                       ELSE get_node_with_len(up.nodes, up.node, f.name, f.len)
                ok  == /\ got.node # NULL
                       /\ got.nodes[got.node].type = "DIRECTORY"
                       /\ f.last \/ can_exec(got.nodes[got.node], p)
            IN  IF ok THEN got ELSE [got EXCEPT !.node = NULL]
        start == At(path, 0) = Delim /\ can_exec(fsnodes[0], p)
    IN  FoldLeft(Enter, [nodes |-> fsnodes, node |-> IF start THEN 0 ELSE NULL],
                 IF start THEN Fields(path) ELSE << >>)

\* The last component, and the slashes behind it.
basename(path) ==
    LET last_delim == memrchr(path, 0, Delim, first_of_trailing(path, 0))
    IN  IF last_delim = NULL THEN NULL ELSE last_delim + 1

\* What vfs_open looks up: the parent, then the last component in it.  For a
\* path of slashes alone, basename is NULL and get_node reads through it.
ParentFound(up, p) == up.node # NULL /\ can_exec(up.nodes[up.node], p)

Lookup(path, up) ==
    LET name == basename(path)
    IN  IF name = NULL THEN [nodes |-> up.nodes, node |-> NULL]
        ELSE get_node_with_len(up.nodes, up.node, From(path, name),
                               strnlen(path, name, FILENAME_SIZE))

\* The cwd of every process is "/".
new_prepend_cwd(rel) == <<Delim>> \o rel

Allowed(node, mode, p) ==
    /\ mode \cap {"APPEND", "WRITE"} # {} => can_write(node, p)
    /\ "READ" \in mode => can_read(node, p)

(***************************************************************************)
(* Ghost: the id whose names from the root down are exactly the components *)
(* of a path, or -1.                                                       *)
(***************************************************************************)
Components(path) ==
    LET delims == {i \in 1 .. Len(path) + 1 : i = Len(path) + 1 \/ path[i] = Delim}
        starts == {i \in 1 .. Len(path) : i \notin delims /\ (i = 1 \/ i - 1 \in delims)}
    IN  [k \in 1 .. Cardinality(starts) |->
            LET i == SetToSortSeq(starts, <)[k]
            IN  SubSeq(path, i, Min({j \in delims : j > i}) - 1)]

TreePath[id \in DOMAIN node_names] ==
    IF id = 0 THEN << >>
    ELSE Append(TreePath[CHOOSE d \in Dirs : id \in Children[d]], node_names[id])

Named(path) ==
    LET ids == {id \in DOMAIN node_names : TreePath[id] = Components(path)}
    IN  IF ids = {} THEN -1 ELSE Min(ids)

find_free_fd == {f \in Fd : open_files[f].node = NULL}

find_free_proc_fd(p) == {i \in Pfd : fdmap[p][i] = -1}

-----------------------------------------------------------------------------
(***************************************************************************)
(* __sys_open, by process p.  With no free entry in its fdmap the call     *)
(* returns -1 and changes nothing.                                         *)
(***************************************************************************)
OpenNoMemory(p) ==
    /\ find_free_proc_fd(p) # {}
    /\ panicked' = "oom"
    /\ UNCHANGED <<fsnodes, open_files, fdmap>>

OpenNoParent(p, path) ==
    LET up == find_parent_checkperm(new_prepend_cwd(path), p)
    IN  /\ find_free_proc_fd(p) # {}
        /\ ~ ParentFound(up, p)
        /\ fsnodes' = up.nodes
        /\ UNCHANGED <<open_files, fdmap, panicked>>

\* The node is used without a check for NULL.
OpenMissing(p, path) ==
    LET up  == find_parent_checkperm(new_prepend_cwd(path), p)
        got == Lookup(new_prepend_cwd(path), up)
    IN  /\ find_free_proc_fd(p) # {}
        /\ ParentFound(up, p)
        /\ got.node = NULL
        /\ fsnodes' = got.nodes
        /\ panicked' = "fault"
        /\ UNCHANGED <<open_files, fdmap>>

\* The mode is not permitted, or open_files is full: the new node stays.
OpenRefused(p, path, mode) ==
    LET up  == find_parent_checkperm(new_prepend_cwd(path), p)
        got == Lookup(new_prepend_cwd(path), up)
    IN  /\ find_free_proc_fd(p) # {}
        /\ ParentFound(up, p)
        /\ got.node # NULL
        /\ Allowed(got.nodes[got.node], mode, p) => find_free_fd = {}
        /\ fsnodes' = got.nodes
        /\ UNCHANGED <<open_files, fdmap, panicked>>

Open(p, path, mode) ==
    LET up  == find_parent_checkperm(new_prepend_cwd(path), p)
        got == Lookup(new_prepend_cwd(path), up)
        pfd == Min(find_free_proc_fd(p))
        fd  == Min(find_free_fd)
    IN  /\ find_free_proc_fd(p) # {}
        /\ ParentFound(up, p)
        /\ got.node # NULL
        /\ Allowed(got.nodes[got.node], mode, p)
        /\ find_free_fd # {}
        /\ open_files' = [open_files EXCEPT ![fd] =
              [node |-> got.node,
               mode |-> IF "APPEND" \in mode THEN mode \cup {"WRITE"} ELSE mode,
               proc |-> p, cursor |-> 0, target |-> Named(new_prepend_cwd(path))]]
        /\ fsnodes' = [got.nodes EXCEPT ![got.node].ref_count = @ + 1]
        /\ fdmap' = [fdmap EXCEPT ![p][pfd] = fd]
        /\ UNCHANGED panicked

\* Faulty variants: the reference is not given back; the process keeps its
\* descriptor.
CloseKeepsCount(p, pfd) ==
    LET fd == fdmap[p][pfd]
    IN  /\ fd >= 0
        /\ fdmap' = [fdmap EXCEPT ![p][pfd] = -1]
        /\ open_files' = [open_files EXCEPT ![fd] = NoFile]
        /\ UNCHANGED <<fsnodes, panicked>>

CloseKeepsFd(p, pfd) ==
    LET fd == fdmap[p][pfd]
    IN  /\ fd >= 0 /\ open_files[fd].node # NULL
        /\ fsnodes' = [fsnodes EXCEPT ![open_files[fd].node].ref_count = @ - 1]
        /\ open_files' = [open_files EXCEPT ![fd] = NoFile]
        /\ UNCHANGED <<fdmap, panicked>>

(***************************************************************************)
(* __sys_close: the process's entry is cleared, then vfs_close gives up    *)
(* the open file, unless it has no node.  The node stays in fsnodes.       *)
(***************************************************************************)
Close(p, pfd) ==
    LET fd == fdmap[p][pfd]
    IN  /\ fd >= 0
        /\ fdmap' = [fdmap EXCEPT ![p][pfd] = -1]
        /\ IF open_files[fd].node = NULL
           THEN UNCHANGED <<open_files, fsnodes>>
           ELSE /\ fsnodes' = [fsnodes EXCEPT ![open_files[fd].node].ref_count = @ - 1]
                /\ open_files' = [open_files EXCEPT ![fd] = NoFile]
        /\ UNCHANGED panicked

(***************************************************************************)
(* vfs_seek, for the anchors ANCH_REL and ANCH_START.  ANCH_END and a      *)
(* negative offset from the start return -1 and change nothing.            *)
(***************************************************************************)
Seek(fd, offset, anchor) ==
    LET from   == IF open_files[fd].cursor < 0 THEN 0 ELSE open_files[fd].cursor
        cursor == IF anchor = "REL" THEN from + offset ELSE offset
    IN  /\ open_files[fd].node # NULL
        /\ anchor = "START" => offset >= 0
        /\ cursor <= MaxCursor
        /\ open_files' = [open_files EXCEPT ![fd].cursor = cursor]
        /\ UNCHANGED <<fsnodes, fdmap, panicked>>

\* Reading changes none of the tables: what it returns, and leaves in the buffer.
\* (testfs refuses every write.)
vfs_read(fd, nbytes, buffer) ==
    LET f == open_files[fd]
    IN  IF f.node = NULL \/ fsnodes[f.node].type # "FILE" \/ "READ" \notin f.mode
        THEN [buffer |-> buffer, count |-> -1]
        ELSE tfs_read(f.cursor, nbytes, buffer)

__sys_read(p, pfd, nbytes, buffer) ==
    IF fdmap[p][pfd] < 0 THEN [buffer |-> buffer, count |-> -1]
    ELSE vfs_read(fdmap[p][pfd], nbytes, buffer)

\* vfs_mkfile, vfs_mkdir (for p) and vfs_delnode (p = -1): testfs refuses them
\* all, but the walk to the parent leaves its nodes behind.
MakeOrDelete(p, path) ==
    /\ fsnodes' = find_parent_checkperm(path, p).nodes
    /\ UNCHANGED <<open_files, fdmap, panicked>>

FtNext ==
    /\ panicked = "no"
    /\ \/ \E p \in Proc : OpenNoMemory(p)
       \/ \E p \in Proc, path \in Paths : OpenNoParent(p, path) \/ OpenMissing(p, path)
       \/ \E p \in Proc, path \in Paths, mode \in Modes :
             OpenRefused(p, path, mode) \/ Open(p, path, mode)
       \/ \E p \in Proc, pfd \in Pfd : Close(p, pfd)
       \/ \E fd \in Fd, offset \in Offsets, anchor \in {"REL", "START"} :
             Seek(fd, offset, anchor)
       \/ \E p \in Proc \cup {-1}, path \in Paths : MakeOrDelete(p, new_prepend_cwd(path))

FtSpec == FtInit /\ [][FtNext]_vars

-----------------------------------------------------------------------------
(***************************************************************************)
(* Type invariant of the three tables.                                     *)
(***************************************************************************)
FtTypeOK ==
    /\ fsnodes \in [Node -> [type : {"EMPTY", "FILE", "DIRECTORY"}, id : Nat, ref_count : Nat]]
    /\ \A f \in Fd :
          /\ open_files[f].node \in Node \cup {NULL}
          /\ open_files[f].proc \in Proc \cup {NULL}
          /\ open_files[f].cursor \in Int
    /\ fdmap \in [Proc -> [Pfd -> Fd \cup {-1}]]
    /\ panicked \in {"no", "oom", "fault"}

(***************************************************************************)
(* The ref_count of an fsnode is the number of open files that refer to    *)
(* it, however the processes interleave their opens and closes and         *)
(* whichever of them fail half-way.                                        *)
(***************************************************************************)
RefCountExact ==
    \A i \in Node :
       fsnodes[i].ref_count = Cardinality({f \in Fd : open_files[f].node = i})

(***************************************************************************)
(* Every descriptor a process holds leads to an open file of that process, *)
(* and every open file is held by exactly one descriptor of one process:   *)
(* no descriptor outlives its file, none is shared, and no open file is    *)
(* left that nobody can close (and the tables keep their types).           *)
(***************************************************************************)
DescriptorsExact ==
    /\ FtTypeOK
    /\ \A p \in Proc, i \in Pfd :
          fdmap[p][i] # -1 =>
             /\ open_files[fdmap[p][i]].node # NULL
             /\ open_files[fdmap[p][i]].proc = p
    /\ \A f \in Fd :
          open_files[f].node # NULL =>
             Cardinality({<<p, i>> \in Proc \X Pfd : fdmap[p][i] = f}) = 1

(***************************************************************************)
(* An open file leads to the file whose names from the root down were the  *)
(* components of the path: however many slashes stood between or behind    *)
(* them, and not to another that a later lookup put in the same fsnode.    *)
(* (A path that is no file's exact name may open one whose name it begins  *)
(* or that begins it.)                                                     *)
(***************************************************************************)
OpensNamedFile ==
    \A f \in Fd :
       open_files[f].node # NULL =>
          LET node == fsnodes[open_files[f].node]
          IN  /\ node.type # "EMPTY"
              /\ open_files[f].target # -1 => node.id = open_files[f].target

(***************************************************************************)
(* A read from an open file fails exactly when the cursor is past the NUL  *)
(* of the message, at the end or beyond it.  Otherwise it hands out what   *)
(* stands at the cursor, as many bytes as were asked for or are left, and  *)
(* writes at most one byte, the NUL, behind those.  The count is what was  *)
(* read when that is all that was asked for.  (A longer read returns too   *)
(* large a count.  Nothing is said of a cursor that a seek made negative.) *)
(***************************************************************************)
Readable(f) ==
    f.node # NULL /\ fsnodes[f.node].type = "FILE" /\ "READ" \in f.mode /\ f.cursor >= 0

ReadsFromCursor ==
    \A p \in Proc, pfd \in Pfd, nbytes \in 0 .. BufSize - 1 :
       fdmap[p][pfd] # -1 /\ Readable(open_files[fdmap[p][pfd]]) =>
          LET got    == __sys_read(p, pfd, nbytes, [i \in 1 .. BufSize |-> Fresh])
              cursor == open_files[fdmap[p][pfd]].cursor
              left   == SubSeq(msg, cursor + 1, Len(msg))
              n      == Min({nbytes, Len(left)})
          IN  /\ got.count < 0 <=> cursor > Len(msg)
              /\ got.count >= 0 =>
                    /\ SubSeq(got.buffer, 1, n) = SubSeq(left, 1, n)
                    /\ \A i \in n + 2 .. BufSize : got.buffer[i] = Fresh
                    /\ got.count = n \/ nbytes > n

==============================================================================
