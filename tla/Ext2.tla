-------------------------------- MODULE Ext2 --------------------------------
(***************************************************************************)
(* The ext2 file system (generic/fs/ext2.c) on the buffer cache: mounting, *)
(* and finding an inode, which takes five bc_gets, of the superblock, the  *)
(* group table and the inode table.  The stores and their cache are those  *)
(* of BufferCache; a sector holds 0 when it is as on the volume, anything  *)
(* else is garbage.  Sizes and places are in units of the smallest inode.  *)
(***************************************************************************)
EXTENDS BufferCache

CONSTANTS
    SegSz,          \* units in a sector (512 bytes)
    Kilo,           \* units in 1024 bytes
    DescPerSeg,     \* group descriptors in a sector
    Volumes,        \* [blk_sz, sz_ino, ipg, tables, vers, ids]
    MaxBlk          \* bound on the blocks a garbage descriptor names

VARIABLES
    vol,            \* the volume on store 0
    mounted,
    pc,             \* where ext2_initmnt or ext2_node_from_id is
    job,            \* its id, whether it follows garbage, and the place it found
    ans             \* what the last lookup answered

extVars == <<vol, mounted, pc, job, ans>>

Dev == 0
NoJob == [id |-> 0, wild |-> FALSE, lba |-> 0, off |-> 0]
\* A node filled from bytes that are no inode of the volume.
Junk == -1

ExtInit ==
    /\ BcInit
    /\ vol \in Volumes
    /\ mounted = FALSE
    /\ pc = "idle"
    /\ job = NoJob
    /\ ans = [id |-> 0, ret |-> -1, got |-> FALSE, evicted |-> FALSE, node |-> Junk]

-----------------------------------------------------------------------------
(* Places on the volume. *)

BlkSize == Kilo * 2 ^ vol.blk_sz
byte2blk(byte) == byte \div BlkSize
blk2byte(blk) == blk * BlkSize
blk2lba(blk) == blk2byte(blk) \div SegSz
SbLba == Kilo \div SegSz
table_seg == blk2lba(1 + byte2blk(Kilo))

\* C division rounds towards zero: -1, for id 0, is in group 0, at the index
\* 2^64 - 1.  The products and sums wrap around too, so that index acts as -1.
blk_group(id) == IF id = 0 /\ vol.ipg > 1 THEN 0 ELSE (id - 1) \div vol.ipg
ind_in_grp(id) == IF id = 0 /\ vol.ipg > 1 THEN -1 ELSE (id - 1) % vol.ipg

\* Faulty variant: inodes are numbered from 0.
place0(first, id) ==
    LET byte == ((id % vol.ipg) * vol.sz_ino)
        blk == first + byte \div BlkSize
        start_byte == blk * BlkSize + (byte % BlkSize)
    IN  [lba |-> blk2lba(blk), off |-> start_byte - blk2lba(blk) * SegSz]

\* The sector the inode is looked for in, and the byte in the sector's buffer.
place(first, id) ==
    LET byte == ind_in_grp(id) * vol.sz_ino
        blk == first + byte \div BlkSize
        start_byte == blk * BlkSize + (byte % BlkSize)
    IN  [lba |-> blk2lba(blk), off |-> start_byte - blk2lba(blk) * SegSz]

\* The inode stored at a place of the volume, by the ext2 format.
InodeAt(byte) ==
    LET here == {<<g, k>> \in (1 .. Len(vol.tables)) \X (0 .. vol.ipg - 1) :
                    blk2byte(vol.tables[g]) + k * vol.sz_ino = byte}
    IN  IF here = {} THEN Junk
        ELSE LET i == CHOOSE i \in here : TRUE IN (i[1] - 1) * vol.ipg + i[2] + 1

-----------------------------------------------------------------------------
\* The sector's cached bytes are what the volume has there, after bc_get.
Good(a) ==
    \E i \in DOMAIN cache'[Dev] : cache'[Dev][i].addr = a /\ cache'[Dev][i].data = 0

\* ext2_initmnt.  A superblock that cannot be got is read through NULL.
Mount ==
    /\ pc = "idle" /\ ~mounted
    /\ BcGet(Dev, SbLba)
    /\ pc' = IF last'.ok THEN "idle" ELSE "fault"
    /\ mounted' \in IF ~last'.ok THEN {FALSE}
                    ELSE IF Good(SbLba) THEN {vol.vers >= 1} ELSE BOOLEAN
    /\ UNCHANGED <<vol, job, ans>>

\* ext2_node_from_id is called.
Lookup(id) ==
    /\ pc = "idle" /\ mounted
    /\ job' = [NoJob EXCEPT !.id = id]
    /\ pc' = "sb"
    /\ UNCHANGED <<vars, vol, mounted, ans>>

\* get_sb, called first by the lookup itself and then by each blk2lba; the
\* result is used without a test for NULL.
GetSb ==
    /\ pc \in {"sb", "sb_table", "sb_inode"}
    /\ BcGet(Dev, SbLba)
    /\ pc' = IF last'.ok
               THEN [sb |-> "sb_table", sb_table |-> "table", sb_inode |-> "inode"][pc]
               ELSE "fault"
    /\ job' = [job EXCEPT !.wild = @ \/ (last'.ok /\ ~Good(SbLba))]
    /\ UNCHANGED <<vol, mounted, ans>>

Answer(ret, got, evicted, node) ==
    /\ ans' = [id |-> job.id, ret |-> ret, got |-> got, evicted |-> evicted, node |-> node]
    /\ pc' = "idle"
    /\ job' = NoJob

\* The group table: only its first sector is read, and a descriptor beyond it
\* is whatever lies behind the buffer.
GetTable ==
    /\ pc = "table"
    /\ \E a \in IF job.wild THEN Addr ELSE {table_seg} :
        /\ BcGet(Dev, a)
        /\ IF ~last'.ok THEN Answer(-1, FALSE, last'.evicted, Junk)
           ELSE LET g == blk_group(job.id)
                    known == ~job.wild /\ Good(a) /\ g \in 0 .. DescPerSeg - 1
                IN  \E first \in IF known THEN {vol.tables[g + 1]} ELSE 0 .. MaxBlk :
                      LET p == place(first, job.id) IN
                      /\ job' = [job EXCEPT !.wild = ~known, !.lba = p.lba, !.off = p.off]
                      /\ pc' = "sb_inode"
                      /\ UNCHANGED ans
    /\ UNCHANGED <<vol, mounted>>

\* The inode's sector.  The result of this bc_get is not looked at: when it
\* failed, the node is filled through a pointer that was never set, or from a
\* buffer that was never read; an offset past the sector leaves the buffer.
GetInode ==
    /\ pc = "inode"
    /\ \E a \in IF job.wild \/ job.lba \notin Addr THEN Addr ELSE {job.lba} :
        /\ BcGet(Dev, a)
        /\ Answer(0, last'.ok, last'.evicted,
                  IF last'.ok /\ ~job.wild /\ Good(a) /\ job.off + vol.sz_ino <= SegSz
                    THEN InodeAt(a * SegSz + job.off) ELSE Junk)
    /\ UNCHANGED <<vol, mounted>>

ExtNext ==
    \/ Mount
    \/ \E id \in vol.ids : Lookup(id)
    \/ GetSb
    \/ GetTable
    \/ GetInode

ExtSpec == ExtInit /\ [][ExtNext]_<<vars, extVars>>

-----------------------------------------------------------------------------
\* The lookup's own state keeps its shape; a place before the cached sector is
\* never computed.
ExtTypeOK ==
    /\ mounted \in BOOLEAN
    /\ pc \in {"idle", "sb", "sb_table", "table", "sb_inode", "inode", "fault"}
    /\ job.off \in 0 .. BlkSize - 1
    /\ pc # "idle" /\ pc # "fault" => mounted

\* The inode lies in the first sector of its block, and its group in the first
\* sector of the group table.
WithinReach(id) ==
    /\ id > 0
    /\ ((ind_in_grp(id) * vol.sz_ino) % BlkSize) + vol.sz_ino <= SegSz
    /\ blk_group(id) < DescPerSeg

\* The sectors a lookup needs.
Needed(id) ==
    {SbLba, table_seg} \cup
        {a \in Addr : \E off \in 0 .. SegSz - 1 : InodeAt(a * SegSz + off) = id}

\* A lookup that could get the inode's sector filled the node from that inode
\* and no other, on every volume, as long as the sectors it needed were not
\* cached by a failed read and lie where ext2_node_from_id can reach them (and
\* no place before the cached sector is ever computed, with the other types).
InodeFound ==
    /\ ExtTypeOK
    /\ ans.ret = 0 /\ ans.got /\ WithinReach(ans.id)
        /\ (\A a \in Needed(ans.id) : <<Dev, a>> \notin spoilt)
            => ans.node = ans.id

\* What store.h says of the cache, that it is transparently in use: a lookup
\* whose last bc_get had to make room finds its inode all the same.
CacheTransparent ==
    ans.ret = 0 /\ ans.evicted /\ WithinReach(ans.id) => ans.node = ans.id
=============================================================================
