------------------------------- MODULE MCExt2 -------------------------------
(* Volumes with blocks of one and two kilobytes, inodes of one and two     *)
(* units, tables longer than a block, and more groups than a sector holds. *)
EXTENDS Ext2

MCVolumes == {
    [blk_sz |-> 0, sz_ino |-> 1, ipg |-> 10, tables |-> <<3, 6>>, vers |-> 1,
     ids |-> {0, 1, 4, 5, 9, 11}],
    [blk_sz |-> 1, sz_ino |-> 2, ipg |-> 9, tables |-> <<2>>, vers |-> 1,
     ids |-> {1, 2, 3, 9}],
    [blk_sz |-> 0, sz_ino |-> 1, ipg |-> 1, tables |-> <<3, 5, 7>>, vers |-> 1,
     ids |-> {0, 1, 2, 3}],
    [blk_sz |-> 0, sz_ino |-> 1, ipg |-> 1, tables |-> <<3>>, vers |-> 0, ids |-> {1}]}
=============================================================================
