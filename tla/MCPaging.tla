------------------------------- MODULE MCPaging -------------------------------
(* Tables of six entries, two processes and sixteen frames in three       *)
(* regions, the last of them beyond what an unsigned int can address.      *)
EXTENDS Paging

To(f) == [ptr |-> f, flags |-> {"PRESENT", "WRITABLE"}]
ReadOnly(f) == [ptr |-> f, flags |-> {"PRESENT"}]
Big(f) == [ptr |-> f, flags |-> {"PRESENT", "WRITABLE", "PAGESIZE"}]

MCFrame == (16 .. 21) \cup (28 .. 33) \cup (48 .. 51)
MCRegions ==
  << [base |-> 1, len |-> 6, reserved |-> FALSE],
     [base |-> 7, len |-> 3, reserved |-> FALSE],
     [base |-> 10, len |-> 6, reserved |-> TRUE],
     [base |-> 16, len |-> 6, reserved |-> FALSE],
     [base |-> 28, len |-> 6, reserved |-> FALSE],
     [base |-> 48, len |-> 4, reserved |-> FALSE] >>

(* Frames 1 to 6: the direct map (page 864) in a 1G page and 2M pages, the *)
(* image (page 1080, frames 7 to 9) in 4K pages.                           *)
MCBootTables ==
  1 :> (4 :> To(2) @@ 5 :> To(4) @@ Zeroed) @@
  2 :> (0 :> Big(0) @@ 1 :> To(3) @@ Zeroed) @@
  3 :> (0 :> Big(36) @@ 1 :> Big(42) @@ 2 :> Big(48) @@ Zeroed) @@
  4 :> (0 :> To(5) @@ Zeroed) @@
  5 :> (0 :> To(6) @@ Zeroed) @@
  6 :> (0 :> ReadOnly(7) @@ 1 :> ReadOnly(8) @@ 2 :> To(9) @@ Zeroed)

(* What pfalloc_one leaves in a frame (links of the frame list), and a     *)
(* copy of the boot loader's top table.                                    *)
MCLeftovers == {0 :> [ptr |-> 17, flags |-> {}] @@ Zeroed, MCBootTables[1]}

(* Each part but the first starts inside the last page of the one before.  *)
MCImage ==
  [virt |-> 1080, phys |-> 7,
   parts |-> << [from |-> 0, to |-> 3, flags |-> {"PRESENT"}],
                [from |-> 3, to |-> 6, flags |-> {"PRESENT"}],
                [from |-> 6, to |-> 9, flags |-> {"PRESENT", "WRITABLE"}] >>]

(* A page of user code and a page of the direct map.                       *)
MCVmapPages == {0, 866}
MCVmapFlags == {{"4K", "USER", "WRIT"}, {"4K", "EXEC"}, {"2M"}}
MCWatched == MCVmapPages \cup {1, 216, 864, 870, 907, 1116} \cup (1080 .. 1085)
=============================================================================
