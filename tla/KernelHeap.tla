------------------------------ MODULE KernelHeap ------------------------------
(***************************************************************************)
(* The kernel heap: the buddy allocator of generic/heap (balloc.c,         *)
(* bfree.c, buddy_util.c) behind kalloc and kfree.                         *)
(*                                                                         *)
(* Addresses and orders are relative: an address counts blocks of the      *)
(* minimum order from the start of the heap, an order counts from          *)
(* min_order.  h is the allocator and the block headers in its memory.     *)
(* The kernel is single threaded here: a call runs to its end.             *)
(***************************************************************************)
EXTENDS Integers, Sequences, SequencesExt

CONSTANTS MaxOrder,   \* max_order - min_order (7 in the kernel: 32 to 4096 bytes)
          Sizes,      \* numbers of bytes that clients ask for
          MaxLive,    \* blocks in use at once, if the newest is freed first
          AnyOrder    \* blocks in use at once, if they are freed in any order

ASSUME MaxOrderAssumption == MaxOrder \in Nat
ASSUME SizesAssumption == Sizes \subseteq Nat
ASSUME LiveAssumption == MaxLive \in Nat /\ AnyOrder \in Nat

NULL == -1
Units == 2 ^ MaxOrder
Addr == 0 .. Units - 1
MinBlock == 32      \* 1 << min_order
HeaderSize == 24    \* sizeof(buddy_block)

VARIABLES h,        \* [lists, order, taken, next, prev]
          live,     \* history: [addr, order, size] of the blocks in use, oldest first
          lifo,     \* how the clients free, chosen once: the newest block first?
          panicked  \* a NULL pointer was followed: page fault, KPANIC

vars == <<h, live, lifo, panicked>>

-----------------------------------------------------------------------------
(* buddy_util.c *)

remove_block(s, bl) ==
  LET left == s.prev[bl]
      right == s.next[bl]
  IN [s EXCEPT
        !.next = [a \in Addr |-> IF a = left THEN right ELSE @[a]],
        !.prev = [a \in Addr |-> IF a = right THEN left ELSE @[a]],
        !.lists = IF left = NULL THEN [@ EXCEPT ![s.order[bl]] = right] ELSE @,
        !.taken[bl] = 1]

insert_block_taken(s, bl) ==   \* faulty variant: taken is not cleared
  LET head == s.lists[s.order[bl]]
  IN [s EXCEPT
        !.prev = [a \in Addr |-> IF a = head THEN bl ELSE IF a = bl THEN NULL ELSE @[a]],
        !.next[bl] = head,
        !.lists[s.order[bl]] = bl]

insert_block(s, bl) ==
  LET head == s.lists[s.order[bl]]
  IN [s EXCEPT
        !.prev = [a \in Addr |-> IF a = head THEN bl ELSE IF a = bl THEN NULL ELSE @[a]],
        !.next[bl] = head,
        !.taken[bl] = 0,
        !.lists[s.order[bl]] = bl]

IsLeft(a, o) == (a \div (2 ^ o)) % 2 = 0
get_buddy(s, bl) ==
  LET o == s.order[bl] IN IF IsLeft(bl, o) THEN bl + 2 ^ o ELSE bl - 2 ^ o

split(s, bl) ==
  IF s.order[bl] = 0 THEN s
  ELSE LET s1 == [remove_block(s, bl) EXCEPT !.order[bl] = @ - 1]
           br == get_buddy(s1, bl)
       IN insert_block(insert_block([s1 EXCEPT !.order[br] = s1.order[bl]], bl), br)

LeftBuddy(s, bl) == IF IsLeft(bl, s.order[bl]) THEN bl ELSE get_buddy(s, bl)

(* NULL when the orders of the buddies differ. *)
Mergeable(s, bl) ==
  LET l == LeftBuddy(s, bl) IN s.order[l] = s.order[get_buddy(s, l)]

merge(s, bl) ==
  LET l  == LeftBuddy(s, bl)
      s1 == remove_block(s, l)
      s2 == remove_block(s1, get_buddy(s1, l))
  IN insert_block([s2 EXCEPT !.order[l] = @ + 1], l)

buddy_init ==
  insert_block([lists |-> [o \in 0 .. MaxOrder + 1 |-> NULL],
                order |-> [a \in Addr |-> IF a = 0 THEN MaxOrder ELSE 0],
                taken |-> [a \in Addr |-> 0],
                next  |-> [a \in Addr |-> NULL],
                prev  |-> [a \in Addr |-> NULL]], 0)

-----------------------------------------------------------------------------
(* bfree: merge while the buddy is free. *)
RECURSIVE MergeUp(_, _)
MergeUp(s, bl) ==
  IF s.order[bl] = MaxOrder \/ s.taken[get_buddy(s, bl)] = 1 \/ ~Mergeable(s, bl) THEN s
  ELSE MergeUp(merge(s, bl), LeftBuddy(s, bl))

(* Faulty variants: a block whose buddy is taken is not put back; buddies  *)
(* are never merged.                                                       *)
bfree_forgets(s, bl) ==
  IF s.order[bl] = MaxOrder THEN s
  ELSE LET buddy == get_buddy(s, bl)
       IN IF s.order[buddy] # s.order[bl] \/ s.taken[buddy] = 1
            THEN s ELSE MergeUp(s, bl)
bfree_no_merge(s, bl) == IF s.order[bl] = MaxOrder THEN s ELSE insert_block(s, bl)

bfree(s, bl) ==
  IF s.order[bl] = MaxOrder THEN s
  ELSE LET buddy == get_buddy(s, bl)
       IN IF s.order[buddy] # s.order[bl] \/ s.taken[buddy] = 1
            THEN insert_block(s, bl) ELSE MergeUp(s, bl)

RequestOrderNoHeader(size) ==   \* faulty variant: no room for the header
  CHOOSE o \in 0 .. MaxOrder + 1 :
    /\ size <= MinBlock * 2 ^ o
    /\ o = 0 \/ size > MinBlock * 2 ^ (o - 1)

(* balloc: size and header rounded up to a power of two, at least MinBlock. *)
RequestOrder(size) ==
  CHOOSE o \in 0 .. MaxOrder + 1 :
    /\ size + HeaderSize <= MinBlock * 2 ^ o
    /\ o = 0 \/ size + HeaderSize > MinBlock * 2 ^ (o - 1)

(* The order of the list that serves a request, if there is one.           *)
Serving(s, o) == {n \in o .. MaxOrder : s.lists[n] # NULL}
Smallest(S) == CHOOSE n \in S : \A m \in S : n <= m

RECURSIVE SplitTimes(_, _, _)
SplitTimes(s, bl, k) == IF k = 0 THEN s ELSE SplitTimes(split(s, bl), bl, k - 1)

(* remove_block is called again at the label ret after an exact fit.       *)
balloc(s, o) ==
  LET n  == Smallest(Serving(s, o))
      bl == s.lists[n]
  IN IF n = o THEN remove_block(remove_block(s, bl), bl)
     ELSE remove_block(SplitTimes(s, bl, n - o), bl)

-----------------------------------------------------------------------------
Block(x) == x.addr .. (x.addr + 2 ^ x.order - 1)

Init == h = buddy_init /\ live = <<>> /\ lifo \in BOOLEAN /\ panicked = FALSE

(* The new owner writes over the stale headers inside its block.           *)
Overwrite(s, x) ==
  LET inside == Block(x) \ {x.addr}
      Wipe(f, v) == [a \in Addr |-> IF a \in inside THEN v ELSE f[a]]
  IN [s EXCEPT !.order = Wipe(@, 0), !.taken = Wipe(@, 0),
               !.next = Wipe(@, NULL), !.prev = Wipe(@, NULL)]

TooBigOrZero(size) == size > Units * MinBlock \/ size = 0

MayHoldMore == Len(live) < (IF lifo THEN MaxLive ELSE AnyOrder)

KallocRefused(size) ==   \* NULL
  /\ ~panicked /\ TooBigOrZero(size)
  /\ UNCHANGED vars

Kalloc(size) ==
  /\ ~panicked /\ MayHoldMore /\ ~TooBigOrZero(size)
  /\ LET o == RequestOrder(size)
         x == [addr |-> h.lists[Smallest(Serving(h, o))], order |-> o, size |-> size]
     IN /\ Serving(h, o) # {}
        /\ h' = Overwrite(balloc(h, o), x)
        /\ live' = Append(live, x)
  /\ UNCHANGED <<lifo, panicked>>

(* No list serves: ret_block = NULL still reaches remove_block.            *)
KallocExhausted(size) ==
  /\ ~panicked /\ MayHoldMore /\ ~TooBigOrZero(size)
  /\ Serving(h, RequestOrder(size)) = {}
  /\ panicked' = TRUE
  /\ UNCHANGED <<h, live, lifo>>

Kfree(i) ==
  /\ ~panicked /\ (lifo => i = Len(live))
  /\ h' = bfree(h, live[i].addr)
  /\ live' = RemoveAt(live, i)
  /\ UNCHANGED <<lifo, panicked>>

Next ==
  \/ \E size \in Sizes : KallocRefused(size) \/ Kalloc(size) \/ KallocExhausted(size)
  \/ \E i \in 1 .. Len(live) : Kfree(i)

Spec == Init /\ [][Next]_vars

-----------------------------------------------------------------------------
(* Type invariant: list heads and links are blocks of the heap or NULL, and *)
(* no block grows past the heap.                                            *)
TypeOK ==
  /\ h \in [lists : [0 .. MaxOrder + 1 -> Addr \cup {NULL}],
            order : [Addr -> 0 .. MaxOrder],
            taken : [Addr -> {0, 1}],
            next : [Addr -> Addr \cup {NULL}],
            prev : [Addr -> Addr \cup {NULL}]]
  /\ live \in Seq([addr : Addr, order : 0 .. MaxOrder, size : Sizes])
  /\ lifo \in BOOLEAN /\ panicked \in BOOLEAN

(* The blocks that a walk of list o meets.                                 *)
Listed(o) ==
  LET after[k \in 0 .. Units] ==
        IF k = 0 THEN {h.lists[o]} \ {NULL}
        ELSE LET S == after[k - 1] IN S \cup ({h.next[a] : a \in S} \ {NULL})
  IN after[Units]
FreeBlocks == UNION {{[addr |-> a, order |-> o] : a \in Listed(o)} : o \in 0 .. MaxOrder}

(* No byte is given out twice: the header and the data of a block in use   *)
(* end before the next block in use begins, and within the heap (and the   *)
(* allocator keeps its types).                                             *)
FirstByte(x) == x.addr * MinBlock
LastByte(x) == FirstByte(x) + HeaderSize + x.size - 1
LiveDisjoint ==
  /\ TypeOK
  /\ \A x \in ToSet(live) : LastByte(x) < Units * MinBlock
  /\ \A i, j \in 1 .. Len(live) :
       i # j => LastByte(live[i]) < FirstByte(live[j]) \/ LastByte(live[j]) < FirstByte(live[i])

(* "Blocks in the list are free ones" (buddy_util.c:30): a walk of a list  *)
(* meets only blocks of its order, marked free, that nobody holds.         *)
ListsHoldFreeBlocks ==
  \A x \in FreeBlocks :
    /\ h.order[x.addr] = x.order /\ h.taken[x.addr] = 0
    /\ \A y \in ToSet(live) : Block(x) \cap Block(y) = {}

(* Memory that is neither in a list nor in use is lost.  However blocks    *)
(* are split and merged, part of the heap is never lost.  All of it is,    *)
(* once a block as large as the heap was in use and is freed: bfree        *)
(* returns without putting that block back.                                *)
Lost == Addr \ UNION {Block(x) : x \in FreeBlocks \cup ToSet(live)}
LostOnlyWhole ==
  Lost # {} => Lost = Addr /\ h.order[0] = MaxOrder /\ h.taken[0] = 1

(* bfree merges as far as it can: two free buddies never stay apart.       *)
Coalesced ==
  \A x, y \in FreeBlocks :
    ~(x.order = y.order /\ x.addr + 2 ^ x.order = y.addr /\ IsLeft(x.addr, x.order))
=============================================================================
