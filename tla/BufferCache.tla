----------------------------- MODULE BufferCache -----------------------------
(***************************************************************************)
(* The buffer cache of the block stores (kernel/src/generic/store.c), over *)
(* the sector driver it calls through type->rd and type->wr                *)
(* (kernel/src/arch/x64/ata.c).                                            *)
(*                                                                         *)
(* Every store has a list of cached blocks, newest first.  A client gets a *)
(* pointer to the cached bytes from bc_get, edits them in place and has    *)
(* them written back by bc_put.  The blocks of all stores share one budget *)
(* of MAX_CACHED_BLOCKS entries, counted by bc_cached_count.               *)
(*                                                                         *)
(* The contents of a block are a value of Data.  The variable truth is a   *)
(* ghost: what the block holds after the edits its clients have made.      *)
(***************************************************************************)
EXTENDS Integers, Sequences, FiniteSets, FiniteSetsExt

CONSTANTS
    MAX_STORES,         \* the stores are 0 .. MAX_STORES-1, all registered
    Addr,               \* block addresses
    MAX_CACHED_BLOCKS,
    MaxData,            \* bound: block contents are 0 .. MaxData
    ReadFails,          \* may the driver report a failed read?
    WriteFails,         \* may the driver report a failed write?
    HoldAcross          \* may a client keep a buffer across another bc_get?

ASSUME BufferCacheAssumption ==
    /\ MAX_STORES \in Nat \ {0}
    /\ MAX_CACHED_BLOCKS \in Nat \ {0}
    /\ MaxData \in Nat
    /\ {ReadFails, WriteFails, HoldAcross} \subseteq BOOLEAN

VARIABLES
    cache,              \* stores[id].bc_first, as a sequence of entries
    bc_cached_count,
    disk,               \* the sectors of each store
    truth,              \* ghost: the contents the clients have asked for
    buffer,             \* ghost: the client's pointer into each block's buffer
    spoilt,             \* ghost: blocks cached by a failed read, or edited through
                        \* a pointer whose buffer was freed
    last                \* the last call and what it returned

vars == <<cache, bc_cached_count, disk, truth, buffer, spoilt, last>>

Store == 0 .. MAX_STORES - 1
Data  == 0 .. MaxData
Entry == [addr : Addr, data : Data]

BcInit ==
    /\ cache = [s \in Store |-> << >>]
    /\ bc_cached_count = 0
    /\ disk = [s \in Store |-> [a \in Addr |-> 0]]
    /\ truth = disk
    /\ buffer = [s \in Store |-> [a \in Addr |-> "none"]]
    /\ spoilt = {}
    /\ last = [op |-> "boot", ok |-> TRUE, evicted |-> FALSE]

Cached(s, a) == \E i \in DOMAIN cache[s] : cache[s][i].addr = a

\* The first entry of the list with this address: what both loops stop at.
At(s, a) == Min({i \in DOMAIN cache[s] : cache[s][i].addr = a})

Returns(op, ok, evicted) ==
    last' = [op |-> op, ok |-> ok, evicted |-> evicted]

(***************************************************************************)
(* The client's pointers.  bc_get hands out a pointer into the block's     *)
(* buffer.  Unless HoldAcross, a client is done with its earlier buffers   *)
(* by the time it asks for another block, as ext2.c is.                    *)
(***************************************************************************)
GivenUp == IF HoldAcross THEN buffer ELSE [s \in Store |-> [a \in Addr |-> "none"]]

CheckedOut(s, a) == buffer' = [GivenUp EXCEPT ![s][a] = "valid"]

Freed(s, a) ==
    buffer' = [GivenUp EXCEPT ![s][a] = IF @ = "valid" THEN "dangling" ELSE @]

(***************************************************************************)
(* st_wr: a successful write leaves the data on the disk; a failed one may *)
(* or may not have reached it (the drive can report an error after the     *)
(* words were transferred).                                                *)
(***************************************************************************)
MayHold(failed) ==
    {[s \in Store |->
        IF s \in reached THEN [disk[s] EXCEPT ![Head(cache[s]).addr] = Head(cache[s]).data]
                         ELSE disk[s]] : reached \in SUBSET failed}

-----------------------------------------------------------------------------
\* bc_get finds the block cached.
BcGetHit(s, a) ==
    /\ Cached(s, a)
    /\ CheckedOut(s, a)
    /\ Returns("get", TRUE, FALSE)
    /\ UNCHANGED <<cache, bc_cached_count, disk, truth, spoilt>>

\* bc_get cannot allocate the entry or its buffer: nothing is kept.
BcGetNoMemory(s, a) ==
    /\ ~ Cached(s, a)
    /\ bc_cached_count # MAX_CACHED_BLOCKS
    /\ buffer' = GivenUp
    /\ Returns("get", FALSE, FALSE)
    /\ UNCHANGED <<cache, bc_cached_count, disk, truth, spoilt>>

\* Faulty variant: the list is not searched.
BcGetReadAgain(s, a) ==
    /\ bc_cached_count # MAX_CACHED_BLOCKS
    /\ cache' = [cache EXCEPT ![s] = <<[addr |-> a, data |-> disk[s][a]]>> \o @]
    /\ bc_cached_count' = bc_cached_count + 1
    /\ CheckedOut(s, a)
    /\ Returns("get", TRUE, FALSE)
    /\ UNCHANGED <<disk, truth, spoilt>>

\* bc_get adds an entry at the head of the list and reads the sector into it.
BcGetRead(s, a) ==
    /\ ~ Cached(s, a)
    /\ bc_cached_count # MAX_CACHED_BLOCKS
    /\ cache' = [cache EXCEPT ![s] = <<[addr |-> a, data |-> disk[s][a]]>> \o @]
    /\ bc_cached_count' = bc_cached_count + 1
    /\ CheckedOut(s, a)
    /\ Returns("get", TRUE, FALSE)
    /\ UNCHANGED <<disk, truth, spoilt>>

\* The read fails: the entry stays in the list with whatever its freshly
\* allocated buffer holds, and bc_get reports failure.
BcGetReadFails(s, a) ==
    /\ ReadFails
    /\ ~ Cached(s, a)
    /\ bc_cached_count # MAX_CACHED_BLOCKS
    /\ \E junk \in Data :
          cache' = [cache EXCEPT ![s] = <<[addr |-> a, data |-> junk]>> \o @]
    /\ bc_cached_count' = bc_cached_count + 1
    /\ buffer' = GivenUp
    /\ Returns("get", FALSE, FALSE)
    /\ spoilt' = spoilt \cup {<<s, a>>}
    /\ UNCHANGED <<disk, truth>>

(***************************************************************************)
(* bc_get with the budget used up.  The stores are tried in order: the     *)
(* head block of a store is written back, and if the driver refuses, the   *)
(* next store is tried.  The first block saved is unlinked and its buffer  *)
(* freed.  Then, found or not, bc_get reports failure; the count stays.    *)
(***************************************************************************)
NonEmpty == {s \in Store : cache[s] # << >>}

\* Faulty variant: the victim is dropped, not written back.
BcGetEvictDrop(s, a) ==
    /\ ~ Cached(s, a)
    /\ bc_cached_count = MAX_CACHED_BLOCKS
    /\ \E victim \in NonEmpty :
          /\ cache' = [cache EXCEPT ![victim] = Tail(@)]
          /\ Freed(victim, Head(cache[victim]).addr)
    /\ Returns("get", FALSE, TRUE)
    /\ UNCHANGED <<bc_cached_count, disk, truth, spoilt>>

BcGetEvict(s, a) ==
    /\ ~ Cached(s, a)
    /\ bc_cached_count = MAX_CACHED_BLOCKS
    /\ \E victim \in NonEmpty :
          LET refused == {t \in NonEmpty : t < victim}
              blk     == Head(cache[victim])
          IN  /\ refused # {} => WriteFails
              /\ \E d \in MayHold(refused) :
                    disk' = [d EXCEPT ![victim][blk.addr] = blk.data]
              /\ cache' = [cache EXCEPT ![victim] = Tail(@)]
              /\ Freed(victim, blk.addr)
    /\ Returns("get", FALSE, TRUE)
    /\ UNCHANGED <<bc_cached_count, truth, spoilt>>

BcGetNoVictim(s, a) ==
    /\ ~ Cached(s, a)
    /\ bc_cached_count = MAX_CACHED_BLOCKS
    /\ NonEmpty # {} => WriteFails
    /\ disk' \in MayHold(NonEmpty)
    /\ buffer' = GivenUp
    /\ Returns("get", FALSE, FALSE)
    /\ UNCHANGED <<cache, bc_cached_count, truth, spoilt>>

\* Faulty variant: bc_put writes the first entry of the list, not the one asked for.
BcPutHead(s, a) ==
    /\ Cached(s, a)
    /\ disk' = [disk EXCEPT ![s][a] = Head(cache[s]).data]
    /\ Returns("put", TRUE, FALSE)
    /\ UNCHANGED <<cache, bc_cached_count, truth, buffer, spoilt>>

\* bc_put: a cached block is written back; a block that is not cached is a
\* success with nothing to do.
BcPut(s, a) ==
    /\ Cached(s, a)
    /\ disk' = [disk EXCEPT ![s][a] = cache[s][At(s, a)].data]
    /\ Returns("put", TRUE, FALSE)
    /\ UNCHANGED <<cache, bc_cached_count, truth, buffer, spoilt>>

BcPutFails(s, a) ==
    /\ WriteFails
    /\ Cached(s, a)
    /\ disk' \in {disk, [disk EXCEPT ![s][a] = cache[s][At(s, a)].data]}
    /\ Returns("put", FALSE, FALSE)
    /\ UNCHANGED <<cache, bc_cached_count, truth, buffer, spoilt>>

BcPutNothing(s, a) ==
    /\ ~ Cached(s, a)
    /\ Returns("put", TRUE, FALSE)
    /\ UNCHANGED <<cache, bc_cached_count, disk, truth, buffer, spoilt>>

\* An id outside the table (get_store_by_id gives NULL): bc_get returns 0 and
\* bc_put returns -1, which as a truth value is a success.
NoSuchStore ==
    /\ \E op \in {"get", "put"} : Returns(op, op = "put", FALSE)
    /\ UNCHANGED <<cache, bc_cached_count, disk, truth, buffer, spoilt>>

\* The client edits the bytes its pointer leads to.  Through a pointer whose
\* buffer was freed, the edit reaches no block.
Edit(s, a) ==
    /\ buffer[s][a] # "none"
    /\ \E x \in Data :
          /\ truth' = [truth EXCEPT ![s][a] = x]
          /\ cache' = IF buffer[s][a] = "valid"
                      THEN [cache EXCEPT ![s][At(s, a)].data = x]
                      ELSE cache
    /\ spoilt' = IF buffer[s][a] = "valid" THEN spoilt ELSE spoilt \cup {<<s, a>>}
    /\ Returns("edit", TRUE, FALSE)
    /\ UNCHANGED <<bc_cached_count, disk, buffer>>

BcGet(s, a) ==
    \/ BcGetHit(s, a)
    \/ BcGetNoMemory(s, a)
    \/ BcGetRead(s, a)
    \/ BcGetReadFails(s, a)
    \/ BcGetEvict(s, a)
    \/ BcGetNoVictim(s, a)

BcNext ==
    \/ NoSuchStore
    \/ \E s \in Store, a \in Addr :
          \/ BcGet(s, a)
          \/ BcPut(s, a)
          \/ BcPutFails(s, a)
          \/ BcPutNothing(s, a)
          \/ Edit(s, a)

BcSpec == BcInit /\ [][BcNext]_vars

-----------------------------------------------------------------------------
(***************************************************************************)
(* Type invariant of the store table, the disk and the clients' pointers.  *)
(* bc_get tests bc_cached_count for == only: it never passes the budget.   *)
(***************************************************************************)
BcTypeOK ==
    /\ cache \in [Store -> Seq(Entry)]
    /\ bc_cached_count \in 0 .. MAX_CACHED_BLOCKS
    /\ disk \in [Store -> [Addr -> Data]]
    /\ truth \in [Store -> [Addr -> Data]]
    /\ buffer \in [Store -> [Addr -> {"none", "valid", "dangling"}]]
    /\ spoilt \subseteq Store \X Addr
    /\ last \in [op : {"boot", "get", "put", "edit"}, ok : BOOLEAN, evicted : BOOLEAN]

(***************************************************************************)
(* A block is never cached twice (two buffers for one block would diverge, *)
(* and bc_put would save only the newer), and the entries of all stores    *)
(* together stay within bc_cached_count, the only thing bc_get compares    *)
(* with the budget, and that within the budget (with the other types).     *)
(***************************************************************************)
OneBufferPerBlock ==
    /\ BcTypeOK
    /\ \A s \in Store : \A i, j \in DOMAIN cache[s] :
          cache[s][i].addr = cache[s][j].addr => i = j
    /\ MapThenSumSet(LAMBDA s : Len(cache[s]), Store) <= bc_cached_count

\* The cache, or else the disk, holds what the clients last wrote to the block.
Intact(s, a) ==
    truth[s][a] = IF Cached(s, a) THEN cache[s][At(s, a)].data ELSE disk[s][a]

(***************************************************************************)
(* A cached block holds what its clients last wrote, and a block that is   *)
(* not cached has it on the disk, which is what lets bc_get evict a block  *)
(* that nobody has put.  The only blocks that can lose an edit are those   *)
(* that a failed read put in the cache and those edited through a pointer  *)
(* that an eviction has freed; failed writes, evictions and failed gets of *)
(* other blocks never harm a block.                                        *)
(***************************************************************************)
OnlySpoiltLost ==
    \A s \in Store, a \in Addr : <<s, a>> \notin spoilt => Intact(s, a)

(***************************************************************************)
(* A bc_put that reports success leaves the clients' contents of the block *)
(* on the disk, whether it wrote the block or found nothing to write back, *)
(* unless the block is spoilt.                                             *)
(***************************************************************************)
PutSaves ==
    [][\A s \in Store, a \in Addr :
          (BcPut(s, a) \/ BcPutNothing(s, a)) /\ <<s, a>> \notin spoilt
             => disk'[s][a] = truth[s][a]]_vars

==============================================================================
