--------------------------- MODULE BufferCacheProofs ---------------------------
(***************************************************************************)
(* The cache loses no edit, for any stores, blocks, contents and budget:   *)
(* only a block that was spoilt can differ from what its clients wrote.    *)
(***************************************************************************)
EXTENDS BufferCache, SequenceTheorems, TLAPS

Answers == [op : {"boot", "get", "put", "edit"}, ok : BOOLEAN, evicted : BOOLEAN]
Pointers == [Store -> [Addr -> {"none", "valid", "dangling"}]]

USE DEF Entry, Answers, Pointers

\* No block has two entries in its list, and a pointer that is not freed leads
\* into an entry.
OneEntry ==
    \A s \in Store : \A i, j \in 1 .. Len(cache[s]) :
        cache[s][i].addr = cache[s][j].addr => i = j

ValidIsCached ==
    \A s \in Store, a \in Addr : buffer[s][a] = "valid" => Cached(s, a)

\* Every entry of a block has its contents, or without one the disk has.
Kept(s, a) ==
    /\ \A i \in 1 .. Len(cache[s]) : cache[s][i].addr = a => cache[s][i].data = truth[s][a]
    /\ ~ Cached(s, a) => disk[s][a] = truth[s][a]

AllKept == \A s \in Store, a \in Addr : <<s, a>> \notin spoilt => Kept(s, a)

CacheInv == BcTypeOK /\ OneEntry /\ ValidIsCached /\ AllKept

-----------------------------------------------------------------------------
\* The blocks of the list are the addresses of its entries.
LEMMA CachedIs ==
    ASSUME BcTypeOK, NEW s \in Store, NEW a
    PROVE  /\ Cached(s, a) <=> \E i \in 1 .. Len(cache[s]) : cache[s][i].addr = a
           /\ cache[s] \in Seq(Entry) /\ Len(cache[s]) \in Nat
           /\ DOMAIN cache[s] = 1 .. Len(cache[s])
<1>1. cache[s] \in Seq(Entry)
  BY DEF BcTypeOK
<1>2. Len(cache[s]) \in Nat /\ DOMAIN cache[s] = 1 .. Len(cache[s])
  BY <1>1, LenProperties
<1> QED
  BY <1>1, <1>2 DEF Cached

\* The loops of bc_get and bc_put stop at the one entry of the block.
LEMMA AtIs ==
    ASSUME BcTypeOK, OneEntry, NEW s \in Store, NEW a, Cached(s, a)
    PROVE  At(s, a) \in 1 .. Len(cache[s]) /\ cache[s][At(s, a)].addr = a
<1>1. PICK i \in 1 .. Len(cache[s]) : cache[s][i].addr = a
  BY CachedIs
<1>2. {j \in DOMAIN cache[s] : cache[s][j].addr = a} = {i}
  <2>1. DOMAIN cache[s] = 1 .. Len(cache[s])
    BY CachedIs
  <2>2. \A j \in 1 .. Len(cache[s]) : cache[s][j].addr = a <=> j = i
    BY <1>1 DEF OneEntry
  <2> QED
    BY <2>1, <2>2
<1>3. At(s, a) = i
  BY <1>1, <1>2, CachedIs DEF At, Min
<1> QED
  BY <1>1, <1>3

\* Kept says of each entry what Intact says of the entry bc_get would find.
LEMMA KeptIsIntact ==
    ASSUME BcTypeOK, OneEntry, NEW s \in Store, NEW a \in Addr, Kept(s, a)
    PROVE  Intact(s, a)
<1>1. CASE Cached(s, a)
  BY <1>1, AtIs DEF Kept, Intact
<1>2. CASE ~ Cached(s, a)
  BY <1>2 DEF Kept, Intact
<1> QED
  BY <1>1, <1>2

\* The invariant holds of the empty lists.
LEMMA CacheInitInv == BcInit => CacheInv
<1> SUFFICES ASSUME BcInit PROVE CacheInv
  OBVIOUS
<1>1. BcTypeOK
  BY EmptySeq, BufferCacheAssumption DEF BcInit, BcTypeOK, Data
<1>2. \A s \in Store : Len(cache[s]) = 0 /\ \A a \in Addr : ~ Cached(s, a)
  BY <1>1, CachedIs DEF BcInit
<1> QED
  BY <1>1, <1>2 DEF BcInit, CacheInv, OneEntry, ValidIsCached, AllKept, Kept

-----------------------------------------------------------------------------
(* The steps that leave the lists alone. *)

\* A client that calls again gives up its pointers, and gets no other.
LEMMA GivenUpType ==
    ASSUME BcTypeOK
    PROVE  /\ GivenUp \in Pointers
           /\ \A s \in Store, a \in Addr : GivenUp[s][a] \in {buffer[s][a], "none"}
  BY DEF BcTypeOK, GivenUp

\* A new pointer, into a block that is cached.
LEMMA CheckedOutIs ==
    ASSUME BcTypeOK, NEW s \in Store, NEW a \in Addr, CheckedOut(s, a)
    PROVE  /\ buffer' \in Pointers
           /\ \A t \in Store, b \in Addr :
                buffer'[t][b] = "valid" => <<t, b>> = <<s, a>> \/ buffer[t][b] = "valid"
<1>1. buffer' = [GivenUp EXCEPT ![s] = [GivenUp[s] EXCEPT ![a] = "valid"]]
  BY DEF CheckedOut
<1>2. [GivenUp[s] EXCEPT ![a] = "valid"] \in [Addr -> {"none", "valid", "dangling"}]
  BY GivenUpType
<1>3. buffer' \in Pointers
  BY <1>1, <1>2, GivenUpType
<1>4. ASSUME NEW t \in Store, NEW b \in Addr, buffer'[t][b] = "valid", <<t, b>> # <<s, a>>
      PROVE  buffer[t][b] = "valid"
  <2>1. buffer'[t][b] = GivenUp[t][b]
    BY <1>1, <1>4, GivenUpType
  <2> QED
    BY <1>4, <2>1, GivenUpType
<1> QED
  BY <1>3, <1>4

\* Only the pointers and the answer change.
LEMMA NothingKeptInv ==
    ASSUME CacheInv, UNCHANGED <<cache, disk, truth, spoilt>>,
           bc_cached_count' \in 0 .. MAX_CACHED_BLOCKS,
           last' \in Answers,
           buffer' \in Pointers,
           \A s \in Store, a \in Addr : buffer'[s][a] = "valid" => Cached(s, a)
    PROVE  CacheInv'
<1>1. BcTypeOK'
  BY DEF CacheInv, BcTypeOK
<1>2. \A s, a : Cached(s, a)' <=> Cached(s, a)
  BY DEF Cached
<1> QED
  BY <1>1, <1>2 DEF CacheInv, OneEntry, ValidIsCached, AllKept, Kept

\* bc_get finds the block in the list.
LEMMA HitInv == ASSUME CacheInv, NEW s \in Store, NEW a \in Addr, BcGetHit(s, a) PROVE CacheInv'
<1>1. BcTypeOK /\ Cached(s, a) /\ CheckedOut(s, a)
      /\ UNCHANGED <<cache, bc_cached_count, disk, truth, spoilt>>
  BY DEF CacheInv, BcGetHit
<1>2. \A t \in Store, b \in Addr : buffer'[t][b] = "valid" => Cached(t, b)
  BY <1>1, CheckedOutIs DEF CacheInv, ValidIsCached
<1>3. last' \in Answers
  BY DEF BcGetHit, Returns
<1>4. bc_cached_count' \in 0 .. MAX_CACHED_BLOCKS
  BY <1>1 DEF BcTypeOK
<1> QED
  BY <1>1, <1>2, <1>3, <1>4, CheckedOutIs, NothingKeptInv

\* bc_get gets no memory for a new entry.
LEMMA NoMemoryInv == ASSUME CacheInv, NEW s \in Store, NEW a \in Addr, BcGetNoMemory(s, a) PROVE CacheInv'
<1>1. BcTypeOK /\ buffer' = GivenUp /\ UNCHANGED <<cache, bc_cached_count, disk, truth, spoilt>>
  BY DEF CacheInv, BcGetNoMemory
<1>2. \A t \in Store, b \in Addr : buffer'[t][b] = "valid" => Cached(t, b)
  BY <1>1, GivenUpType DEF CacheInv, ValidIsCached
<1>3. last' \in Answers
  BY DEF BcGetNoMemory, Returns
<1>4. bc_cached_count' \in 0 .. MAX_CACHED_BLOCKS
  BY <1>1 DEF BcTypeOK
<1> QED
  BY <1>1, <1>2, <1>3, <1>4, GivenUpType, NothingKeptInv

\* bc_put of a block that is not in the list.
LEMMA PutNothingInv == ASSUME CacheInv, NEW s \in Store, NEW a \in Addr, BcPutNothing(s, a) PROVE CacheInv'
  BY NothingKeptInv DEF CacheInv, BcTypeOK, ValidIsCached, BcPutNothing, Returns

\* bc_get or bc_put of a store that is not registered.
LEMMA NoSuchStoreInv == ASSUME CacheInv, NoSuchStore PROVE CacheInv'
<1>1. last' \in Answers
  <2>1. PICK op \in {"get", "put"} : Returns(op, op = "put", FALSE)
    BY DEF NoSuchStore
  <2>2. (op = "put") \in BOOLEAN
    OBVIOUS
  <2> QED
    BY <2>1, <2>2 DEF Returns
<1> QED
  BY <1>1, NothingKeptInv DEF CacheInv, BcTypeOK, ValidIsCached, NoSuchStore

-----------------------------------------------------------------------------
(* Writing back: the data of an entry go to its block on the disk. *)

\* The disk may get the data of cached entries, and nothing else.
WritesBack ==
    /\ disk' \in [Store -> [Addr -> Data]]
    /\ \A s \in Store, a \in Addr :
        \/ disk'[s][a] = disk[s][a]
        \/ \E i \in 1 .. Len(cache[s]) : cache[s][i].addr = a /\ disk'[s][a] = cache[s][i].data

\* A disk may get the contents of an entry of its list; the lists stay.
LEMMA WriteBackInv ==
    ASSUME CacheInv, WritesBack, UNCHANGED <<cache, bc_cached_count, truth, spoilt>>,
           last' \in Answers,
           buffer' \in Pointers,
           \A s \in Store, a \in Addr : buffer'[s][a] = "valid" => buffer[s][a] = "valid"
    PROVE  CacheInv'
<1>1. BcTypeOK'
  BY DEF CacheInv, BcTypeOK, WritesBack
<1>2. \A s, a : Cached(s, a)' <=> Cached(s, a)
  BY DEF Cached
<1>3. OneEntry' /\ ValidIsCached'
  BY <1>2 DEF CacheInv, OneEntry, ValidIsCached
<1>4. ASSUME NEW s \in Store, NEW a \in Addr, <<s, a>> \notin spoilt PROVE Kept(s, a)'
  <2>1. Kept(s, a)
    BY <1>4 DEF CacheInv, AllKept
  <2>2. ~ Cached(s, a) => disk'[s][a] = disk[s][a]
    <3>1. BcTypeOK
      BY DEF CacheInv
    <3>2. Cached(s, a) <=> \E i \in 1 .. Len(cache[s]) : cache[s][i].addr = a
      BY <3>1, CachedIs
    <3> QED
      BY <3>2 DEF WritesBack
  <2> QED
    BY <1>2, <2>1, <2>2 DEF Kept
<1> QED
  BY <1>1, <1>3, <1>4 DEF CacheInv, AllKept

\* One block of one store changes.
LEMMA OneBlock ==
    ASSUME NEW d \in [Store -> [Addr -> Data]], NEW s \in Store, NEW a \in Addr, NEW x \in Data
    PROVE  /\ [d EXCEPT ![s][a] = x] \in [Store -> [Addr -> Data]]
           /\ \A t \in Store, b \in Addr :
                [d EXCEPT ![s][a] = x][t][b] = IF t = s /\ b = a THEN x ELSE d[t][b]
<1>1. [d[s] EXCEPT ![a] = x] \in [Addr -> Data]
  OBVIOUS
<1> QED
  BY <1>1

\* bc_put of a cached block, saved or not.
LEMMA PutInv ==
    ASSUME CacheInv, NEW s \in Store, NEW a \in Addr, BcPut(s, a) \/ BcPutFails(s, a)
    PROVE  CacheInv'
<1>1. /\ BcTypeOK /\ OneEntry /\ Cached(s, a)
      /\ UNCHANGED <<cache, bc_cached_count, truth, buffer, spoilt>>
      /\ disk' \in {disk, [disk EXCEPT ![s][a] = cache[s][At(s, a)].data]}
  BY DEF CacheInv, BcPut, BcPutFails
<1>2. At(s, a) \in 1 .. Len(cache[s]) /\ cache[s][At(s, a)].addr = a /\ cache[s][At(s, a)].data \in Data
  <2>1. At(s, a) \in 1 .. Len(cache[s]) /\ cache[s][At(s, a)].addr = a
    BY <1>1, AtIs
  <2>2. cache[s][At(s, a)] \in Entry
    BY <1>1, <2>1, CachedIs, ElementOfSeq
  <2> QED
    BY <2>1, <2>2
<1>3. WritesBack
  <2>1. CASE disk' = disk
    BY <1>1, <2>1 DEF BcTypeOK, WritesBack
  <2>2. CASE disk' = [disk EXCEPT ![s][a] = cache[s][At(s, a)].data]
    <3>1. /\ disk' \in [Store -> [Addr -> Data]]
          /\ \A t \in Store, b \in Addr :
                disk'[t][b] = IF t = s /\ b = a THEN cache[s][At(s, a)].data ELSE disk[t][b]
      BY <1>1, <1>2, <2>2, OneBlock DEF BcTypeOK
    <3> QED
      BY <1>2, <3>1 DEF WritesBack
  <2> QED
    BY <1>1, <2>1, <2>2
<1>4. last' \in Answers
  <2>1. CASE BcPut(s, a)
    BY <2>1 DEF BcPut, Returns
  <2>2. CASE BcPutFails(s, a)
    BY <2>2 DEF BcPutFails, Returns
  <2> QED
    BY <2>1, <2>2
<1>5. buffer' \in Pointers /\ buffer' = buffer
  BY <1>1 DEF BcTypeOK
<1> QED
  BY <1>1, <1>3, <1>4, <1>5, WriteBackInv

\* The stores in failed may have got the data of their first entry.
LEMMA MayHoldIs ==
    ASSUME BcTypeOK, NEW failed \in SUBSET NonEmpty, NEW d \in MayHold(failed)
    PROVE  /\ d \in [Store -> [Addr -> Data]]
           /\ \A s \in Store, a \in Addr :
                \/ d[s][a] = disk[s][a]
                \/ 1 \in 1 .. Len(cache[s]) /\ cache[s][1].addr = a /\ d[s][a] = cache[s][1].data
<1>1. PICK reached \in SUBSET failed :
        d = [s \in Store |->
              IF s \in reached THEN [disk[s] EXCEPT ![Head(cache[s]).addr] = Head(cache[s]).data]
                               ELSE disk[s]]
  BY DEF MayHold
<1>2. ASSUME NEW s \in reached
      PROVE  /\ s \in Store /\ 1 \in 1 .. Len(cache[s]) /\ Head(cache[s]) = cache[s][1]
             /\ cache[s][1].addr \in Addr /\ cache[s][1].data \in Data
  <2>0. s \in NonEmpty
    OBVIOUS
  <2>1. s \in Store /\ cache[s] # << >> /\ cache[s] \in Seq(Entry)
    BY <2>0 DEF NonEmpty, BcTypeOK
  <2>2. Len(cache[s]) \in Nat \ {0}
    BY <2>1, EmptySeq
  <2>3. 1 \in 1 .. Len(cache[s])
    BY <2>2
  <2>4. cache[s][1] \in Entry
    BY <2>1, <2>3, ElementOfSeq
  <2> QED
    BY <2>1, <2>3, <2>4
<1>3. \A s \in Store : disk[s] \in [Addr -> Data]
  BY DEF BcTypeOK
<1>4. ASSUME NEW s \in Store
      PROVE  /\ d[s] \in [Addr -> Data]
             /\ \A a \in Addr :
                 \/ d[s][a] = disk[s][a]
                 \/ 1 \in 1 .. Len(cache[s]) /\ cache[s][1].addr = a /\ d[s][a] = cache[s][1].data
  <2>1. CASE s \in reached
    <3>1. d[s] = [disk[s] EXCEPT ![cache[s][1].addr] = cache[s][1].data]
      BY <1>1, <1>2, <2>1
    <3> QED
      BY <1>2, <1>3, <2>1, <3>1
  <2>2. CASE s \notin reached
    <3>1. d[s] = disk[s]
      BY <1>1, <2>2
    <3> QED
      BY <1>3, <3>1
  <2> QED
    BY <2>1, <2>2
<1> QED
  BY <1>1, <1>4

\* bc_get frees no entry: no write succeeded.
LEMMA NoVictimInv == ASSUME CacheInv, NEW s \in Store, NEW a \in Addr, BcGetNoVictim(s, a) PROVE CacheInv'
<1>1. /\ BcTypeOK /\ disk' \in MayHold(NonEmpty) /\ buffer' = GivenUp
      /\ UNCHANGED <<cache, bc_cached_count, truth, spoilt>>
  BY DEF CacheInv, BcGetNoVictim
<1>2. WritesBack
  BY <1>1, MayHoldIs DEF WritesBack
<1>3. last' \in Answers
  BY DEF BcGetNoVictim, Returns
<1> QED
  BY <1>1, <1>2, <1>3, GivenUpType, WriteBackInv

-----------------------------------------------------------------------------
(* A new entry at the head of a list. *)

\* What a new entry at the head of a list keeps.
LEMMA PrependInv ==
    ASSUME CacheInv, NEW s \in Store, NEW a \in Addr, NEW x \in Data, ~ Cached(s, a),
           bc_cached_count # MAX_CACHED_BLOCKS,
           cache' = [cache EXCEPT ![s] = <<[addr |-> a, data |-> x]>> \o @],
           bc_cached_count' = bc_cached_count + 1,
           UNCHANGED <<disk, truth>>, last' \in Answers, buffer' \in Pointers,
           \A t \in Store, b \in Addr :
                buffer'[t][b] = "valid" => <<t, b>> = <<s, a>> \/ buffer[t][b] = "valid",
           spoilt' \in {spoilt, spoilt \cup {<<s, a>>}},
           <<s, a>> \notin spoilt' => x = disk[s][a]
    PROVE  CacheInv'
<1> DEFINE e == [addr |-> a, data |-> x]
           old == cache[s]
           new == <<e>> \o old
<1>1. BcTypeOK /\ old \in Seq(Entry) /\ Len(old) \in Nat /\ e \in Entry
  BY CachedIs DEF CacheInv
<1>2. /\ new \in Seq(Entry) /\ Len(new) = Len(old) + 1 /\ new[1] = e
      /\ \A i \in 2 .. Len(new) : i - 1 \in 1 .. Len(old) /\ new[i] = old[i - 1]
      /\ \A i \in 1 .. Len(old) : i + 1 \in 2 .. Len(new) /\ new[i + 1] = old[i]
  BY <1>1
<1>3. /\ cache' \in [Store -> Seq(Entry)] /\ cache'[s] = new
      /\ \A t \in Store : t # s => cache'[t] = cache[t]
  BY <1>1, <1>2 DEF BcTypeOK
<1> HIDE DEF new, old
<1>4. BcTypeOK'
  <2>1. bc_cached_count' \in 0 .. MAX_CACHED_BLOCKS
    BY <1>1, BufferCacheAssumption DEF BcTypeOK
  <2>2. spoilt \subseteq Store \X Addr /\ <<s, a>> \in Store \X Addr
    BY <1>1 DEF BcTypeOK
  <2>3. spoilt' \subseteq Store \X Addr
    BY <2>2
  <2>4. disk' \in [Store -> [Addr -> Data]] /\ truth' \in [Store -> [Addr -> Data]]
    BY <1>1 DEF BcTypeOK
  <2> QED
    BY <1>3, <2>1, <2>3, <2>4 DEF BcTypeOK
<1>5. \A i \in 1 .. Len(old) : old[i].addr # a
  BY <1>1, CachedIs DEF old
<1>6. OneEntry'
  <2>1. ASSUME NEW i \in 1 .. Len(new), NEW j \in 1 .. Len(new), new[i].addr = new[j].addr PROVE i = j
    <3>1. \A k, l \in 1 .. Len(old) : old[k].addr = old[l].addr => k = l
      BY DEF CacheInv, OneEntry, old
    <3>2. \A k \in 1 .. Len(new) : k = 1 \/ k \in 2 .. Len(new)
      BY <1>1, <1>2
    <3>3. CASE i = 1 /\ j \in 2 .. Len(new)
      BY <1>2, <1>5, <2>1, <3>3
    <3>4. CASE j = 1 /\ i \in 2 .. Len(new)
      BY <1>2, <1>5, <2>1, <3>4
    <3>5. CASE i \in 2 .. Len(new) /\ j \in 2 .. Len(new)
      <4>1. /\ i - 1 \in 1 .. Len(old) /\ new[i] = old[i - 1]
            /\ j - 1 \in 1 .. Len(old) /\ new[j] = old[j - 1]
        BY <1>2, <3>5
      <4>2. i - 1 = j - 1
        BY <2>1, <3>1, <4>1
      <4> QED
        BY <1>1, <1>2, <4>2
    <3> QED
      BY <3>2, <3>3, <3>4, <3>5
  <2> QED
    BY <1>3, <2>1 DEF CacheInv, OneEntry
<1>7. \A t \in Store, b \in Addr : Cached(t, b)' <=> Cached(t, b) \/ <<t, b>> = <<s, a>>
  <2> TAKE t \in Store, b \in Addr
  <2>1. Cached(t, b)' <=> \E i \in 1 .. Len(cache'[t]) : cache'[t][i].addr = b
    <3>1. cache'[t] \in Seq(Entry)
      BY <1>3
    <3>2. DOMAIN cache'[t] = 1 .. Len(cache'[t])
      BY <3>1, LenProperties
    <3> QED
      BY <3>2 DEF Cached
  <2>2. Cached(t, b) <=> \E i \in 1 .. Len(cache[t]) : cache[t][i].addr = b
    BY <1>1, CachedIs
  <2>3. CASE t # s
    BY <1>3, <2>1, <2>2, <2>3
  <2>4. CASE t = s
    <3>1. 1 \in 1 .. Len(new) /\ new[1].addr = a
      BY <1>1, <1>2
    <3>2. \A k \in 1 .. Len(new) : k = 1 \/ k \in 2 .. Len(new)
      BY <1>1, <1>2
    <3>3. \A k \in 2 .. Len(new) : k \in 1 .. Len(new)
      BY <1>1, <1>2
    <3>4. Cached(s, b)' <=> \E i \in 1 .. Len(new) : new[i].addr = b
      BY <1>3, <2>1, <2>4
    <3>5. Cached(s, b) <=> \E i \in 1 .. Len(old) : old[i].addr = b
      BY <2>2, <2>4 DEF old
    <3>6. ASSUME Cached(s, b)' PROVE Cached(s, b) \/ b = a
      <4>1. PICK i \in 1 .. Len(new) : new[i].addr = b
        BY <3>4, <3>6
      <4> QED
        BY <1>2, <3>1, <3>2, <3>5, <4>1
    <3>7. ASSUME Cached(s, b) PROVE Cached(s, b)'
      <4>1. PICK i \in 1 .. Len(old) : old[i].addr = b
        BY <3>5, <3>7
      <4> QED
        BY <1>2, <3>3, <3>4, <4>1
    <3> QED
      BY <2>4, <3>1, <3>4, <3>6, <3>7
  <2> QED
    BY <2>3, <2>4
<1>8. ValidIsCached'
  BY <1>7 DEF CacheInv, ValidIsCached
<1>9. ASSUME NEW t \in Store, NEW b \in Addr, <<t, b>> \notin spoilt' PROVE Kept(t, b)'
  <2>1. Kept(t, b)
    BY <1>9 DEF CacheInv, AllKept
  <2>2. CASE t # s
    BY <1>3, <1>7, <2>1, <2>2 DEF Kept
  <2>3. CASE t = s
    <3>1. ASSUME NEW i \in 1 .. Len(new), new[i].addr = b PROVE new[i].data = truth[s][b]
      <4>1. CASE i = 1
        <5>1. b = a /\ new[i].data = x
          BY <1>2, <3>1, <4>1
        <5>2. x = disk[s][a] /\ disk[s][a] = truth[s][a]
          BY <1>9, <2>1, <2>3, <5>1 DEF Kept
        <5> QED
          BY <5>1, <5>2
      <4>2. CASE i # 1
        <5>1. i \in 2 .. Len(new)
          BY <1>1, <1>2, <4>2
        <5>2. i - 1 \in 1 .. Len(old) /\ new[i] = old[i - 1]
          BY <1>2, <5>1
        <5>3. \A k \in 1 .. Len(old) : old[k].addr = b => old[k].data = truth[s][b]
          BY <2>1, <2>3 DEF Kept, old
        <5> QED
          BY <3>1, <5>2, <5>3
      <4> QED
        BY <4>1, <4>2
    <3> QED
      BY <1>3, <1>7, <2>1, <2>3, <3>1 DEF Kept
  <2> QED
    BY <2>2, <2>3
<1> QED
  BY <1>4, <1>6, <1>8, <1>9 DEF CacheInv, AllKept

\* bc_get reads the block into a new entry.
LEMMA ReadInv == ASSUME CacheInv, NEW s \in Store, NEW a \in Addr, BcGetRead(s, a) PROVE CacheInv'
<1>0. BcTypeOK /\ disk[s][a] \in Data
  <2>1. BcTypeOK
    BY DEF CacheInv
  <2>2. disk \in [Store -> [Addr -> Data]]
    BY <2>1 DEF BcTypeOK
  <2> QED
    BY <2>1, <2>2
<1>1. /\ CheckedOut(s, a) /\ ~ Cached(s, a)
      /\ bc_cached_count # MAX_CACHED_BLOCKS /\ bc_cached_count' = bc_cached_count + 1
      /\ cache' = [cache EXCEPT ![s] = <<[addr |-> a, data |-> disk[s][a]]>> \o @]
      /\ UNCHANGED <<disk, truth, spoilt>>
  BY DEF BcGetRead
<1>2. last' \in Answers
  BY DEF BcGetRead, Returns
<1>3. /\ buffer' \in Pointers
      /\ \A t \in Store, b \in Addr :
            buffer'[t][b] = "valid" => <<t, b>> = <<s, a>> \/ buffer[t][b] = "valid"
  BY <1>0, <1>1, CheckedOutIs
<1> QED
  BY <1>0, <1>1, <1>2, <1>3, PrependInv

\* bc_get links the new entry although the read failed.
LEMMA ReadFailsInv == ASSUME CacheInv, NEW s \in Store, NEW a \in Addr, BcGetReadFails(s, a) PROVE CacheInv'
<1>1. PICK junk \in Data : cache' = [cache EXCEPT ![s] = <<[addr |-> a, data |-> junk]>> \o @]
  BY DEF BcGetReadFails
<1>2. /\ BcTypeOK /\ buffer' = GivenUp /\ ~ Cached(s, a)
      /\ bc_cached_count # MAX_CACHED_BLOCKS /\ bc_cached_count' = bc_cached_count + 1
      /\ spoilt' = spoilt \cup {<<s, a>>} /\ UNCHANGED <<disk, truth>>
  BY DEF CacheInv, BcGetReadFails
<1>3. last' \in Answers
  BY DEF BcGetReadFails, Returns
<1>4. buffer' \in Pointers /\ \A t \in Store, b \in Addr : buffer'[t][b] = "valid" => buffer[t][b] = "valid"
  BY <1>2, GivenUpType
<1> QED
  BY <1>1, <1>2, <1>3, <1>4, PrependInv

-----------------------------------------------------------------------------
(* An eviction: the first entry of a list is saved, unlinked and freed. *)

\* Freeing an entry: no valid pointer leads to its block any more.
LEMMA FreedIs ==
    ASSUME BcTypeOK, NEW s \in Store, NEW a \in Addr, Freed(s, a)
    PROVE  /\ buffer' \in Pointers
           /\ \A t \in Store, b \in Addr :
                buffer'[t][b] = "valid" => <<t, b>> # <<s, a>> /\ buffer[t][b] = "valid"
<1> DEFINE y == IF GivenUp[s][a] = "valid" THEN "dangling" ELSE GivenUp[s][a]
<1>1. buffer' = [GivenUp EXCEPT ![s] = [GivenUp[s] EXCEPT ![a] = y]]
  BY DEF Freed
<1>2. y \in {"none", "dangling"}
  BY GivenUpType
<1> HIDE DEF y
<1>3. [GivenUp[s] EXCEPT ![a] = y] \in [Addr -> {"none", "valid", "dangling"}]
  BY <1>2, GivenUpType
<1>4. buffer' \in Pointers
  BY <1>1, <1>3, GivenUpType
<1>5. ASSUME NEW t \in Store, NEW b \in Addr, buffer'[t][b] = "valid"
      PROVE  <<t, b>> # <<s, a>> /\ buffer[t][b] = "valid"
  <2>1. buffer'[t][b] = IF t = s /\ b = a THEN y ELSE GivenUp[t][b]
    BY <1>1, <1>3, GivenUpType
  <2> QED
    BY <1>2, <1>5, <2>1, GivenUpType
<1> QED
  BY <1>4, <1>5

\* bc_get at the limit: an entry is saved and freed, and the call fails.
LEMMA EvictInv == ASSUME CacheInv, NEW s \in Store, NEW a \in Addr, BcGetEvict(s, a) PROVE CacheInv'
<1>1. PICK v \in NonEmpty :
        /\ \E d \in MayHold({t \in NonEmpty : t < v}) :
                disk' = [d EXCEPT ![v][Head(cache[v]).addr] = Head(cache[v]).data]
        /\ cache' = [cache EXCEPT ![v] = Tail(@)]
        /\ Freed(v, Head(cache[v]).addr)
  BY DEF BcGetEvict
<1> DEFINE old == cache[v]
           new == Tail(old)
           e == old[1]
<1>2. /\ BcTypeOK /\ v \in Store /\ old \in Seq(Entry) /\ old # << >> /\ Len(old) \in Nat \ {0}
      /\ Head(old) = e /\ e \in Entry
  <2>1. BcTypeOK /\ v \in Store /\ old \in Seq(Entry) /\ old # << >>
    BY DEF CacheInv, BcTypeOK, NonEmpty
  <2>2. Len(old) \in Nat \ {0}
    BY <2>1, EmptySeq
  <2>3. 1 \in 1 .. Len(old)
    BY <2>2
  <2>4. e \in Entry
    BY <2>1, <2>3, ElementOfSeq
  <2> QED
    BY <2>1, <2>2, <2>4
<1>3. PICK d \in MayHold({t \in NonEmpty : t < v}) : disk' = [d EXCEPT ![v][e.addr] = e.data]
  BY <1>1, <1>2
<1>4. /\ new \in Seq(Entry) /\ Len(new) = Len(old) - 1
      /\ \A i \in 1 .. Len(new) : i + 1 \in 2 .. Len(old) /\ i + 1 \in 1 .. Len(old) /\ new[i] = old[i + 1]
      /\ \A i \in 2 .. Len(old) : i - 1 \in 1 .. Len(new) /\ new[i - 1] = old[i]
  <2>1. /\ new \in Seq(Entry) /\ Len(new) = Len(old) - 1
        /\ \A i \in 1 .. Len(new) : new[i] = old[i + 1]
    BY <1>2, HeadTailProperties
  <2>2. \A i \in 1 .. Len(new) : i + 1 \in 2 .. Len(old) /\ i + 1 \in 1 .. Len(old)
    BY <1>2, <2>1
  <2>3. \A i \in 2 .. Len(old) : i - 1 \in 1 .. Len(new) /\ (i - 1) + 1 = i
    BY <1>2, <2>1
  <2> QED
    BY <2>1, <2>2, <2>3
<1>5. /\ cache' \in [Store -> Seq(Entry)] /\ cache'[v] = new
      /\ \A t \in Store : t # v => cache'[t] = cache[t]
  BY <1>1, <1>2, <1>4 DEF BcTypeOK
<1>6. /\ disk' \in [Store -> [Addr -> Data]]
      /\ \A t \in Store, b \in Addr :
            disk'[t][b] = IF t = v /\ b = e.addr THEN e.data ELSE d[t][b]
      /\ \A t \in Store, b \in Addr : ~ Cached(t, b) => d[t][b] = disk[t][b]
  <2>1. {t \in NonEmpty : t < v} \in SUBSET NonEmpty
    OBVIOUS
  <2>2. /\ d \in [Store -> [Addr -> Data]]
        /\ \A t \in Store, b \in Addr :
                \/ d[t][b] = disk[t][b]
                \/ 1 \in 1 .. Len(cache[t]) /\ cache[t][1].addr = b /\ d[t][b] = cache[t][1].data
    BY <1>2, <2>1, MayHoldIs
  <2>3. e.addr \in Addr /\ e.data \in Data
    BY <1>2
  <2>4. \A t \in Store, b \in Addr : ~ Cached(t, b) => d[t][b] = disk[t][b]
    <3> TAKE t \in Store, b \in Addr
    <3>1. Cached(t, b) <=> \E i \in 1 .. Len(cache[t]) : cache[t][i].addr = b
      BY <1>2, CachedIs
    <3> QED
      BY <2>2, <3>1
  <2> HIDE DEF e
  <2> QED
    BY <1>2, <1>3, <2>2, <2>3, <2>4, OneBlock
<1>7. /\ UNCHANGED <<bc_cached_count, truth, spoilt>> /\ last' \in Answers
  BY DEF BcGetEvict, Returns
<1> HIDE DEF new, old, e
<1>8. BcTypeOK'
  <2>1. buffer' \in Pointers
    <3>1. Head(cache[v]) = e /\ e.addr \in Addr
      BY <1>2 DEF old
    <3> QED
      BY <1>1, <1>2, <3>1, FreedIs
  <2> QED
    BY <1>2, <1>5, <1>6, <1>7, <2>1 DEF BcTypeOK
<1>9. /\ \A i, j \in 1 .. Len(old) : old[i].addr = old[j].addr => i = j
      /\ 1 \in 1 .. Len(old) /\ old[1] = e
      /\ \A i \in 1 .. Len(old) : i = 1 \/ i \in 2 .. Len(old)
      /\ \A i \in 1 .. Len(new) : new[i].addr # e.addr
  <2>1. \A i, j \in 1 .. Len(old) : old[i].addr = old[j].addr => i = j
    BY <1>2 DEF CacheInv, OneEntry, old
  <2>2. 1 \in 1 .. Len(old) /\ old[1] = e /\ \A i \in 1 .. Len(old) : i = 1 \/ i \in 2 .. Len(old)
    BY <1>2 DEF e
  <2>3. ASSUME NEW i \in 1 .. Len(new) PROVE new[i].addr # e.addr
    <3>1. i + 1 \in 1 .. Len(old) /\ new[i] = old[i + 1] /\ i + 1 # 1
      BY <1>4
    <3> QED
      BY <2>1, <2>2, <3>1
  <2> QED
    BY <2>1, <2>2, <2>3
<1>10. OneEntry'
  <2>1. ASSUME NEW i \in 1 .. Len(new), NEW j \in 1 .. Len(new), new[i].addr = new[j].addr PROVE i = j
    <3>1. /\ i + 1 \in 1 .. Len(old) /\ new[i] = old[i + 1]
          /\ j + 1 \in 1 .. Len(old) /\ new[j] = old[j + 1]
      BY <1>4
    <3>2. i + 1 = j + 1
      BY <1>9, <2>1, <3>1
    <3> QED
      BY <3>2
  <2> QED
    BY <1>5, <2>1 DEF CacheInv, OneEntry
<1>11. \A t \in Store, b \in Addr : Cached(t, b)' <=> Cached(t, b) /\ <<t, b>> # <<v, e.addr>>
  <2> TAKE t \in Store, b \in Addr
  <2>1. Cached(t, b)' <=> \E i \in 1 .. Len(cache'[t]) : cache'[t][i].addr = b
    <3>1. cache'[t] \in Seq(Entry)
      BY <1>5
    <3>2. DOMAIN cache'[t] = 1 .. Len(cache'[t])
      BY <3>1, LenProperties
    <3> QED
      BY <3>2 DEF Cached
  <2>2. Cached(t, b) <=> \E i \in 1 .. Len(cache[t]) : cache[t][i].addr = b
    BY <1>2, CachedIs
  <2>3. CASE t # v
    BY <1>5, <2>1, <2>2, <2>3
  <2>4. CASE t = v
    <3>1. Cached(v, b)' <=> \E i \in 1 .. Len(new) : new[i].addr = b
      BY <1>5, <2>1, <2>4
    <3>2. Cached(v, b) <=> \E i \in 1 .. Len(old) : old[i].addr = b
      BY <2>2, <2>4 DEF old
    <3>3. ASSUME Cached(v, b)' PROVE Cached(v, b) /\ b # e.addr
      <4>1. PICK i \in 1 .. Len(new) : new[i].addr = b
        BY <3>1, <3>3
      <4> QED
        BY <1>4, <1>9, <3>2, <4>1
    <3>4. ASSUME Cached(v, b), b # e.addr PROVE Cached(v, b)'
      <4>1. PICK i \in 1 .. Len(old) : old[i].addr = b
        BY <3>2, <3>4
      <4>2. i \in 2 .. Len(old)
        BY <1>9, <3>4, <4>1
      <4> QED
        BY <1>4, <3>1, <4>1, <4>2
    <3> QED
      BY <2>4, <3>3, <3>4
  <2> QED
    BY <2>3, <2>4
<1>12. ValidIsCached'
  <2>1. Head(cache[v]) = e /\ e.addr \in Addr
    BY <1>2 DEF old
  <2>2. \A t \in Store, b \in Addr :
            buffer'[t][b] = "valid" => <<t, b>> # <<v, e.addr>> /\ buffer[t][b] = "valid"
    BY <1>1, <1>2, <2>1, FreedIs
  <2> QED
    BY <1>11, <2>2 DEF CacheInv, ValidIsCached
<1>13. ASSUME NEW t \in Store, NEW b \in Addr, <<t, b>> \notin spoilt PROVE Kept(t, b)'
  <2>1. Kept(t, b)
    BY <1>13 DEF CacheInv, AllKept
  <2>2. \A i \in 1 .. Len(cache'[t]) : cache'[t][i].addr = b => cache'[t][i].data = truth[t][b]
    <3>1. CASE t # v
      BY <1>5, <2>1, <3>1 DEF Kept
    <3>2. CASE t = v
      <4>1. \A i \in 1 .. Len(old) : old[i].addr = b => old[i].data = truth[v][b]
        BY <2>1, <3>2 DEF Kept, old
      <4>2. \A i \in 1 .. Len(new) : new[i].addr = b => new[i].data = truth[v][b]
        BY <1>4, <4>1
      <4> QED
        BY <1>5, <3>2, <4>2
    <3> QED
      BY <3>1, <3>2
  <2>3. ASSUME ~ Cached(t, b)' PROVE disk'[t][b] = truth[t][b]
    <3>1. CASE <<t, b>> = <<v, e.addr>>
      <4>1. e.data = truth[v][b]
        BY <1>9, <2>1, <3>1 DEF Kept, old
      <4> QED
        BY <1>6, <3>1, <4>1
    <3>2. CASE <<t, b>> # <<v, e.addr>>
      <4>1. ~ Cached(t, b)
        BY <1>11, <2>3, <3>2
      <4> QED
        BY <1>6, <2>1, <3>2, <4>1 DEF Kept
    <3> QED
      BY <3>1, <3>2
  <2> QED
    BY <1>7, <2>2, <2>3 DEF Kept
<1> QED
  BY <1>7, <1>8, <1>10, <1>12, <1>13 DEF CacheInv, AllKept

-----------------------------------------------------------------------------
(* The client's edit. *)

\* Through a freed pointer, the edit reaches no block, which is spoilt.
LEMMA EditDanglingInv ==
    ASSUME CacheInv, NEW s \in Store, NEW a \in Addr, Edit(s, a), buffer[s][a] # "valid"
    PROVE  CacheInv'
<1>1. PICK x \in Data : truth' = [truth EXCEPT ![s][a] = x]
  BY DEF Edit
<1>2. /\ UNCHANGED <<cache, bc_cached_count, disk, buffer>> /\ spoilt' = spoilt \cup {<<s, a>>}
      /\ BcTypeOK /\ last' \in Answers
  BY DEF Edit, CacheInv, Returns
<1>3. /\ truth' \in [Store -> [Addr -> Data]]
      /\ \A t \in Store, b \in Addr : <<t, b>> # <<s, a>> => truth'[t][b] = truth[t][b]
  <2>1. truth \in [Store -> [Addr -> Data]]
    BY <1>2 DEF BcTypeOK
  <2> QED
    BY <1>1, <2>1, OneBlock
<1>4. BcTypeOK'
  <2>1. spoilt' \subseteq Store \X Addr
    BY <1>2 DEF BcTypeOK
  <2> QED
    BY <1>2, <1>3, <2>1 DEF BcTypeOK
<1>5. \A t, b : Cached(t, b)' <=> Cached(t, b)
  BY <1>2 DEF Cached
<1>6. OneEntry' /\ ValidIsCached'
  BY <1>2, <1>5 DEF CacheInv, OneEntry, ValidIsCached
<1>7. ASSUME NEW t \in Store, NEW b \in Addr, <<t, b>> \notin spoilt' PROVE Kept(t, b)'
  <2>1. Kept(t, b) /\ truth'[t][b] = truth[t][b]
    BY <1>2, <1>3, <1>7 DEF CacheInv, AllKept
  <2> QED
    BY <1>2, <1>5, <2>1 DEF Kept
<1> QED
  BY <1>4, <1>6, <1>7 DEF CacheInv, AllKept

\* An edit through a pointer into the list.
LEMMA EditValidInv ==
    ASSUME CacheInv, NEW s \in Store, NEW a \in Addr, Edit(s, a), buffer[s][a] = "valid"
    PROVE  CacheInv'
<1> DEFINE old == cache[s]
           k == At(s, a)
<1>1. PICK x \in Data : truth' = [truth EXCEPT ![s][a] = x] /\ cache' = [cache EXCEPT ![s][k].data = x]
  BY DEF Edit
<1> DEFINE e == [old[k] EXCEPT !.data = x]
           new == [old EXCEPT ![k] = e]
<1>2. /\ BcTypeOK /\ OneEntry /\ UNCHANGED <<bc_cached_count, disk, buffer, spoilt>> /\ last' \in Answers
  BY DEF Edit, CacheInv, Returns
<1>3. /\ Cached(s, a) /\ old \in Seq(Entry) /\ Len(old) \in Nat
      /\ k \in 1 .. Len(old) /\ old[k].addr = a /\ old[k] \in Entry
  <2>1. Cached(s, a)
    BY DEF CacheInv, ValidIsCached
  <2>2. k \in 1 .. Len(old) /\ old[k].addr = a
    BY <1>2, <2>1, AtIs
  <2>3. old \in Seq(Entry) /\ Len(old) \in Nat
    BY <1>2, CachedIs
  <2> QED
    BY <2>1, <2>2, <2>3, ElementOfSeq
<1>4. cache' = [cache EXCEPT ![s] = new]
  BY <1>1
<1> HIDE DEF old, k
<1>5. e \in Entry /\ e.addr = a /\ e.data = x
  BY <1>3
<1> HIDE DEF e
<1>6. /\ new \in Seq(Entry) /\ Len(new) = Len(old)
      /\ \A i \in 1 .. Len(old) : new[i] = IF i = k THEN e ELSE old[i]
  BY <1>3, <1>5, ExceptSeq
<1> HIDE DEF new
<1>7. /\ cache' \in [Store -> Seq(Entry)] /\ cache'[s] = new
      /\ \A t \in Store : t # s => cache'[t] = cache[t]
  BY <1>2, <1>4, <1>6 DEF BcTypeOK
<1>8. /\ truth' \in [Store -> [Addr -> Data]]
      /\ \A t \in Store, b \in Addr :
            truth'[t][b] = IF t = s /\ b = a THEN x ELSE truth[t][b]
  <2>1. truth \in [Store -> [Addr -> Data]]
    BY <1>2 DEF BcTypeOK
  <2> QED
    BY <1>1, <2>1, OneBlock
<1>9. BcTypeOK'
  BY <1>2, <1>7, <1>8 DEF BcTypeOK
<1>10. \A i \in 1 .. Len(old) : new[i].addr = old[i].addr
  BY <1>3, <1>5, <1>6
<1>11. \A i, j \in 1 .. Len(old) : old[i].addr = old[j].addr => i = j
  BY <1>2 DEF OneEntry, old
<1>12. OneEntry'
  <2>1. \A i, j \in 1 .. Len(new) : new[i].addr = new[j].addr => i = j
    BY <1>6, <1>10, <1>11
  <2>2. \A t \in Store : cache'[t] = IF t = s THEN new ELSE cache[t]
    BY <1>7
  <2> QED
    BY <1>2, <2>1, <2>2 DEF OneEntry
<1>13. \A t \in Store, b \in Addr : Cached(t, b)' <=> Cached(t, b)
  <2> TAKE t \in Store, b \in Addr
  <2>1. Cached(t, b)' <=> \E i \in 1 .. Len(cache'[t]) : cache'[t][i].addr = b
    <3>1. cache'[t] \in Seq(Entry)
      BY <1>7
    <3>2. DOMAIN cache'[t] = 1 .. Len(cache'[t])
      BY <3>1, LenProperties
    <3> QED
      BY <3>2 DEF Cached
  <2>2. Cached(t, b) <=> \E i \in 1 .. Len(cache[t]) : cache[t][i].addr = b
    BY <1>2, CachedIs
  <2>3. CASE t # s
    BY <1>7, <2>1, <2>2, <2>3
  <2>4. CASE t = s
    BY <1>6, <1>7, <1>10, <2>1, <2>2, <2>4 DEF old
  <2> QED
    BY <2>3, <2>4
<1>14. ValidIsCached'
  BY <1>2, <1>13 DEF CacheInv, ValidIsCached
<1>15. ASSUME NEW t \in Store, NEW b \in Addr, <<t, b>> \notin spoilt PROVE Kept(t, b)'
  <2>1. Kept(t, b)
    BY <1>15 DEF CacheInv, AllKept
  <2>2. CASE t # s
    BY <1>2, <1>7, <1>8, <1>13, <2>1, <2>2 DEF Kept
  <2>3. CASE t = s
    <3>1. \A i \in 1 .. Len(old) : old[i].addr = b => old[i].data = truth[s][b]
      BY <2>1, <2>3 DEF Kept, old
    <3>2. ASSUME NEW i \in 1 .. Len(new), new[i].addr = b PROVE new[i].data = truth'[s][b]
      <4>1. CASE b = a
        <5>1. i = k
          BY <1>3, <1>6, <1>10, <1>11, <3>2, <4>1
        <5> QED
          BY <1>5, <1>6, <1>8, <3>2, <4>1, <5>1
      <4>2. CASE b # a
        <5>1. i # k /\ i \in 1 .. Len(old)
          BY <1>5, <1>6, <3>2, <4>2
        <5> QED
          BY <1>6, <1>8, <3>1, <3>2, <4>2, <5>1
      <4> QED
        BY <4>1, <4>2
    <3>3. ASSUME ~ Cached(s, b)' PROVE disk'[s][b] = truth'[s][b]
      <4>1. ~ Cached(s, b) /\ b # a
        BY <1>3, <1>13, <3>3
      <4> QED
        BY <1>2, <1>8, <2>1, <2>3, <4>1 DEF Kept
    <3> QED
      BY <1>7, <2>3, <3>2, <3>3 DEF Kept
  <2> QED
    BY <2>2, <2>3
<1> QED
  BY <1>2, <1>9, <1>12, <1>14, <1>15 DEF CacheInv, AllKept

\* Every step keeps the invariant.
LEMMA CacheNextInv == CacheInv /\ [BcNext]_vars => CacheInv'
<1> SUFFICES ASSUME CacheInv, [BcNext]_vars PROVE CacheInv'
  OBVIOUS
<1>1. CASE UNCHANGED vars
  BY <1>1, NothingKeptInv DEF vars, CacheInv, BcTypeOK, ValidIsCached
<1>2. ASSUME NEW s \in Store, NEW a \in Addr, BcGet(s, a) PROVE CacheInv'
  BY <1>2, HitInv, NoMemoryInv, ReadInv, ReadFailsInv, EvictInv, NoVictimInv DEF BcGet
<1>3. ASSUME NEW s \in Store, NEW a \in Addr, Edit(s, a) PROVE CacheInv'
  BY <1>3, EditDanglingInv, EditValidInv
<1> QED
  BY <1>1, <1>2, <1>3, PutInv, PutNothingInv, NoSuchStoreInv DEF BcNext

\* At every moment no list has two entries for a block, no client's pointer
\* leads into an entry that was freed without being marked so, and every block
\* that is not spoilt has its clients' contents (bc_get, bc_put).
THEOREM CacheInvariant == BcSpec => []CacheInv
  BY CacheInitInv, CacheNextInv, PTL DEF BcSpec

\* Only a failed read, or an edit through a pointer that an eviction freed, can
\* make a block lose an edit, whatever the budget and the failures of the
\* driver (bc_get, bc_put).
THEOREM NoEditLost == BcSpec => []OnlySpoiltLost
<1>1. CacheInv => OnlySpoiltLost
  BY KeptIsIntact DEF CacheInv, AllKept, OnlySpoiltLost
<1> QED
  BY <1>1, CacheInvariant, PTL

\* A bc_put that reports success has the block's contents on the disk, unless
\* the block is spoilt (bc_put).
THEOREM PutCorrect == BcSpec => PutSaves
<1>1. ASSUME CacheInv, [BcNext]_vars
      PROVE  [\A s \in Store, a \in Addr :
                (BcPut(s, a) \/ BcPutNothing(s, a)) /\ <<s, a>> \notin spoilt
                    => disk'[s][a] = truth[s][a]]_vars
  <2> SUFFICES ASSUME NEW s \in Store, NEW a \in Addr, <<s, a>> \notin spoilt,
                      BcPut(s, a) \/ BcPutNothing(s, a)
               PROVE  disk'[s][a] = truth[s][a]
    OBVIOUS
  <2>1. Kept(s, a) /\ BcTypeOK /\ OneEntry
    BY <1>1 DEF CacheInv, AllKept
  <2>2. CASE BcPutNothing(s, a)
    BY <2>1, <2>2 DEF BcPutNothing, Kept
  <2>3. CASE BcPut(s, a)
    <3>1. Cached(s, a) /\ disk' = [disk EXCEPT ![s][a] = cache[s][At(s, a)].data]
      BY <2>3 DEF BcPut
    <3>2. At(s, a) \in 1 .. Len(cache[s]) /\ cache[s][At(s, a)].addr = a
      BY <2>1, <3>1, AtIs
    <3>3. cache[s][At(s, a)].data = truth[s][a]
      BY <2>1, <3>2 DEF Kept
    <3>4. disk \in [Store -> [Addr -> Data]]
      BY <2>1 DEF BcTypeOK
    <3> QED
      BY <3>1, <3>3, <3>4
  <2> QED
    BY <2>2, <2>3
<1> QED
  BY <1>1, CacheInvariant, PTL DEF BcSpec, PutSaves
=============================================================================
