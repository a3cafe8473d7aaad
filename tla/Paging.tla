-------------------------------- MODULE Paging --------------------------------
(***************************************************************************)
(* Page tables: arch/x64/memory/virt.c, the heap mapping of memory/init.c  *)
(* and new_blank_user_pml4 of thread/process.c, over the frame pool that   *)
(* pfalloc_one draws from.                                                 *)
(*                                                                         *)
(* Physical and virtual addresses are page numbers, a table has Fanout     *)
(* entries (512 on the machine), and an entry is a frame with a set of     *)
(* flags.  map_page_4k takes one step per level.  All of this runs at      *)
(* boot, one call at a time; KPANIC halts.                                 *)
(***************************************************************************)
EXTENDS FramePool, FiniteSets, Sequences, SequencesExt

CONSTANTS Fanout,      \* entries in a table
          Wrap,        \* pages that an unsigned int can address (2^20)
          MaxFrame,    \* last page of physical memory
          KernelRoot,  \* frame of the boot loader's top table
          BootTables,  \* contents of the boot loader's tables
          Leftovers,   \* what a frame that nobody cleared may hold
          Regions,     \* memory map: sequence of [base, len, reserved]
          HHDM,        \* first page of the direct map
          PageSize,    \* bytes in a page, for the bounds of the image's parts
          Image,       \* kernel image: [virt, phys, parts], parts with byte offsets
          TempPage, HeapPage,
          Pid,
          MaxClient,   \* bound: frames that the heap and callers of vmap hold
          MaxMaps,     \* bound: calls of vmap and tmpmap
          VmapPages,   \* pages that callers of vmap map
          VmapFlags,   \* flag sets that callers of vmap pass
          Watched      \* pages that the properties look at

Memory == 0 .. MaxFrame
Page == 0 .. Fanout ^ 4 - 1
Flag == {"PRESENT", "WRITABLE", "USER", "PAGESIZE"}
Entry == [ptr : Memory, flags : SUBSET Flag]
Zeroed == [i \in 0 .. Fanout - 1 |-> [ptr |-> 0, flags |-> {}]]

ASSUME PagingAssumption ==
  /\ Fanout \in Nat \ {0} /\ Wrap \in Nat \ {0} /\ MaxFrame \in Nat
  /\ Frame # {} /\ Frame \subseteq 1 .. MaxFrame
  /\ KernelRoot \in DOMAIN BootTables /\ DOMAIN BootTables \subseteq Memory \ Frame
  /\ Leftovers \subseteq [0 .. Fanout - 1 -> Entry]
  /\ {HHDM, TempPage, HeapPage} \cup VmapPages \subseteq Page

SUCCESS == 0
EGENERIC == -1
EINVARG == -2
EIMPL == -3
ENOMAP == -4
ENOMEM == -5

VARIABLES mem,      \* contents of the frames, read as tables
          call,     \* map_page_4k in progress: [root, virt, phys, flags, level, table]
          ret,      \* return value of the last call, 0 while one runs
          job,      \* who waits for it: [kind, root, left]
          cr3,      \* top table of each process, 0 if the slot is not present
          tlb,      \* translations of kernel pages that the CPU has cached
          halted,   \* KPANIC or a fault
          client,   \* history: frames that callers of vmap hold
          asked,    \* history: the last request granted for <<root, page>>
          blank,    \* history: no top table started with entries left over
          maps      \* number of calls of vmap and tmpmap so far

pagingVars == <<mem, call, ret, job, cr3, tlb, halted, client, asked, blank, maps>>
vars == <<poolVars, pagingVars>>

NoCall == [level |-> 0]
NoJob == [kind |-> "none", root |-> 0, left |-> <<>>]
Ready == ~halted /\ call = NoCall
Idle == Ready /\ job = NoJob

(* EXTRACT_PMLn_INDEX.                                                     *)
Index(virt, level) == (virt \div Fanout ^ (level - 1)) % Fanout

Present(e) == "PRESENT" \in e.flags
Large(e) == "PAGESIZE" \in e.flags

-----------------------------------------------------------------------------
(* The walk of the CPU: the entry that decides, with the flags that all    *)
(* levels grant, or NoPage.                                                *)
NoPage == [ptr |-> 0, flags |-> {}]

Walk(m, root, virt) ==
  LET w[level \in 1 .. 4] ==
        LET up == IF level = 4
                  THEN [ptr |-> root, flags |-> Flag, stop |-> FALSE]
                  ELSE w[level + 1]
            e == m[up.ptr][Index(virt, level)]
        IN IF up.stop THEN up
           ELSE IF ~Present(e) THEN [ptr |-> 0, flags |-> {}, stop |-> TRUE]
           ELSE IF Large(e) /\ level \in {2, 3}
                THEN [ptr |-> e.ptr + (virt % Fanout ^ (level - 1)),
                      flags |-> up.flags \cap e.flags, stop |-> TRUE]
                ELSE [ptr |-> e.ptr, flags |-> up.flags \cap (e.flags \cup {"PAGESIZE"}),
                      stop |-> FALSE]
  IN [ptr |-> w[1].ptr, flags |-> w[1].flags \ {"PAGESIZE"}]

lookup_no_large(root, virt) ==   \* faulty variant: large pages are taken for tables
  LET e3 == mem[mem[root][Index(virt, 4)].ptr][Index(virt, 3)]
      e2 == mem[e3.ptr][Index(virt, 2)]
      e1 == mem[e2.ptr][Index(virt, 1)]
  IN IF \E e \in {mem[root][Index(virt, 4)], e3, e2, e1} : ~Present(e)
     THEN [ret |-> ENOMAP, phys |-> 0]
     ELSE [ret |-> SUCCESS, phys |-> e1.ptr % Wrap]

(* The page start and the offset are unsigned ints: both are cut, and so   *)
(* is their sum.                                                           *)
map_lookup(root, virt) ==
  LET e4 == mem[root][Index(virt, 4)]
      e3 == mem[e4.ptr][Index(virt, 3)]
      e2 == mem[e3.ptr][Index(virt, 2)]
      e1 == mem[e2.ptr][Index(virt, 1)]
      found(e, size) == [ret |-> SUCCESS, phys |-> ((e.ptr % Wrap) + (virt % size)) % Wrap]
      none == [ret |-> ENOMAP, phys |-> 0]
  IN CASE ~Present(e4) -> none
       [] Present(e4) /\ ~Present(e3) -> none
       [] Present(e4) /\ Present(e3) /\ Large(e3) -> found(e3, Fanout ^ 2)
       [] OTHER -> IF ~Present(e2) THEN none
                   ELSE IF Large(e2) THEN found(e2, Fanout)
                   ELSE IF ~Present(e1) THEN none ELSE found(e1, 1)

(* api.c: NULL for a slot that is not present and for an unmapped page.    *)
vget_mapping(pid, virt) == IF cr3[pid] = 0 THEN 0 ELSE map_lookup(cr3[pid], virt).phys

-----------------------------------------------------------------------------
(* map_page_4k *)

Request(root, virt, phys, flags) ==
  [root |-> root, virt |-> virt, phys |-> phys, flags |-> flags,
   level |-> 4, table |-> root]

Slot == Index(call.virt, call.level)
Current == mem[call.table][Slot]

(* A level whose entry is present: the new page's flags are added to it.   *)
FollowKeepsFlags ==   \* faulty variant: an entry keeps the flags it was made with
  /\ ~halted /\ call.level \in 2 .. 4
  /\ Present(Current) /\ ~(call.level < 4 /\ Large(Current))
  /\ call' = [call EXCEPT !.level = @ - 1, !.table = Current.ptr]
  /\ UNCHANGED <<poolVars, mem, ret, job, cr3, tlb, halted, client, asked, blank, maps>>

Follow ==
  /\ ~halted /\ call.level \in 2 .. 4
  /\ Present(Current) /\ ~(call.level < 4 /\ Large(Current))
  /\ mem' = [mem EXCEPT ![call.table][Slot].flags = @ \cup call.flags \cup {"PRESENT"}]
  /\ call' = [call EXCEPT !.level = @ - 1, !.table = Current.ptr]
  /\ UNCHANGED <<poolVars, ret, job, cr3, tlb, halted, client, asked, blank, maps>>

(* A level with no table yet gets a cleared frame.                         *)
NewTableNotCleared ==   \* faulty variant: zero_paging_table is forgotten
  \E s \in free :
    /\ ~halted /\ call.level \in 2 .. 4
    /\ ~Present(Current) /\ ~(call.level < 4 /\ Large(Current))
    /\ Grant(1, s)
    /\ \E junk \in Leftovers :
         mem' = [mem EXCEPT ![s] = junk,
                   ![call.table][Slot] = [ptr |-> s, flags |-> call.flags \cup {"PRESENT"}]]
    /\ call' = [call EXCEPT !.level = @ - 1, !.table = s]
    /\ UNCHANGED <<ret, job, cr3, tlb, halted, client, asked, blank, maps>>

NewTable ==
  \E s \in free :
    /\ ~halted /\ call.level \in 2 .. 4
    /\ ~Present(Current) /\ ~(call.level < 4 /\ Large(Current))
    /\ Grant(1, s)
    /\ mem' = [mem EXCEPT ![s] = Zeroed,
                 ![call.table][Slot] = [ptr |-> s, flags |-> call.flags \cup {"PRESENT"}]]
    /\ call' = [call EXCEPT !.level = @ - 1, !.table = s]
    /\ UNCHANGED <<ret, job, cr3, tlb, halted, client, asked, blank, maps>>

(* No frame for a table: the tables made so far stay.                      *)
NoTable ==
  /\ ~halted /\ call.level \in 2 .. 4
  /\ ~Present(Current) /\ ~(call.level < 4 /\ Large(Current))
  /\ Refuse(1)
  /\ ret' = ENOMEM /\ call' = NoCall
  /\ UNCHANGED <<mem, job, cr3, tlb, halted, client, asked, blank, maps>>

(* The page lies in a large page; the entries above have new flags.        *)
InLargePage ==
  /\ ~halted /\ call.level \in 2 .. 3 /\ Large(Current)
  /\ ret' = EGENERIC /\ call' = NoCall
  /\ UNCHANGED <<poolVars, mem, job, cr3, tlb, halted, client, asked, blank, maps>>

Granted ==
  LET old == asked
      key == <<call.root, call.virt>>
  IN [k \in DOMAIN old \cup {key} |->
        IF k = key THEN [ptr |-> call.phys, flags |-> call.flags] ELSE old[k]]

StoreNoFlush ==   \* faulty variant: invlpg is forgotten
  /\ ~halted /\ call.level = 1
  /\ mem' = [mem EXCEPT ![call.table][Slot] = [ptr |-> call.phys, flags |-> call.flags]]
  /\ asked' = Granted
  /\ ret' = SUCCESS /\ call' = NoCall
  /\ UNCHANGED <<poolVars, job, cr3, tlb, halted, client, blank, maps>>

(* The page's own entry is overwritten, and invlpg drops the cached one.   *)
Store ==
  /\ ~halted /\ call.level = 1
  /\ mem' = [mem EXCEPT ![call.table][Slot] = [ptr |-> call.phys, flags |-> call.flags]]
  /\ tlb' = {t \in tlb : t.virt # call.virt}
  /\ asked' = Granted
  /\ ret' = SUCCESS /\ call' = NoCall
  /\ UNCHANGED <<poolVars, job, cr3, halted, client, blank, maps>>

map_page_4k == Follow \/ NewTable \/ NoTable \/ InLargePage \/ Store

-----------------------------------------------------------------------------
(* Callers of map_page_4k *)

BootMem == [f \in Memory |-> IF f \in DOMAIN BootTables THEN BootTables[f] ELSE Zeroed]

(* Limine has made the kernel's tables, the frame list is ready.           *)
Init ==
  /\ free = Frame /\ held = {} /\ result = [n |-> 0, ret |-> 0]
  /\ mem = BootMem /\ call = NoCall /\ ret = SUCCESS
  /\ job = [NoJob EXCEPT !.kind = "boot"]
  /\ cr3 = [p \in Pid |-> 0]
  /\ tlb = {} /\ halted = FALSE
  /\ client = {} /\ asked = << >> /\ blank = TRUE /\ maps = 0

KernelData == {"PRESENT", "WRITABLE"}

(* memory_initialise maps the heap's only page, and panics if it cannot.   *)
MapHeap ==
  /\ Ready /\ job.kind = "boot"
  /\ \E s \in free :
       /\ Grant(1, s)
       /\ call' = Request(KernelRoot, HeapPage, s, KernelData)
       /\ client' = {s}
  /\ job' = [job EXCEPT !.kind = "heap"]
  /\ UNCHANGED <<mem, ret, cr3, tlb, halted, asked, blank, maps>>

HeapMapped ==
  /\ Ready /\ job.kind = "heap"
  /\ halted' = (ret < 0)
  /\ job' = NoJob
  /\ UNCHANGED <<poolVars, mem, call, ret, cr3, tlb, client, asked, blank, maps>>

(* PSE_XD is bit 63 and the flags parameter of map_page_4k an unsigned     *)
(* int: a mapping without VMAP_EXEC is executable all the same.            *)
MappingFlags(flags) ==
  {"PRESENT"} \cup (IF "USER" \in flags THEN {"USER"} ELSE {})
              \cup (IF "WRIT" \in flags THEN {"WRITABLE"} ELSE {})

(* Frames come in ascending order.  Bound: callers map the one they took   *)
(* last, or in the scratch page also the heap's.                           *)
HeapFrame == Walk(mem, KernelRoot, HeapPage).ptr
Newest == {f \in client : \A g \in client : g <= f}

RootTable(pid) == IF pid = -1 THEN KernelRoot ELSE cr3[pid]

Vmap(pid, pa, va, flags) ==
  /\ Idle /\ maps < MaxMaps
  /\ RootTable(pid) # 0 /\ "4K" \in flags
  /\ call' = Request(RootTable(pid), va, pa, MappingFlags(flags))
  /\ ret' = SUCCESS /\ maps' = maps + 1
  /\ UNCHANGED <<poolVars, mem, job, cr3, tlb, halted, client, asked, blank>>

VmapRefused(pid, flags) ==
  /\ Idle
  /\ RootTable(pid) = 0 \/ "4K" \notin flags
  /\ ret' = IF RootTable(pid) = 0 THEN EINVARG ELSE EIMPL
  /\ UNCHANGED <<poolVars, mem, call, job, cr3, tlb, halted, client, asked, blank, maps>>

Tmpmap(pa) ==
  /\ Idle /\ maps < MaxMaps
  /\ call' = Request(KernelRoot, TempPage, pa, KernelData)
  /\ ret' = SUCCESS /\ maps' = maps + 1
  /\ UNCHANGED <<poolVars, mem, job, cr3, tlb, halted, client, asked, blank>>

(* The kernel copies through the scratch page: the CPU caches its entry.   *)
TouchTempPage ==
  /\ Idle
  /\ LET e == Walk(mem, KernelRoot, TempPage)
     IN Present(e) /\ tlb' = tlb \cup {[virt |-> TempPage, entry |-> e]}
  /\ UNCHANGED <<poolVars, mem, call, ret, job, cr3, halted, client, asked, blank, maps>>

(* A caller takes a frame that it will map.                                *)
GetFrame ==
  /\ Idle /\ Cardinality(client) < MaxClient
  /\ \/ \E s \in free : Grant(1, s) /\ client' = client \cup {s}
     \/ Refuse(1) /\ UNCHANGED client
  /\ UNCHANGED <<mem, call, ret, job, cr3, tlb, halted, asked, blank, maps>>

-----------------------------------------------------------------------------
(* create_process for a user process: new_blank_user_pml4 *)

Mapping(virt, phys, flags) == [virt |-> virt, phys |-> phys, flags |-> flags]

(* Last entry first.  The base is added to the physical address only.      *)
RegionMappings ==
  FlattenSeq([k \in DOMAIN Regions |->
    LET ent == Regions[Len(Regions) + 1 - k]
    IN IF ent.reserved THEN <<>>
       ELSE [o \in 1 .. ent.len |-> Mapping(HHDM + o - 1, ent.base + o - 1, KernelData)]])

PartMappings(part, end) ==
  LET steps == (end - part.from + PageSize - 1) \div PageSize
  IN [o \in 1 .. steps |->
        LET page == (part.from + (o - 1) * PageSize) \div PageSize
        IN Mapping(Image.virt + page, Image.phys + page, part.flags)]

ImageMappingsExact ==   \* faulty variant: the loops stop at the end of a part
  FlattenSeq([k \in DOMAIN Image.parts |->
    PartMappings(Image.parts[k], Image.parts[k].to)])

(* Parts start where the one before ended, in the middle of a page: each   *)
(* loop goes on for one page more.                                         *)
ImageMappings ==
  FlattenSeq([k \in DOMAIN Image.parts |->
    PartMappings(Image.parts[k], Image.parts[k].to + PageSize)])

(* The new top table is not cleared.                                       *)
CreateProcess ==
  /\ Idle /\ \E p \in Pid : cr3[p] = 0
  /\ \E s \in free, junk \in Leftovers :
       /\ Grant(1, s)
       /\ mem' = [mem EXCEPT ![s] = junk]
       /\ blank' = (blank /\ \A i \in DOMAIN junk : ~Present(junk[i]))
       /\ job' = [kind |-> "space", root |-> s, left |-> RegionMappings \o ImageMappings]
  /\ ret' = SUCCESS
  /\ UNCHANGED <<call, cr3, tlb, halted, client, asked, maps>>

(* No frame for it: the mappings go through NULL, which is not mapped.     *)
CreateNoFrame ==
  /\ Idle /\ \E p \in Pid : cr3[p] = 0
  /\ Refuse(1)
  /\ halted' = TRUE
  /\ UNCHANGED <<mem, call, ret, job, cr3, tlb, client, asked, blank, maps>>

CreateNoSlot ==
  /\ Idle /\ \A p \in Pid : cr3[p] # 0
  /\ ret' = -1
  /\ UNCHANGED <<poolVars, mem, call, job, cr3, tlb, halted, client, asked, blank, maps>>

NextMapping ==
  /\ Ready /\ job.kind = "space" /\ ret >= 0 /\ job.left # <<>>
  /\ LET m == Head(job.left) IN call' = Request(job.root, m.virt, m.phys, m.flags)
  /\ job' = [job EXCEPT !.left = Tail(@)]
  /\ UNCHANGED <<poolVars, mem, ret, cr3, tlb, halted, client, asked, blank, maps>>

MappingFailed ==
  /\ Ready /\ job.kind = "space" /\ ret < 0
  /\ halted' = TRUE
  /\ UNCHANGED <<poolVars, mem, call, ret, job, cr3, tlb, client, asked, blank, maps>>

(* The heap is found through the kernel's table; KPANIC if it is not.      *)
ShareHeap ==
  /\ Ready /\ job.kind = "space" /\ ret >= 0 /\ job.left = <<>>
  /\ LET kheap == map_lookup(KernelRoot, HeapPage)
     IN IF kheap.ret < 0 THEN halted' = TRUE /\ UNCHANGED <<call, job>>
        ELSE /\ call' = Request(job.root, HeapPage, kheap.phys, KernelData)
             /\ job' = [job EXCEPT !.kind = "last"]
             /\ UNCHANGED halted
  /\ UNCHANGED <<poolVars, mem, ret, cr3, tlb, client, asked, blank, maps>>

(* Nobody looks at the result of that mapping.                             *)
Created ==
  /\ Ready /\ job.kind = "last"
  /\ \E p \in Pid :
       /\ cr3[p] = 0 /\ \A q \in Pid : q < p => cr3[q] # 0
       /\ cr3' = [cr3 EXCEPT ![p] = job.root]
       /\ ret' = p
  /\ job' = NoJob
  /\ UNCHANGED <<poolVars, mem, call, tlb, halted, client, asked, blank, maps>>

Halted == halted /\ UNCHANGED vars

Next ==
  \/ map_page_4k
  \/ MapHeap \/ HeapMapped
  \/ \E pid \in Pid \cup {-1}, flags \in VmapFlags :
       \/ VmapRefused(pid, flags)
       \/ \E pa \in Newest \ {HeapFrame}, va \in VmapPages : Vmap(pid, pa, va, flags)
  \/ \E pa \in client \cap (Newest \cup {HeapFrame}) : Tmpmap(pa)
  \/ TouchTempPage \/ GetFrame
  \/ CreateProcess \/ CreateNoFrame \/ CreateNoSlot
  \/ NextMapping \/ MappingFailed \/ ShareHeap \/ Created
  \/ Halted

Spec == Init /\ [][Next]_vars

-----------------------------------------------------------------------------
(* Properties *)

Roots == {KernelRoot} \cup {cr3[p] : p \in {q \in Pid : cr3[q] # 0}}
           \cup (IF job.kind \in {"space", "last"} THEN {job.root} ELSE {})

(* Every pointer of a table and of a walk is a frame of the machine, flags *)
(* are those of the hardware, and NULL is no top table.                    *)
PgTypeOK ==
  /\ mem \in [Memory -> [0 .. Fanout - 1 -> Entry]]
  /\ call = NoCall \/ call.table \in Memory \ {0}
  /\ free \subseteq Frame /\ held \subseteq Frame /\ client \subseteq held
  /\ ret \in ENOMEM .. 0 \cup Pid
  /\ \A p \in Pid : cr3[p] \in held \cup {0}

Expected(root, virt) ==
  IF <<root, virt>> \in DOMAIN asked THEN asked[<<root, virt>>]
  ELSE IF root = KernelRoot THEN Walk(BootMem, root, virt) ELSE NoPage

(* At every step of every call the CPU translates each page of each        *)
(* address space as last granted for that page (frame and permissions),    *)
(* and every other page as at the start: map_page_4k changes nothing but   *)
(* its page, only when it succeeds, and the flags it adds to the upper     *)
(* entries give no other page more rights.                                 *)
MapExact ==
  blank => \A root \in Roots, virt \in Watched :
             Walk(mem, root, virt) = Expected(root, virt)

Links(tables) ==
  {l \in tables \X (0 .. Fanout - 1) :
     Present(mem[l[1]][l[2]]) /\ ~Large(mem[l[1]][l[2]])}
Below(tables) == {mem[l[1]][l[2]].ptr : l \in Links(tables)}

(* The tables form one tree per address space, with no table in two        *)
(* places, none that a client holds, and none lost: the frames taken from  *)
(* the pool are those of clients and of tables that can be reached, after  *)
(* an ENOMEM half-way too.  (And memory and calls keep their types.)       *)
TablesExact ==
  /\ PgTypeOK
  /\ blank =>
    LET l3 == Below(Roots)
        l2 == Below(l3)
        l1 == Below(l2)
        below == l3 \cup l2 \cup l1
    IN /\ Cardinality(Links(Roots) \cup Links(l3) \cup Links(l2)) = Cardinality(below)
       /\ below \cap Roots = {} /\ client \cap (Roots \cup below) = {}
       /\ held = client \cup ((Roots \cup below) \ DOMAIN BootTables)

(* map_lookup succeeds exactly where the CPU finds a page of 4K, 2M or 1G, *)
(* and gives the frame that the CPU finds; so does vget_mapping, and what  *)
(* it gives for a page that is not mapped is no frame a client could have. *)
(* (The frames beyond what an unsigned int can address are left out: their *)
(* addresses are cut.)                                                     *)
LookupExact ==
  /\ \A root \in Roots, virt \in Watched :
       LET e == Walk(mem, root, virt)
           got == map_lookup(root, virt)
       IN /\ got.ret >= 0 <=> Present(e)
          /\ Present(e) /\ e.ptr < Wrap => got.phys = e.ptr
  /\ \A pid \in {p \in Pid : cr3[p] # 0}, virt \in VmapPages :
       LET e == Walk(mem, cr3[pid], virt)
       IN IF Present(e) THEN e.ptr < Wrap => vget_mapping(pid, virt) = e.ptr
          ELSE vget_mapping(pid, virt) \notin Frame

(* No translation that the CPU has cached outlives its table entry.        *)
TlbFresh == \A t \in tlb : t.entry = Walk(mem, KernelRoot, t.virt)

ImagePages == {Image.virt + off \div PageSize :
                 off \in 0 .. Image.parts[Len(Image.parts)].to - 1}

(* Until somebody remaps them, the pages of the kernel image and of the    *)
(* heap are the same frames in a new process as in the kernel, writable if *)
(* they are there: interrupts and system calls run on the process's table. *)
KernelShared ==
  \A p \in Pid : cr3[p] # 0 /\ blank =>
    \A virt \in ImagePages \cup {HeapPage} :
      LET kernel == Walk(mem, KernelRoot, virt)
          user == Walk(mem, cr3[p], virt)
      IN user.ptr = kernel.ptr /\ kernel.flags \subseteq user.flags
=============================================================================
