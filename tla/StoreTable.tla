----------------------------- MODULE StoreTable -----------------------------
(***************************************************************************)
(* The registration of stores (generic/store.c): a driver registers its    *)
(* type under a name, and a store is registered by the name of its type    *)
(* and a configuration string, which the type's init reads.  Names are     *)
(* compared with the kernel's strncmp.                                     *)
(***************************************************************************)
EXTENDS Strings

CONSTANTS
    MAX_STORETYPES,
    MAX_STORES,
    TypeNames,      \* the names of the drivers that may register
    Names,          \* the type names register_store may be given
    Configs         \* the configurations, [primary, master]

VARIABLES
    store_types,    \* [0 .. MAX_STORETYPES - 1 -> name], << >> in a free slot
    stores,         \* [0 .. MAX_STORES - 1 -> [type, drive, primary]], type -1 if free
    broken          \* init of an empty type was called: a jump to address 0

tableVars == <<store_types, stores, broken>>

TypeId == 0 .. MAX_STORETYPES - 1
StoreId == 0 .. MAX_STORES - 1
NameLen == 8

NoStore == [type |-> -1, drive |-> 0, primary |-> TRUE]

TableInit ==
    /\ store_types = [t \in TypeId |-> << >>]
    /\ stores = [s \in StoreId |-> NoStore]
    /\ broken = FALSE

\* The strncmp of the kernel stops at the end of the shorter name: a name that
\* begins another is found for it, and a free slot, with the empty name, for any.
find_storetype(name) ==
    LET found == {t \in TypeId : strncmp(name, store_types[t], NameLen) = 0}
    IN  IF found = {} THEN -1 ELSE Min(found)

register_storetype(name) ==
    LET free == {t \in TypeId : store_types[t] = << >>}
    IN  /\ ~broken
        /\ free # {}
        /\ store_types' = [store_types EXCEPT ![Min(free)] = name]
        /\ UNCHANGED <<stores, broken>>

\* st_init and ata_init_device: the configuration decides the bus and the drive.
ata_init_device(cfg) == [primary |-> cfg.primary, drive |-> IF cfg.master THEN 0 ELSE 1]

register_store(name, cfg) ==
    LET free == {s \in StoreId : stores[s].type = -1}
        stid == find_storetype(name)
    IN  /\ ~broken
        /\ free # {}
        /\ stid >= 0
        /\ LET dev == ata_init_device(cfg) IN
           stores' = [stores EXCEPT ![Min(free)] =
                        [type |-> stid, drive |-> dev.drive, primary |-> dev.primary]]
        /\ broken' = (store_types[stid] = << >>)
        /\ UNCHANGED store_types

\* Calls that find no free slot or no type return -1 and change nothing.
TableNext ==
    \/ \E n \in TypeNames : register_storetype(n)
    \/ \E n \in Names, c \in Configs : register_store(n, c)
=============================================================================
