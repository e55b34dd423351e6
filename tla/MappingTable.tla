----------------------------- MODULE MappingTable -----------------------------
(***************************************************************************)
(* MappingStore implements NameTable: the answers are those of             *)
(* HostToVirtualName and VirtualToHostName, and the only name a restart    *)
(* may bring back is the one that servicesMapper.Migrate is dropping.      *)
(***************************************************************************)
EXTENDS MappingStore

Table == INSTANCE NameTable WITH
    hostOf <- [o \in VirtualObjects |-> VirtualToHostName(store, o)],
    virtualOf <- [o \in HostObjects |-> HostToVirtualName(store, o)],
    pending <- IF stage = "drop" THEN {fixing} ELSE {}

\* To its callers the store is a one-to-one table: whatever callers, migration,
\* repair, garbage collection, failed writes and restarts do, no step gives a
\* name that is in use to another object, and a restart invents no name
\* (AddReference, DeleteMapping, start).
ImplementsNameTable == Table!Spec
=============================================================================
