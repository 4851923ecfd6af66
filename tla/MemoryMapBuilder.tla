-------------------------- MODULE MemoryMapBuilder --------------------------
(***************************************************************************)
(* The life of a MemoryMapBuilder (crates/polkavm-common/src/abi.rs):      *)
(* `new` with a page size, then setters in any order and any number, then  *)
(* `build`, which may be called again after further setters.  Module       *)
(* loading drives it with sizes taken from a program blob, so any u32 may  *)
(* arrive in any setter.  The map that build returns belongs to its        *)
(* caller: the model keeps it until the builder is changed.                *)
(***************************************************************************)
EXTENDS MemoryMap

CONSTANTS
    Sizes,        \* the sizes that setters are called with
    RequestedPageSizes \* the page sizes that new is called with

ASSUME BuilderAssumption == Sizes \subseteq U32 /\ RequestedPageSizes \subseteq U32

VARIABLES builder, map

vars == <<builder, map>>

NoMap == [built |-> FALSE]
Built(b) == [built |-> TRUE, layout |-> Layout(b)]

Init ==
    /\ \E p \in RequestedPageSizes :
          builder = [page_size |-> p, ro_data_size |-> 0, rw_data_size |-> 0,
                     stack_size |-> 0, aux_data_size |-> 0]
    /\ map = NoMap

RoDataSize(value) == builder' = [builder EXCEPT !.ro_data_size = value] /\ map' = NoMap
RwDataSize(value) == builder' = [builder EXCEPT !.rw_data_size = value] /\ map' = NoMap
StackSize(value) == builder' = [builder EXCEPT !.stack_size = value] /\ map' = NoMap
AuxDataSize(value) == builder' = [builder EXCEPT !.aux_data_size = value] /\ map' = NoMap

Build ==
    /\ map' = IF BuildFails(builder) THEN NoMap ELSE Built(builder)
    /\ UNCHANGED builder

Next ==
    \/ \E value \in Sizes : \/ RoDataSize(value)
                            \/ RwDataSize(value)
                            \/ StackSize(value)
                            \/ AuxDataSize(value)
    \/ Build

Spec == Init /\ [][Next]_vars

-----------------------------------------------------------------------------

MemoryMapType ==
    [page_size : U32, ro_data_size : U32, rw_data_address : U32, rw_data_size : U32,
     stack_address_high : U32, stack_size : U32, aux_data_address : U32,
     aux_data_size : U32, heap_base : U32, max_heap_size : U32]

(* The fields of the builder and of every map it has built are u32.        *)
TypeOK ==
    /\ builder \in Builder
    /\ map = NoMap \/ map \in [built : {TRUE}, layout : MemoryMapType]

Separated(m) ==
    /\ ro_data_end(m) + VM_MAX_PAGE_SIZE <= m.rw_data_address
    /\ m.rw_data_address <= m.heap_base
    /\ m.heap_base <= rw_data_end(m)
    /\ rw_data_end(m) + VM_MAX_PAGE_SIZE <= stack_address_low(m)
    /\ m.heap_base + m.max_heap_size + VM_MAX_PAGE_SIZE <= stack_address_low(m)
    /\ m.stack_address_high + VM_MAX_PAGE_SIZE <= m.aux_data_address
    /\ aux_data_end(m) <= VM_ADDRESS_SPACE_TOP

Boundaries(m) ==
    {ro_data_address(m), ro_data_end(m), m.rw_data_address, rw_data_end(m),
     m.heap_base + m.max_heap_size, stack_address_low(m), m.stack_address_high,
     m.aux_data_address, aux_data_end(m)}

(* A map that build returns keeps the regions of the guest apart: from the *)
(* bottom up, read-only data, read-write data with the heap, the stack and *)
(* the aux data, with at least VM_MAX_PAGE_SIZE unmapped bytes below, in   *)
(* between and above, even when the heap has grown to max_heap_size.  The  *)
(* sandboxes mmap the regions with MAP_FIXED and grow the heap in place,   *)
(* so an overlap would make one region silently replace another.  No field *)
(* was truncated by its cast to u32.                                       *)
RegionsSeparated == map.built => Separated(map.layout)

(* Every region of a built map starts and ends on a page boundary, and so  *)
(* does the largest heap: syscall_sbrk rounds the new top of the heap up   *)
(* to a page and maps that much, which must not reach past the end of the  *)
(* heap.                                                                   *)
RegionsPageAligned ==
    map.built => \A a \in Boundaries(map.layout) : a % map.layout.page_size = 0

(* For a legal page size build fails exactly when the four regions, each   *)
(* rounded up to VM_MAX_PAGE_SIZE, and the five guards do not fit: the     *)
(* earlier "is too big" returns never refuse a program that fits.          *)
BuildIsTight ==
    builder.page_size \in PageSizes =>
      (~ BuildFails(builder) <=>
         Space(builder.ro_data_size) + Space(builder.rw_data_size)
           + Space(builder.stack_size) + Space(builder.aux_data_size)
           + 5 * VM_MAX_PAGE_SIZE <= ADDRESS_SPACE_SIZE)
=============================================================================
