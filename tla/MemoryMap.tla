----------------------------- MODULE MemoryMap -----------------------------
(***************************************************************************)
(* The layout of a guest's address space: MemoryMapBuilder::build and the  *)
(* accessors of MemoryMap in crates/polkavm-common/src/abi.rs, with the    *)
(* page alignment of crates/polkavm-common/src/utils.rs.                   *)
(*                                                                         *)
(* The constants are the code's constants scaled down.  A u32 is a number  *)
(* below ADDRESS_SPACE_SIZE; a cast `as u32` is a remainder, so that a     *)
(* truncated address would show.  The sums that the code makes in u64 and  *)
(* i64 are integers here: they stay far below 2^63 because every operand   *)
(* is at most 2^32.                                                        *)
(***************************************************************************)
EXTENDS Integers

CONSTANTS ADDRESS_SPACE_SIZE, VM_MIN_PAGE_SIZE, VM_MAX_PAGE_SIZE

U32 == 0 .. ADDRESS_SPACE_SIZE - 1

is_power_of_two(n) == \E k \in 0 .. n : 2^k = n

PageSizes == {p \in VM_MIN_PAGE_SIZE .. VM_MAX_PAGE_SIZE : is_power_of_two(p)}

ASSUME MemoryMapAssumption ==
    /\ VM_MIN_PAGE_SIZE \in Nat \ {0}
    /\ VM_MAX_PAGE_SIZE \in Nat \ {0}
    /\ ADDRESS_SPACE_SIZE \in Nat \ {0}
    /\ VM_MIN_PAGE_SIZE <= VM_MAX_PAGE_SIZE
    /\ 2 * VM_MAX_PAGE_SIZE <= ADDRESS_SPACE_SIZE
    /\ ADDRESS_SPACE_SIZE % VM_MAX_PAGE_SIZE = 0
    /\ \A p \in PageSizes : VM_MAX_PAGE_SIZE % p = 0

VM_ADDRESS_SPACE_BOTTOM == VM_MAX_PAGE_SIZE
VM_ADDRESS_SPACE_TOP == ADDRESS_SPACE_SIZE - VM_MAX_PAGE_SIZE

None == -1

(* `value & page_size - 1 == 0` is a remainder of zero, `& !(page_size -   *)
(* 1)` removes the remainder; max is the MAX of the integer type.          *)
align_to_next_page(max, page_size, value) ==
    IF value % page_size = 0 THEN value
    ELSE IF value <= max - page_size
         THEN (value + page_size) - ((value + page_size) % page_size)
         ELSE None

align_to_next_page_u32(page_size, value) ==
    align_to_next_page(ADDRESS_SPACE_SIZE - 1, page_size, value)

(* On the operands of this module the check against u64::MAX never fails.  *)
align_to_next_page_u64(page_size, value) ==
    align_to_next_page(4 * ADDRESS_SPACE_SIZE, page_size, value)

AsU32(n) == n % ADDRESS_SPACE_SIZE

(* A mutation: the space of a region is rounded to the smallest page only. *)
SpaceOfMinPage(size) == align_to_next_page_u64(VM_MIN_PAGE_SIZE, size)

(* What one region takes of the address space, whatever the page size.     *)
Space(size) == align_to_next_page_u64(VM_MAX_PAGE_SIZE, size)

Builder == [page_size : U32, ro_data_size : U32, rw_data_size : U32,
            stack_size : U32, aux_data_size : U32]

(* A mutation: no guard page between read-only and read-write data.        *)
RwStartUnguarded(b) == VM_ADDRESS_SPACE_BOTTOM + Space(b.ro_data_size)

(* address_low and address_high when build compares them.                  *)
RwStart(b) == VM_ADDRESS_SPACE_BOTTOM + Space(b.ro_data_size) + VM_MAX_PAGE_SIZE
AddressLow(b) == RwStart(b) + Space(b.rw_data_size) + VM_MAX_PAGE_SIZE
AuxStart(b) == VM_ADDRESS_SPACE_TOP - Space(b.aux_data_size)
AddressHigh(b) == (AuxStart(b) - VM_MAX_PAGE_SIZE) - Space(b.stack_size)

(* A mutation: the sizes of the regions are not checked.                   *)
BuildFailsOnPageSize(b) == b.page_size \notin PageSizes

(* A mutation: a layout that fits exactly is refused.                      *)
BuildFailsWhenFull(b) ==
    \/ b.page_size \notin PageSizes
    \/ \E size \in {b.ro_data_size, b.rw_data_size, b.stack_size, b.aux_data_size} :
          align_to_next_page_u32(b.page_size, size) = None
    \/ AddressLow(b) >= AddressHigh(b)

(* The early returns of build.                                             *)
BuildFails(b) ==
    \/ b.page_size \notin PageSizes
    \/ \E size \in {b.ro_data_size, b.rw_data_size, b.stack_size, b.aux_data_size} :
          \/ Space(size) = None
          \/ align_to_next_page_u32(b.page_size, size) = None
    \/ AddressLow(b) > AddressHigh(b)

Layout(b) ==
    [page_size |-> b.page_size,
     ro_data_size |-> align_to_next_page_u32(b.page_size, b.ro_data_size),
     rw_data_address |-> AsU32(RwStart(b)),
     rw_data_size |-> align_to_next_page_u32(b.page_size, b.rw_data_size),
     stack_address_high |-> AsU32(AuxStart(b) - VM_MAX_PAGE_SIZE),
     stack_size |-> align_to_next_page_u32(b.page_size, b.stack_size),
     aux_data_address |-> AsU32(AuxStart(b)),
     aux_data_size |-> align_to_next_page_u32(b.page_size, b.aux_data_size),
     heap_base |-> AsU32(RwStart(b) + b.rw_data_size),
     \* heap_slack is address_low - heap_base before the last guard is added.
     max_heap_size |-> AsU32((AddressHigh(b) - AddressLow(b))
                             + (Space(b.rw_data_size) - b.rw_data_size))]

ro_data_address(map) == VM_ADDRESS_SPACE_BOTTOM
ro_data_end(map) == ro_data_address(map) + map.ro_data_size
rw_data_end(map) == map.rw_data_address + map.rw_data_size
stack_address_low(map) == map.stack_address_high - map.stack_size
aux_data_end(map) == map.aux_data_address + map.aux_data_size
=============================================================================
