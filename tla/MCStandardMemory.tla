------------------------- MODULE MCStandardMemory -------------------------
(* StandardMemory in an address space of 36 bytes with pages of 2 bytes,   *)
(* of which the kernel's are half.  Read-only data is at 2, read-write     *)
(* data at 6 .. 14, the heap from 15, in the middle of a page, to at most  *)
(* 20, on both sides of 18, where numbers become negative; the stack, not  *)
(* a power of two, at 22 .. 27 and the aux data at 30 .. 33.               *)
EXTENDS StandardMemory

Stack6Aux4 ==
    [page_size |-> 2, ro_data_size |-> 1, rw_data_size |-> 9,
     stack_size |-> 6, aux_data_size |-> 4]

(* Accesses that start in each region, end at and cross its ends.          *)
MCAccesses ==
    {<<2, 1>>, <<3, 2>>, <<14, 2>>, <<15, 2>>, <<16, 1>>, <<17, 1>>, <<17, 2>>, <<19, 2>>,
     <<20, 1>>, <<21, 2>>, <<22, 1>>, <<25, 2>>, <<27, 1>>, <<27, 2>>, <<30, 1>>,
     <<31, 2>>}
MCWrites == {<<14, 2>>, <<17, 2>>, <<22, 1>>, <<25, 2>>, <<27, 1>>, <<31, 2>>}
FewAccesses == {<<17, 1>>, <<30, 1>>}
StackAccesses == {<<22, 1>>, <<25, 2>>}

(* Besides small sizes, those that a register holds for -1 as 32 bits, for *)
(* 2^32 + 1 and for -1.                                                    *)
MCIncrements == {0, 1, 3, 35, 37, 1295}

(* The aux data has nothing to do with the data and the heap: a behaviour  *)
(* uses the one or the other, and the stack in either case.                *)
VARIABLE uses_aux

Unwritten(region) == \A c \in region : memory'[c] = memory[c]

MCInit == Init /\ uses_aux \in BOOLEAN
MCNext ==
    /\ Next
    /\ UNCHANGED uses_aux
    /\ IF uses_aux
       THEN UNCHANGED <<heap_top, heap_threshold, mapped>> /\ Unwritten(0 .. Low - 1)
       ELSE UNCHANGED <<aux_data_length, aux_write_protect>> /\ Unwritten(Aux .. Aux + 3)
MCSpec == MCInit /\ [][MCNext]_<<vars, uses_aux>>
=============================================================================
