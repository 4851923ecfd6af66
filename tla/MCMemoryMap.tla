---------------------------- MODULE MCMemoryMap ----------------------------
(* MemoryMapBuilder with an address space of 40 bytes, pages of 1, 2 or 4. *)
EXTENDS MemoryMapBuilder

MCSizes == {0, 1, 3, 4, 6, 8, 20, 37}
MCRequestedPageSizes == {0, 1, 2, 3, 4, 8}
=============================================================================
