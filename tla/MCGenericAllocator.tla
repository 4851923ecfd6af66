------------------------- MODULE MCGenericAllocator -------------------------
(* Instances of GenericAllocator for TLC.                                  *)
EXTENDS GenericAllocator
=============================================================================
