-------------------------- MODULE GenericAllocator --------------------------
(***************************************************************************)
(* The allocator behind the memory shared between the host and its worker  *)
(* processes.  Nodes tile the space; all nodes are linked by address, the  *)
(* free ones also into the list of their bin.  A bin is found with the     *)
(* two-level mask of BitMask.                                              *)
(*                                                                         *)
(* The state of the allocator is one record, `self`, so that the helpers   *)
(* the code calls one after the other can be chained.                      *)
(***************************************************************************)
EXTENDS Integers, Sequences, FiniteSets, FiniteSetsExt

CONSTANTS TotalSpace,            \* total_space
          MAX_ALLOCATION_SIZE,
          MANTISSA_BITS,
          PrimaryBits, SecondaryBits,  \* widths of the bins' mask types
          MaxAllocations         \* bound on the allocations alive at a time

ASSUME AllocatorAssumption ==
  /\ TotalSpace \in Nat /\ MAX_ALLOCATION_SIZE \in Nat \ {0}
  /\ MANTISSA_BITS \in Nat \ {0}
  /\ PrimaryBits \in Nat \ {0} /\ SecondaryBits \in Nat \ {0} /\ MaxAllocations \in Nat

VARIABLES self,   \* the GenericAllocator
          live    \* the GenericAllocations handed out and not freed yet

vars == <<self, live>>

EMPTY == -1   \* u32::MAX

(* to_bin_index<ROUND_UP>, a floating point number's exponent and mantissa. *)
to_bin_index(size, round_up) ==
  LET mantissa_value == 2 ^ MANTISSA_BITS
      top_bit == Max({b \in 0..size : 2 ^ b <= size})
      mantissa_start_bit == top_bit - MANTISSA_BITS
      unit == 2 ^ mantissa_start_bit
      mantissa == (size \div unit) % mantissa_value
      carry == IF round_up /\ size % unit # 0 THEN 1 ELSE 0
  IN IF size = 0 THEN 0
     ELSE IF size < mantissa_value THEN size - 1
     ELSE (mantissa_start_bit + 1) * mantissa_value + mantissa + carry - 1

(* calculate_optimal_bin_config's bin_count for the given MANTISSA_BITS *)
BinCount == to_bin_index(MAX_ALLOCATION_SIZE, TRUE) + 1
Bins == 0..(BinCount - 1)

Mask == INSTANCE BitMask WITH
          SecondaryLength <- (BinCount + SecondaryBits - 1) \div SecondaryBits

Clamp(size) == IF size < MAX_ALLOCATION_SIZE THEN size ELSE MAX_ALLOCATION_SIZE
size_to_bin_round_down(size) == to_bin_index(Clamp(size), FALSE)
(* Mutant: a request is looked for in the bin its size falls into. *)
size_to_bin_not_rounded(size) == to_bin_index(Clamp(size), FALSE)
size_to_bin_round_up(size) == to_bin_index(Clamp(size), TRUE)

IsNode(s, node) == node \in DOMAIN s.nodes
-----------------------------------------------------------------------------
(* insert_free_node for a size that is not zero: the new node and the state. *)
insert_free_node(s, offset, size) ==
  LET bin == size_to_bin_round_down(size)
      first == s.first_unallocated_for_bin[bin]
      region == [next_by_address |-> EMPTY, prev_by_address |-> EMPTY,
                 next_in_bin |-> first, prev_in_bin |-> EMPTY,
                 offset |-> offset, size |-> size, is_allocated |-> FALSE]
      reuse == s.unused_node_slots # <<>>
      new == IF reuse THEN s.unused_node_slots[Len(s.unused_node_slots)]
                      ELSE Cardinality(DOMAIN s.nodes)
      placed == [n \in DOMAIN s.nodes \cup {new} |-> IF n = new THEN region ELSE s.nodes[n]]
  IN [node |-> new,
      self |-> [nodes |-> IF first \in DOMAIN placed
                            THEN [placed EXCEPT ![first].prev_in_bin = new] ELSE placed,
                unused_node_slots |-> IF reuse THEN SubSeq(s.unused_node_slots, 1,
                                                           Len(s.unused_node_slots) - 1)
                                      ELSE <<>>,
                bins_with_free_space |-> IF first \in DOMAIN placed THEN s.bins_with_free_space
                                         ELSE Mask!MaskSet(s.bins_with_free_space, bin),
                first_unallocated_for_bin |-> [s.first_unallocated_for_bin EXCEPT ![bin] = new]]]

(* Mutant: the mask keeps the bit of a bin that has become empty. *)
remove_first_keeps_bit(s, node, bin) ==
  LET next == s.nodes[node].next_in_bin
      s1 == [s EXCEPT !.first_unallocated_for_bin[bin] = next]
  IN IF IsNode(s, next) THEN [s1 EXCEPT !.nodes[next].prev_in_bin = EMPTY] ELSE s1

remove_first_free_node(s, node, bin) ==
  LET next == s.nodes[node].next_in_bin
      s1 == [s EXCEPT !.first_unallocated_for_bin[bin] = next]
  IN IF IsNode(s, next) THEN [s1 EXCEPT !.nodes[next].prev_in_bin = EMPTY]
     ELSE [s1 EXCEPT !.bins_with_free_space = Mask!MaskUnset(@, bin)]

remove_node(s, node) ==
  LET prev == s.nodes[node].prev_in_bin
      next == s.nodes[node].next_in_bin
      linked == [s EXCEPT !.nodes[prev].next_in_bin = next]
      s1 == IF prev = EMPTY
              THEN remove_first_free_node(s, node, size_to_bin_round_down(s.nodes[node].size))
            ELSE IF IsNode(s, next) THEN [linked EXCEPT !.nodes[next].prev_in_bin = prev]
            ELSE linked
  IN [s1 EXCEPT !.unused_node_slots = Append(@, node)]

new(total_space) ==
  LET empty == [nodes |-> [n \in {} |-> n], unused_node_slots |-> <<>>,
                bins_with_free_space |-> Mask!EmptyMask,
                first_unallocated_for_bin |-> [b \in Bins |-> EMPTY]]
  IN IF total_space = 0 THEN empty ELSE insert_free_node(empty, 0, total_space).self

Init == self = new(TotalSpace) /\ live = {}

(* The bin and the node alloc settles on: the first bin all of whose nodes are
   big enough, else the first node of the bin below if it happens to be. *)
Choice(size) ==
  LET in(bins) == {[bin |-> b, node |-> self.first_unallocated_for_bin[b]] : b \in bins}
      fitting == in(Mask!find_first(self.bins_with_free_space, size_to_bin_round_up(size)))
      oversized == {c \in in(Mask!find_first(self.bins_with_free_space,
                                             size_to_bin_round_down(size))) :
                      self.nodes[c.node].size >= size}
  IN IF fitting # {} THEN fitting ELSE oversized

(* Mutant: nothing left over becomes a free node of size zero. *)
InsertRemainderAlways(s, node, offset, size) ==
  LET new_free == insert_free_node(s, offset, size)
  IN [new_free.self EXCEPT !.nodes[node].next_by_address = new_free.node,
                           !.nodes[new_free.node].prev_by_address = node,
                           !.nodes[new_free.node].next_by_address = s.nodes[node].next_by_address]

(* Adds what an allocation leaves over of its node back as a free node. *)
InsertRemainder(s, node, offset, size) ==
  LET new_free == insert_free_node(s, offset, size)
      next == s.nodes[node].next_by_address
      linked == [new_free.self EXCEPT !.nodes[node].next_by_address = new_free.node,
                                      !.nodes[new_free.node].prev_by_address = node,
                                      !.nodes[new_free.node].next_by_address = next]
  IN IF size = 0 THEN s
     ELSE IF IsNode(s, next) THEN [linked EXCEPT !.nodes[next].prev_by_address = new_free.node]
     ELSE linked

(* Unused slots, and the bin links of allocated nodes, are written before they
   are read again: what is left in them is dropped from the state. *)
Forget(s) ==
  LET blank == [next_by_address |-> EMPTY, prev_by_address |-> EMPTY, next_in_bin |-> EMPTY,
                prev_in_bin |-> EMPTY, offset |-> 0, size |-> 1, is_allocated |-> FALSE]
      unused == {s.unused_node_slots[i] : i \in DOMAIN s.unused_node_slots}
      settled(n) == IF n \in unused THEN blank
                    ELSE IF s.nodes[n].is_allocated
                      THEN [s.nodes[n] EXCEPT !.next_in_bin = EMPTY, !.prev_in_bin = EMPTY]
                    ELSE s.nodes[n]
  IN [s EXCEPT !.nodes = [n \in DOMAIN s.nodes |-> settled(n)]]

(* alloc; without a choice, or for a size over the maximum, it returns None.
   Size zero yields GenericAllocation::EMPTY, which free ignores. *)
Alloc(size) ==
  /\ size \in 1..MAX_ALLOCATION_SIZE /\ Cardinality(live) < MaxAllocations
  /\ \E c \in Choice(size) :
       LET original == self.nodes[c.node]
           taken == [self EXCEPT !.nodes[c.node].size = size,
                                 !.nodes[c.node].is_allocated = TRUE]
       IN /\ self' = Forget(InsertRemainder(remove_first_free_node(taken, c.node, c.bin), c.node,
                                            original.offset + size, original.size - size))
          /\ live' = live \cup {[node |-> c.node, offset |-> original.offset, size |-> size]}

IsFree(s, node) == node # EMPTY /\ ~s.nodes[node].is_allocated

(* Mutant: the freed region is not merged with the one after it. *)
MergeNextNever(s, node) == s

(* The two merges of free: the neighbour leaves its bin, and the freed node
   takes over its outer link.  The sizes are added up by the caller. *)
MergePrev(s, node) ==
  LET prev == s.nodes[node].prev_by_address
  IN IF IsFree(s, prev)
       THEN [remove_node(s, prev) EXCEPT !.nodes[node].prev_by_address = s.nodes[prev].prev_by_address]
       ELSE s
MergeNext(s, node) ==
  LET next == s.nodes[node].next_by_address
  IN IF IsFree(s, next)
       THEN [remove_node(s, next) EXCEPT !.nodes[node].next_by_address = s.nodes[next].next_by_address]
       ELSE s

Link(s, prev, next) ==
  LET s1 == IF prev # EMPTY THEN [s EXCEPT !.nodes[prev].next_by_address = next] ELSE s
  IN IF next # EMPTY THEN [s1 EXCEPT !.nodes[next].prev_by_address = prev] ELSE s1

(* Mutant: the merged region starts where the freed one did. *)
MergedOffsetOwn(alloc, prev) == alloc.offset

(* Where the region merged with the node before it starts. *)
MergedOffset(alloc, prev) == IF IsFree(self, prev) THEN self.nodes[prev].offset ELSE alloc.offset

Free(alloc) ==
  LET node == alloc.node
      prev == self.nodes[node].prev_by_address
      s1 == MergePrev(self, node)
      before == IF IsFree(self, prev) THEN self.nodes[prev].size ELSE 0
      next == s1.nodes[node].next_by_address
      s2 == MergeNext(s1, node)
      after == IF IsFree(s1, next) THEN s1.nodes[next].size ELSE 0
      freed == insert_free_node([s2 EXCEPT !.unused_node_slots = Append(@, node)],
                                MergedOffset(alloc, prev), alloc.size + before + after)
  IN /\ alloc \in live
     /\ live' = live \ {alloc}
     /\ self' = Forget(Link(Link(freed.self, freed.node, s2.nodes[node].next_by_address),
                            s2.nodes[node].prev_by_address, freed.node))

Next == (\E size \in 1..MAX_ALLOCATION_SIZE : Alloc(size)) \/ (\E alloc \in live : Free(alloc))

Spec == Init /\ [][Next]_vars
-----------------------------------------------------------------------------
Unused == {self.unused_node_slots[i] : i \in DOMAIN self.unused_node_slots}
InUse == DOMAIN self.nodes \ Unused
FreeNodes == {n \in InUse : ~self.nodes[n].is_allocated}
Span(n) == self.nodes[n].offset..(self.nodes[n].offset + self.nodes[n].size - 1)

(* Type correctness of the nodes, the free slots and the bins. *)
TypeOK ==
  LET Ref == DOMAIN self.nodes \cup {EMPTY}
  IN /\ self.nodes \in [DOMAIN self.nodes ->
          [next_by_address : Ref, prev_by_address : Ref, next_in_bin : Ref, prev_in_bin : Ref,
           offset : 0..TotalSpace, size : 1..TotalSpace, is_allocated : BOOLEAN]]
     /\ Unused \subseteq DOMAIN self.nodes /\ Cardinality(Unused) = Len(self.unused_node_slots)
     /\ self.first_unallocated_for_bin \in [Bins -> Ref]

(* No byte is handed out twice and none outside of the space: the allocations
   are disjoint, and each is described by the node it names. *)
AllocationsDisjoint ==
  /\ \A a \in live : /\ a.node \in InUse \ FreeNodes
                     /\ self.nodes[a.node].offset = a.offset /\ self.nodes[a.node].size = a.size
                     /\ a.offset + a.size <= TotalSpace
  /\ \A a, b \in live : a # b => Span(a.node) \cap Span(b.node) = {}

(* Linked by address, the nodes in use tile the whole space (nothing leaks),
   and no two neighbours are both free (nothing stays fragmented). *)
TilesWithoutGaps ==
  /\ UNION {Span(n) : n \in InUse} = 0..(TotalSpace - 1)
  /\ \A n \in InUse :
       LET node == self.nodes[n]
           next == node.next_by_address
       IN IF node.offset + node.size = TotalSpace THEN next = EMPTY
          ELSE /\ next \in InUse /\ self.nodes[next].offset = node.offset + node.size
               /\ self.nodes[next].prev_by_address = n
               /\ node.is_allocated \/ self.nodes[next].is_allocated

(* Every free node is in the list of the bin of its size, every list is
   doubly linked, and the mask knows exactly the bins with a list. *)
BinsHoldFreeNodes ==
  /\ \A b \in Bins :
       LET first == self.first_unallocated_for_bin[b]
       IN /\ first = EMPTY <=> ~\E n \in FreeNodes : size_to_bin_round_down(self.nodes[n].size) = b
          /\ first # EMPTY => first \in FreeNodes /\ self.nodes[first].prev_in_bin = EMPTY
          /\ b \in Mask!Bits(self.bins_with_free_space) <=> first # EMPTY
  /\ \A n \in FreeNodes :
       LET node == self.nodes[n]
           bin == size_to_bin_round_down(node.size)
       IN /\ node.prev_in_bin = EMPTY => self.first_unallocated_for_bin[bin] = n
          /\ node.next_in_bin # EMPTY =>
               /\ node.next_in_bin \in FreeNodes /\ self.nodes[node.next_in_bin].prev_in_bin = n
               /\ size_to_bin_round_down(self.nodes[node.next_in_bin].size) = bin

(* The node alloc settles on is free and big enough (the debug_assert!s), and a
   request only fails when no bin above its own has a node and none of the
   free nodes is guaranteed to fit it. *)
ChoiceFits ==
  \A size \in 1..MAX_ALLOCATION_SIZE :
    /\ \A c \in Choice(size) : c.node \in FreeNodes /\ self.nodes[c.node].size >= size
    /\ (\E n \in FreeNodes : size_to_bin_round_down(self.nodes[n].size) >= size_to_bin_round_up(size))
         => Choice(size) # {}
=============================================================================
