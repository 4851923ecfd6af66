------------------------------ MODULE BitMask ------------------------------
(***************************************************************************)
(* The two-level bit mask that tells the allocator which of its bins have  *)
(* free space.  A raw mask is the set of its set bits; a shift by the width*)
(* of the mask or more shifts by the remainder, as a build without         *)
(* overflow checks does.                                                   *)
(***************************************************************************)
EXTENDS Naturals, FiniteSets, FiniteSetsExt

CONSTANTS PrimaryBits, SecondaryBits,   \* widths of the two raw mask types
          SecondaryLength               \* SECONDARY_LENGTH

NoBit == PrimaryBits + SecondaryBits   \* stands for u32::MAX

(* RawMask::lowest_set_bit_after for a raw mask of `width` bits *)
lowest_set_bit_after(raw, bit_index, width) ==
  LET bits_after == {b \in raw : b >= bit_index % width}
  IN IF bits_after = {} THEN NoBit ELSE Min(bits_after)

trailing_zeros(raw) == Min(raw)

EmptyMask == [primary |-> {}, secondary |-> [p \in 0..(SecondaryLength - 1) |-> {}]]

(* index *)
PrimaryOf(index) == index \div SecondaryBits
SecondaryOf(index) == index % SecondaryBits

MaskSet(m, index) ==
  [primary |-> m.primary \cup {PrimaryOf(index)},
   secondary |-> [m.secondary EXCEPT ![PrimaryOf(index)] = @ \cup {SecondaryOf(index)}]]

MaskUnset(m, index) ==
  LET secondary == [m.secondary EXCEPT ![PrimaryOf(index)] = @ \ {SecondaryOf(index)}]
  IN [primary |-> IF secondary[PrimaryOf(index)] = {} THEN m.primary \ {PrimaryOf(index)}
                                                      ELSE m.primary,
      secondary |-> secondary]

(* The set of the index found, empty when there is none. *)
find_first(m, min_index) ==
  LET here == IF PrimaryOf(min_index) \in m.primary
                THEN lowest_set_bit_after(m.secondary[PrimaryOf(min_index)],
                                          SecondaryOf(min_index), SecondaryBits)
                ELSE NoBit
      primary == lowest_set_bit_after(m.primary, PrimaryOf(min_index) + 1, PrimaryBits)
  IN IF here # NoBit THEN {PrimaryOf(min_index) * SecondaryBits + here}
     ELSE IF primary = NoBit THEN {}
     ELSE {primary * SecondaryBits + trailing_zeros(m.secondary[primary])}

Indices == 0..(SecondaryLength * SecondaryBits - 1)

(* The bits the mask stores. *)
Bits(m) == {i \in Indices : SecondaryOf(i) \in m.secondary[PrimaryOf(i)]}
=============================================================================
