\* Six units of space, all of which one allocation may take; one mantissa bit
\* makes five bins, one of which holds free nodes of two sizes.
SPECIFICATION Spec
CONSTANTS
  TotalSpace = 6
  MAX_ALLOCATION_SIZE = 6
  MANTISSA_BITS = 1
  PrimaryBits = 4
  SecondaryBits = 2
  MaxAllocations = 3
INVARIANTS TypeOK AllocationsDisjoint TilesWithoutGaps BinsHoldFreeNodes ChoiceFits
