SPECIFICATION Spec
CONSTANTS
    ADDRESS_SPACE_SIZE = 40
    VM_MIN_PAGE_SIZE = 1
    VM_MAX_PAGE_SIZE = 4
    Sizes <- MCSizes
    RequestedPageSizes <- MCRequestedPageSizes
INVARIANTS TypeOK RegionsSeparated RegionsPageAligned BuildIsTight
