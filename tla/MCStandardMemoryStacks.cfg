SPECIFICATION MCSpec
CONSTANTS
    ADDRESS_SPACE_SIZE = 36
    VM_MIN_PAGE_SIZE = 2
    VM_MAX_PAGE_SIZE = 2
    Request <- Stack6Aux4
    NativePageSize = 1
    RESIZE_GRANULARITY = 2
    Increments <- MCIncrements
    AuxSizes = {0, 4}
    Accesses <- StackAccesses
    Writes <- StackAccesses
INVARIANTS CrosscheckedReadsMatch
