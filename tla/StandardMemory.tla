--------------------------- MODULE StandardMemory ---------------------------
(***************************************************************************)
(* The memory of an instance without dynamic paging, in the two backends   *)
(* that a crosschecked RawInstance drives in lockstep: the worker process  *)
(* of the Linux sandbox (crates/polkavm/src/sandbox/linux.rs with the      *)
(* worker's entry points in crates/polkavm-zygote/src/main.rs and the      *)
(* compiled sbrk of crates/polkavm/src/compiler/amd64.rs) and              *)
(* StandardMemory of crates/polkavm/src/interpreter.rs.  Each action is    *)
(* one call of crates/polkavm/src/api.rs, or one guest instruction.        *)
(*                                                                         *)
(* Addresses are numbers below ADDRESS_SPACE_SIZE, bytes are 0 or 1, a     *)
(* written or stored run of bytes repeats one byte.  A Vec of the          *)
(* interpreter is its length and the bytes at guest addresses; bytes that  *)
(* are not resident are kept at their initial value.  The interpreter's    *)
(* memory limits are not set, as by default.                               *)
(***************************************************************************)
EXTENDS MemoryMap

CONSTANTS
    Request,             \* the builder of this module's memory map
    NativePageSize,      \* the page size of the kernel
    RESIZE_GRANULARITY,
    Increments,          \* the arguments of sbrk: register values of the guest
    AuxSizes,            \* the arguments of set_accessible_aux_size
    Accesses,            \* the pairs <<address, length>> that are looked at
    Writes               \* those of them that are written and stored to

ASSUME StandardMemoryAssumption ==
    /\ Request \in Builder
    /\ ~ BuildFails(Request)
    /\ NativePageSize \in 1 .. Request.page_size
    /\ Accesses \subseteq U32 \X (U32 \ {0})
    /\ Writes \subseteq Accesses

VARIABLES
    heap_top, heap_threshold, \* VmCtx.heap_info
    mapped,              \* the addresses above the data where the worker mapped the heap
    memory,              \* the bytes of the worker's mappings and of the aux memory
    aux_data_length,     \* Sandbox.aux_data_length
    aux_readable,        \* how much of the aux region the worker can read
    interp,              \* StandardMemory
    aux_write_protect,   \* RawInstance.host_side_aux_write_protect
    sbrk_result,         \* what the last sbrk returned in each backend
    fresh,               \* nothing was called since instantiation or reset_memory
    wide                 \* the guest has asked sbrk for 2^32 bytes or more (only recorded)

linux == <<heap_top, heap_threshold, mapped, memory, aux_data_length, aux_readable>>
vars == <<linux, interp, aux_write_protect, sbrk_result, fresh, wide>>

Map == Layout(Request)
Low == stack_address_low(Map)
High == Map.stack_address_high
Rw == Map.rw_data_address
Aux == Map.aux_data_address
U64_SIZE == ADDRESS_SPACE_SIZE * ADDRESS_SPACE_SIZE

(* The data of the program is all ones.                                    *)
InitialByte(a) ==
    IF \/ a >= ro_data_address(Map) /\ a < ro_data_address(Map) + Request.ro_data_size
       \/ a >= Rw /\ a < Map.heap_base
    THEN 1 ELSE 0
InitialMemory == [a \in U32 |-> InitialByte(a)]

Align(value) == align_to_next_page_u64(Map.page_size, value)
Range(from, length) == from .. from + length - 1

(* StandardMemory::reset_memory, called when an instance is created too.   *)
InterpReset ==
    [heap_size |-> 0, rw_data_size |-> Map.rw_data_size, rw_len |-> 0, stack_len |-> 0,
     aux_len |-> 0, accessible_aux_size |-> Map.aux_data_size,
     rw |-> InitialMemory, stack |-> [a \in U32 |-> 0], aux |-> [a \in U32 |-> 0]]

Init ==
    /\ heap_top = Map.heap_base
    /\ heap_threshold = rw_data_end(Map)
    /\ mapped = {}
    /\ memory = InitialMemory
    /\ aux_data_length = Map.aux_data_size
    /\ aux_readable = Map.aux_data_size
    /\ interp = InterpReset
    /\ aux_write_protect = FALSE
    /\ sbrk_result = [linux |-> 0, interp |-> 0, by_guest |-> FALSE]
    /\ fresh = TRUE
    /\ wide = FALSE

NotSbrk ==
    /\ sbrk_result' = [linux |-> 0, interp |-> 0, by_guest |-> FALSE]
    /\ UNCHANGED wide

-----------------------------------------------------------------------------
(* What the host may access.                                               *)

(* Both backends find the region by the start of the access and compare    *)
(* its end with the end of the region; aux and rw are the sizes that       *)
(* change.                                                                 *)
LimitOf(a, aux_end, rw_end) ==
    IF a >= Aux THEN aux_end
    ELSE IF a >= Low THEN High
    ELSE IF a >= Rw THEN rw_end
    ELSE IF a >= ro_data_address(Map) THEN ro_data_end(Map)
    ELSE 0

LinuxInRange(a, length) ==
    a + length <= LimitOf(a, Aux + aux_data_length, heap_threshold)

InterpInRange(a, length) ==
    a + length <= LimitOf(a, Aux + interp.accessible_aux_size, Rw + interp.rw_data_size)

(* The checks that RawInstance makes before it asks a backend.             *)
get_write_upper_limit == IF aux_write_protect THEN High ELSE ADDRESS_SPACE_SIZE
ApiInRange(a, length, upper_limit) ==
    a >= VM_ADDRESS_SPACE_BOTTOM /\ a + length <= upper_limit

IsWithin(from, to, a, length) == a >= from /\ a + length <= to

(* RawInstance::is_memory_accessible.                                      *)
is_memory_accessible(a, length, writable) ==
    /\ ApiInRange(a, length, IF writable THEN get_write_upper_limit ELSE ADDRESS_SPACE_SIZE)
    /\ \/ IsWithin(Low, High, a, length)
       \/ IsWithin(Rw, Align(AsU32(Map.heap_base + AsU32(heap_top - Map.heap_base))), a, length)
       \/ IsWithin(Aux, Aux + aux_data_length, a, length)
       \/ ~ writable /\ IsWithin(ro_data_address(Map), ro_data_end(Map), a, length)

(* What the worker has mapped, as the guest and process_vm_readv see it.   *)
WorkerWritable == (Rw .. rw_data_end(Map) - 1) \cup mapped \cup (Low .. High - 1)
WorkerReadable ==
    WorkerWritable \cup (ro_data_address(Map) .. ro_data_end(Map) - 1)
                   \cup Range(Aux, aux_readable)

OutOfRange == <<>>
Failed == <<None>>
Bytes(f, a, length) == [i \in 1 .. length |-> f[a + i - 1]]

(* Sandbox::read_memory_into.                                              *)
LinuxRead(a, length) ==
    IF ~ LinuxInRange(a, length) THEN OutOfRange
    ELSE IF Range(a, length) \subseteq WorkerReadable THEN Bytes(memory, a, length)
    ELSE Failed

(* Sandbox::write_memory and zero_memory: the aux region is written in the *)
(* shared memory, the rest in the worker.                                  *)
LinuxWrite(a, length) ==
    IF ~ (a >= Rw /\ LinuxInRange(a, length)) THEN "OutOfRange"
    ELSE IF a >= Aux \/ Range(a, length) \subseteq WorkerWritable THEN "Ok"
    ELSE "Failed"

(* The bytes of StandardMemory::read_memory_into: those that a Vec does    *)
(* not hold are zero or the program's.  The stack's Vec holds the highest  *)
(* addresses; the subtraction wraps.                                       *)
ResidentOffset == (Map.stack_size - interp.stack_len) % U64_SIZE
InterpBytes ==
    [c \in U32 |->
        IF c >= Aux THEN interp.aux[c]
        ELSE IF c >= Low THEN IF c - Low < ResidentOffset THEN 0 ELSE interp.stack[c]
        ELSE interp.rw[c]]

InterpRead(a, length) ==
    IF InterpInRange(a, length) THEN Bytes(InterpBytes, a, length) ELSE OutOfRange

-----------------------------------------------------------------------------
(* Writes: the interpreter makes the bytes resident first.                 *)

Fill(f, a, length, byte) == [c \in U32 |-> IF c \in Range(a, length) THEN byte ELSE f[c]]
Larger(m, n) == IF m >= n THEN m ELSE n
Rejected == [ok |-> FALSE, state |-> interp]
Done(state) == [ok |-> TRUE, state |-> state]

next_multiple_of(n) == align_to_next_page_u64(RESIZE_GRANULARITY, n)
next_power_of_two(n) ==
    CHOOSE p \in {2^k : k \in 0 .. n} : p >= n /\ \A k \in 0 .. n : 2^k >= n => p <= 2^k

(* The new length of the stack's Vec is its whole capacity.                *)
stack_resize(required) == Larger(next_power_of_two(required), RESIZE_GRANULARITY)

(* A mutation: the Vec grows without keeping the bytes at the top.         *)
WriteStackAtBottom(a, length, byte) ==
    IF a + length > High \/ (High - a > interp.stack_len /\ High - a > Map.stack_size)
    THEN Rejected
    ELSE Done([interp EXCEPT
            !.stack_len = IF High - a <= @ THEN @ ELSE stack_resize(High - a),
            !.stack = IF High - a <= interp.stack_len THEN Fill(@, a, length, byte)
                      ELSE Fill([c \in U32 |-> 0], a, length, byte)])

(* prepare_stack_write and the copy after it.                              *)
WriteStack(a, length, byte) ==
    IF a + length > High \/ (High - a > interp.stack_len /\ High - a > Map.stack_size)
    THEN Rejected
    ELSE Done([interp EXCEPT
            !.stack_len = IF High - a <= @ THEN @ ELSE stack_resize(High - a),
            !.stack = Fill(@, a, length, byte)])

WriteRw(a, length, byte) ==
    LET end == a + length - Rw IN
    IF end > interp.rw_len /\ end > interp.rw_data_size THEN Rejected
    ELSE Done([interp EXCEPT
            !.rw_len = IF end <= @ THEN @ ELSE next_multiple_of(end),
            !.rw = Fill(@, a, length, byte)])

WriteAux(a, length, byte) ==
    LET end == a + length - Aux IN
    IF end > interp.aux_len /\ end > interp.accessible_aux_size THEN Rejected
    ELSE Done([interp EXCEPT
            !.aux_len = IF end <= @ THEN @ ELSE next_multiple_of(end),
            !.aux = Fill(@, a, length, byte)])

(* StandardMemory::zero_or_write_memory.                                   *)
InterpWrite(a, length, byte) ==
    IF a >= Aux THEN WriteAux(a, length, byte)
    ELSE IF a >= Low THEN WriteStack(a, length, byte)
    ELSE IF a >= Rw THEN WriteRw(a, length, byte)
    ELSE Rejected

(* RawInstance::write_memory and zero_memory.                              *)
Write(a, length, byte) ==
    /\ ApiInRange(a, length, get_write_upper_limit)
    /\ memory' = IF LinuxWrite(a, length) = "Ok" THEN Fill(memory, a, length, byte) ELSE memory
    /\ interp' = InterpWrite(a, length, byte).state
    /\ fresh' = FALSE
    /\ NotSbrk
    /\ UNCHANGED <<heap_top, heap_threshold, mapped, aux_data_length, aux_readable,
                   aux_write_protect>>

(* The guest's instructions see the worker's mappings, and in the          *)
(* interpreter a fast path on what is resident before the regions.         *)
ResidentStack(a, length) == a >= High - interp.stack_len /\ a + length <= High

InterpStore(a, length, byte) ==
    IF ResidentStack(a, length)
    THEN Done([interp EXCEPT !.stack = Fill(@, a, length, byte)])
    ELSE IF a >= Low THEN WriteStack(a, length, byte)
    ELSE IF a >= Rw THEN WriteRw(a, length, byte)
    ELSE Rejected

InterpLoad(a, length) ==
    IF ResidentStack(a, length) THEN Bytes(interp.stack, a, length) ELSE InterpRead(a, length)

LinuxLoad(a, length) ==
    IF Range(a, length) \subseteq WorkerReadable THEN Bytes(memory, a, length) ELSE OutOfRange

GuestStore(a, length, byte) ==
    /\ memory' = IF Range(a, length) \subseteq WorkerWritable
                 THEN Fill(memory, a, length, byte) ELSE memory
    /\ interp' = InterpStore(a, length, byte).state
    /\ fresh' = FALSE
    /\ NotSbrk
    /\ UNCHANGED <<heap_top, heap_threshold, mapped, aux_data_length, aux_readable,
                   aux_write_protect>>

-----------------------------------------------------------------------------
(* The heap.                                                               *)

InterpSbrk(size) ==
    LET new == interp.heap_size + size
        top == Map.heap_base + new
    IN  IF new >= ADDRESS_SPACE_SIZE \/ new > Map.max_heap_size THEN Rejected
        ELSE Done([interp EXCEPT
                !.heap_size = new,
                !.rw_data_size = IF top > Rw + @ THEN Align(top) - Rw ELSE @])

(* A mutation: the heap may grow as long as addresses do not wrap.         *)
HeapWraps(pending) == pending >= ADDRESS_SPACE_SIZE

HeapExhausted(pending) == pending > AsU32(Map.heap_base + Map.max_heap_size)

(* A mutation: the threshold is the end of the heap, not of its last page. *)
SyscallSbrkExactThreshold(pending) ==
    IF HeapExhausted(pending) THEN UNCHANGED linux
    ELSE LET new == Align(heap_top) .. Align(pending) - 1 IN
         /\ mapped' = mapped \cup new
         /\ memory' = [c \in U32 |-> IF c \in new THEN 0 ELSE memory[c]]
         /\ heap_top' = pending
         /\ heap_threshold' = Larger(pending, heap_threshold)
         /\ UNCHANGED <<aux_data_length, aux_readable>>

(* A mutation: the pages are mapped from the start of the heap's last      *)
(* page, over what it holds.                                               *)
SyscallSbrkRemaps(pending) ==
    IF HeapExhausted(pending) THEN UNCHANGED linux
    ELSE LET new == heap_top .. Align(pending) - 1 IN
         /\ mapped' = mapped \cup new
         /\ memory' = [c \in U32 |-> IF c \in new THEN 0 ELSE memory[c]]
         /\ heap_top' = pending
         /\ heap_threshold' = Align(pending)
         /\ UNCHANGED <<aux_data_length, aux_readable>>

(* syscall_sbrk of the worker: fresh pages from the end of the last page   *)
(* of the heap.                                                            *)
SyscallSbrk(pending) ==
    IF HeapExhausted(pending) THEN UNCHANGED linux
    ELSE LET new == Align(heap_top) .. Align(pending) - 1 IN
         /\ mapped' = mapped \cup new
         /\ memory' = [c \in U32 |-> IF c \in new THEN 0 ELSE memory[c]]
         /\ heap_top' = pending
         /\ heap_threshold' = Align(pending)
         /\ UNCHANGED <<aux_data_length, aux_readable>>

SyscallSbrkResult(pending) == IF HeapExhausted(pending) THEN 0 ELSE AsU32(pending)

(* RawInstance::sbrk.                                                      *)
HostSbrk(size) ==
    LET result == InterpSbrk(size) IN
    /\ IF size = 0 THEN UNCHANGED linux ELSE SyscallSbrk(heap_top + size)
    /\ interp' = result.state
    /\ sbrk_result' =
          [linux |-> IF size = 0 THEN AsU32(heap_top) ELSE SyscallSbrkResult(heap_top + size),
           interp |-> IF result.ok THEN Map.heap_base + result.state.heap_size ELSE 0,
           by_guest |-> FALSE]
    /\ fresh' = FALSE
    /\ UNCHANGED <<aux_write_protect, wide>>

SignExtend(n) == IF 2 * n >= ADDRESS_SPACE_SIZE THEN n + U64_SIZE - ADDRESS_SPACE_SIZE ELSE n

(* The sbrk instruction of a 64-bit program.  The compiled code truncates  *)
(* the size when it moves it to another register; sbrk dst, dst does not.  *)
(* The interpreter takes a size of more than 32 bits for zero and sign     *)
(* extends the result.                                                     *)
GuestSbrk(register, same_register) ==
    LET size == IF same_register THEN register ELSE AsU32(register)
        pending == (size + heap_top) % U64_SIZE
        bump_only == pending <= heap_threshold
        result == InterpSbrk(IF register < ADDRESS_SPACE_SIZE THEN register ELSE 0)
    IN  /\ IF bump_only
           THEN /\ heap_top' = pending
                /\ UNCHANGED <<heap_threshold, mapped, memory, aux_data_length, aux_readable>>
           ELSE SyscallSbrk(pending)
        /\ interp' = result.state
        /\ sbrk_result' =
              [linux |-> IF bump_only THEN pending ELSE SyscallSbrkResult(pending),
               interp |-> SignExtend(IF result.ok THEN Map.heap_base + result.state.heap_size
                                                  ELSE 0),
               by_guest |-> TRUE]
        /\ wide' = (wide \/ register >= ADDRESS_SPACE_SIZE)
        /\ fresh' = FALSE
        /\ UNCHANGED aux_write_protect

-----------------------------------------------------------------------------
(* reset_memory and the aux data.                                          *)

(* A mutation: the last native page of the heap is left mapped.            *)
UnmappedWholePages ==
    IF heap_top > rw_data_end(Map)
    THEN rw_data_end(Map) .. align_to_next_page_u64(NativePageSize, heap_top) - NativePageSize - 1
    ELSE {}

(* munmap takes the length up to a whole native page.                      *)
UnmappedByReset ==
    IF heap_top > rw_data_end(Map)
    THEN rw_data_end(Map) .. align_to_next_page_u64(NativePageSize, heap_top) - 1
    ELSE {}

(* RawInstance::reset_memory: ext_reset_memory drops the private pages of  *)
(* the writable maps and unmaps the heap, in native pages.  Where sbrk     *)
(* mapped the heap over the data, as it does once the guest has lowered    *)
(* the heap's top, a dropped page is zero.                                 *)
Reset ==
    /\ mapped' = mapped \ UnmappedByReset
    /\ memory' = [c \in U32 |->
          IF c >= Aux \/ (c \in mapped' /\ c >= rw_data_end(Map)) THEN memory[c]
          ELSE IF c \in mapped' THEN 0
          ELSE InitialByte(c)]
    /\ heap_top' = Map.heap_base
    /\ heap_threshold' = rw_data_end(Map)
    /\ interp' = InterpReset
    /\ fresh' = TRUE
    /\ NotSbrk
    /\ UNCHANGED <<aux_data_length, aux_readable, aux_write_protect>>

(* RawInstance::set_accessible_aux_size.                                   *)
SetAccessibleAuxSize(size) ==
    LET rounded == Align(size) IN
    /\ size <= Map.aux_data_size
    /\ aux_data_length' = rounded
    /\ aux_readable' = rounded
    /\ interp' = [interp EXCEPT
          !.accessible_aux_size = rounded,
          !.aux_len = IF @ <= rounded THEN @ ELSE rounded,
          !.aux = [c \in U32 |-> IF c < Aux + rounded THEN @[c] ELSE 0]]
    /\ fresh' = FALSE
    /\ NotSbrk
    /\ UNCHANGED <<heap_top, heap_threshold, mapped, memory, aux_write_protect>>

(* RawInstance::set_host_side_aux_write_protect.                           *)
SetHostSideAuxWriteProtect(value) ==
    /\ aux_write_protect' = value
    /\ NotSbrk
    /\ UNCHANGED <<linux, interp, fresh>>

(* A bound: the guest asks for 2^32 bytes or more once.                    *)
OneWideSbrk(register) == wide => register \in U32

Next ==
    \/ \E access \in Writes, byte \in {0, 1} :
          \/ Write(access[1], access[2], byte)
          \/ GuestStore(access[1], access[2], byte)
    \/ \E size \in Increments \cap U32 : HostSbrk(size)
    \/ \E register \in Increments, same \in BOOLEAN :
          OneWideSbrk(register) /\ GuestSbrk(register, same)
    \/ Reset
    \/ \E size \in AuxSizes : SetAccessibleAuxSize(size)
    \/ \E value \in BOOLEAN : SetHostSideAuxWriteProtect(value)

Spec == Init /\ [][Next]_vars

-----------------------------------------------------------------------------

(* The sizes are in bounds, and the Vecs of the interpreter hold no more    *)
(* than their regions, the stack's no more than the power of two above it. *)
TypeOK ==
    /\ heap_top \in 0 .. Map.heap_base + Map.max_heap_size
    /\ wide \/ heap_top >= Map.heap_base
    /\ heap_threshold \in U32
    /\ mapped \subseteq U32
    /\ memory \in [U32 -> {0, 1}]
    /\ aux_data_length \in 0 .. Map.aux_data_size
    /\ aux_readable \in 0 .. Map.aux_data_size
    /\ interp.rw_len \in 0 .. interp.rw_data_size
    /\ interp.stack_len \in 0 .. next_power_of_two(Map.stack_size)
    /\ interp.aux_len \in 0 .. interp.accessible_aux_size
    /\ aux_write_protect \in BOOLEAN
    /\ fresh \in BOOLEAN
    /\ wide \in BOOLEAN

(* Three things set the backends apart; the properties below except them   *)
(* and nothing else.  The Vec of the stack is as long as a power of two,   *)
(* so that it outgrows a stack of another size.  The heaps differ from the *)
(* first sbrk of 2^32 bytes or more on: compiled code truncates the size,  *)
(* or with sbrk dst, dst adds it as it is, which may lower the heap's top, *)
(* and the interpreter takes it for zero.  And a reset leaves the end of   *)
(* the heap's last page mapped when native pages are smaller.              *)
StackFits == interp.stack_len <= Map.stack_size
InHeap(a) == a >= Rw /\ a < Low
LeftMapped == {c \in mapped : c >= heap_threshold}

(* Below the aux data the two backends accept the same reads and writes of *)
(* the host and read the same bytes, whatever was written, stored, grown   *)
(* and reset before: otherwise a crosschecked RawInstance panics with      *)
(* "read_memory: crosscheck mismatch" or "write_memory: ...".  In the      *)
(* stack, until its Vec outgrows it; in the data and the heap, until the   *)
(* guest asks sbrk for 2^32 bytes or more.                                 *)
HostAccessesAgree ==
    \A access \in Accesses :
        /\ access[1] < Aux
        /\ access[1] >= Low => StackFits
        /\ InHeap(access[1]) => ~ wide
        =>  /\ LinuxRead(access[1], access[2]) = InterpRead(access[1], access[2])
            /\ (LinuxWrite(access[1], access[2]) = "Ok")
                  <=> InterpWrite(access[1], access[2], 1).ok

(* The guest's loads below the aux data give the same bytes, or trap, in   *)
(* both backends, and stores trap in both or in neither.  In the stack and *)
(* just below it, until its Vec outgrows it: then the interpreter accepts  *)
(* stores to the guard page.  In the data and the heap, until the guest    *)
(* asks sbrk for 2^32 bytes or more, and outside of what a reset left      *)
(* mapped.                                                                 *)
GuestAccessesAgree ==
    \A access \in Accesses :
        /\ access[1] + access[2] > High - interp.stack_len => StackFits
        /\ InHeap(access[1]) => ~ wide /\ Range(access[1], access[2]) \cap LeftMapped = {}
        =>  /\ access[1] < Aux =>
                  LinuxLoad(access[1], access[2]) = InterpLoad(access[1], access[2])
            /\ Range(access[1], access[2]) \subseteq WorkerWritable
                  <=> InterpStore(access[1], access[2], 1).ok

(* A backend refuses an access exactly when is_memory_accessible says so,  *)
(* as read_memory_into, write_memory and zero_memory assert: what the host *)
(* computes from heap_size, the threshold that compiled code and the       *)
(* worker keep, and the mappings all agree.  In the data and the heap,     *)
(* until the guest asks sbrk for 2^32 bytes or more, which may lower the   *)
(* top and not the threshold.                                              *)
AccessibleIsExact ==
    \A access \in Accesses :
        (InHeap(access[1]) => ~ wide) =>
        /\ ApiInRange(access[1], access[2], ADDRESS_SPACE_SIZE) =>
              (is_memory_accessible(access[1], access[2], FALSE)
                 <=> LinuxRead(access[1], access[2]) \notin {OutOfRange, Failed})
        /\ ApiInRange(access[1], access[2], get_write_upper_limit) =>
              (is_memory_accessible(access[1], access[2], TRUE)
                 <=> LinuxWrite(access[1], access[2]) = "Ok")

(* As long as the guest asks sbrk for less than 2^32 bytes, both backends  *)
(* refuse the same calls of sbrk and keep the same end of the heap.  The   *)
(* host gets the same answer from both; the guest's register holds the new *)
(* end zero extended in the one and sign extended in the other.            *)
SbrkAgrees ==
    ~ wide =>
        /\ heap_top = Map.heap_base + interp.heap_size
        /\ sbrk_result.interp = IF sbrk_result.by_guest THEN SignExtend(sbrk_result.linux)
                                                       ELSE sbrk_result.linux

(* Unless the guest asked sbrk for 2^32 bytes or more: after reset_memory  *)
(* the worker's data, heap and stack hold their initial bytes, and nothing *)
(* of the heap is mapped but what is behind the first native page of one   *)
(* of its pages, since ext_reset_memory unmaps it up to heap_top.  That is *)
(* nothing when the module's pages are native.                             *)
ResetRestoresMemory ==
    fresh /\ ~ wide =>
        /\ \A c \in U32 \ mapped : c < Aux => memory[c] = InitialByte(c)
        /\ \A c \in mapped : c >= rw_data_end(Map) /\ c % Map.page_size >= NativePageSize

(* After reset_memory all of the aux data is accessible and zero.          *)
ResetRestoresAux ==
    fresh => aux_data_length = Map.aux_data_size /\ \A c \in U32 : c >= Aux => memory[c] = 0

(* A crosschecked read of the stack never ends in the panic "read_memory:  *)
(* crosscheck mismatch" of read_memory_into: the bytes are the same.       *)
CrosscheckedReadsMatch ==
    \A access \in Accesses :
        access[1] >= Low /\ access[1] < Aux =>
            LinuxRead(access[1], access[2]) = InterpRead(access[1], access[2])
=============================================================================
