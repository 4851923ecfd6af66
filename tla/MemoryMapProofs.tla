-------------------------- MODULE MemoryMapProofs --------------------------
(***************************************************************************)
(* For every address space, every range of page sizes and every request:   *)
(* the maps that MemoryMapBuilder::build returns keep the regions apart.   *)
(***************************************************************************)
EXTENDS MemoryMapBuilder, TLAPS

(* Division with remainder, for the divisors of this module.               *)
LEMMA DivMod ==
    ASSUME NEW p \in Nat \ {0}, NEW v \in Int
    PROVE  /\ v % p \in 0 .. p - 1
           /\ v \div p \in Int
           /\ v = p * (v \div p) + (v % p)
BY SMT

(* A number that is q pages of size p has no remainder.                    *)
LEMMA MultipleHasNoRemainder ==
    ASSUME NEW p \in Nat \ {0}, NEW q \in Int
    PROVE  (p * q) % p = 0
<1>. DEFINE v == p * q
<1>1. v \in Int
   OBVIOUS
<1>2. v % p \in 0 .. p - 1 /\ v \div p \in Int /\ v = p * (v \div p) + (v % p)
   BY <1>1, DivMod
<1>. DEFINE d == q - (v \div p)
<1>3. d \in Int /\ p * d = v % p
   BY <1>2, SMT
<1>4. d = 0
   <2>1. p * d < p /\ p * d >= 0
      BY <1>2, <1>3
   <2>2. CASE d >= 1
      BY <2>1, <2>2, <1>3, SMT
   <2>3. CASE d <= -1
      BY <2>1, <2>3, <1>3, SMT
   <2>. QED BY <1>3, <2>2, <2>3, SMT
<1>. QED BY <1>3, <1>4, SMT

(* Multiples of p are closed under sum and difference.                     *)
LEMMA MultiplesAdd ==
    ASSUME NEW p \in Nat \ {0}, NEW v \in Int, NEW w \in Int, v % p = 0, w % p = 0
    PROVE  (v + w) % p = 0 /\ (v - w) % p = 0
<1>. DEFINE i == v \div p
            j == w \div p
<1>1. i \in Int /\ v = p * i
   BY DivMod
<1>2. j \in Int /\ w = p * j
   BY DivMod
<1>. HIDE DEF i, j
<1>3. v + w = p * (i + j) /\ v - w = p * (i - j)
   BY <1>1, <1>2, SMT
<1>4. i + j \in Int /\ i - j \in Int
   BY <1>1, <1>2
<1>5. (p * (i + j)) % p = 0 /\ (p * (i - j)) % p = 0
   BY <1>4, MultipleHasNoRemainder
<1>. QED BY <1>3, <1>5

(* A multiple of a multiple of p is a multiple of p.                       *)
LEMMA MultiplesCompose ==
    ASSUME NEW p \in Nat \ {0}, NEW m \in Nat \ {0}, NEW v \in Int, m % p = 0, v % m = 0
    PROVE  v % p = 0
<1>. DEFINE i == v \div m
            j == m \div p
<1>1. i \in Int /\ v = m * i
   BY DivMod
<1>2. j \in Int /\ m = p * j
   BY DivMod
<1>. HIDE DEF i, j
<1>3. v = p * (j * i) /\ j * i \in Int
   BY <1>1, <1>2, SMT
<1>. QED BY <1>3, MultipleHasNoRemainder

(* What align_to_next_page returns is the least multiple of the page size  *)
(* that is not below the value.                                            *)
LEMMA AlignIsLeastMultiple ==
    ASSUME NEW max \in Nat, NEW p \in Nat \ {0}, NEW v \in Nat,
           align_to_next_page(max, p, v) # None
    PROVE  /\ align_to_next_page(max, p, v) \in Nat
           /\ v <= align_to_next_page(max, p, v)
           /\ align_to_next_page(max, p, v) % p = 0
           /\ \A y \in Nat : v <= y /\ y % p = 0 => align_to_next_page(max, p, v) <= y
<1>. DEFINE a == align_to_next_page(max, p, v)
            w == v + p
<1>0. w \in Int
   OBVIOUS
<1>1. w % p \in 0 .. p - 1 /\ w \div p \in Int /\ w = p * (w \div p) + (w % p)
   BY <1>0, DivMod
<1>2. CASE v % p = 0
   <2>1. a = v
      BY <1>2 DEF align_to_next_page
   <2>. QED BY <1>2, <2>1
<1>3. CASE v % p # 0
   <2>1. a = w - (w % p)
      BY <1>3 DEF align_to_next_page
   <2>2. (w \div p) \in Int /\ a = p * (w \div p)
      BY <2>1, <1>1, SMT
   <2>3. a % p = 0
      BY <2>2, MultipleHasNoRemainder
   <2>4. a \in Nat /\ v < a /\ a <= v + p
      BY <2>1, <1>1
   <2>5. a # v + p
      <3>1. p % p = 0
         BY MultipleHasNoRemainder, p * 1 = p
      <3>2. SUFFICES ASSUME a = v + p PROVE FALSE
         OBVIOUS
      <3>3. (a - p) % p = 0
         BY <2>3, <2>4, <3>1, MultiplesAdd
      <3>. QED BY <3>2, <3>3, <1>3
   <2>6. ASSUME NEW y \in Nat, v <= y, y % p = 0 PROVE a <= y
      <3>. DEFINE i == w \div p
                  j == y \div p
      <3>1. j \in Int /\ y = p * j
         BY <2>6, DivMod
      <3>2. i \in Int /\ a = p * i
         BY <2>2
      <3>. HIDE DEF i, j, a
      <3>3. p * i < p * (j + 1)
         BY <3>1, <3>2, <2>4, <2>5, <2>6, SMT
      <3>4. i <= j
         <4>1. CASE i >= j + 1
            BY <4>1, <3>1, <3>2, <3>3, SMT
         <4>. QED BY <4>1, <3>1, <3>2
      <3>. QED BY <3>1, <3>2, <3>4, SMT
   <2>. QED BY <2>3, <2>4, <2>6
<1>. QED BY <1>2, <1>3

(* Rounding a u32 up to VM_MAX_PAGE_SIZE in u64 never overflows.           *)
LEMMA SpaceFacts ==
    ASSUME NEW size \in U32
    PROVE  /\ Space(size) \in Nat
           /\ size <= Space(size)
           /\ Space(size) % VM_MAX_PAGE_SIZE = 0
<1>. DEFINE max == 4 * ADDRESS_SPACE_SIZE
<1>1. /\ max \in Nat
      /\ VM_MAX_PAGE_SIZE \in Nat \ {0}
      /\ size \in Nat
      /\ size <= max - VM_MAX_PAGE_SIZE
   BY MemoryMapAssumption DEF U32
<1>2. Space(size) = align_to_next_page(max, VM_MAX_PAGE_SIZE, size)
   BY DEF Space, align_to_next_page_u64
<1>. HIDE DEF max
<1>3. (size + VM_MAX_PAGE_SIZE) % VM_MAX_PAGE_SIZE \in 0 .. VM_MAX_PAGE_SIZE - 1
   <2>1. size + VM_MAX_PAGE_SIZE \in Int
      BY <1>1
   <2>. QED BY <2>1, <1>1, DivMod
<1>4. align_to_next_page(max, VM_MAX_PAGE_SIZE, size) # None
   BY <1>1, <1>3 DEF align_to_next_page, None
<1>. QED BY <1>1, <1>2, <1>4, AlignIsLeastMultiple

(* A size rounded to a page that u32 can hold fits in the space of its     *)
(* region, because the page size divides VM_MAX_PAGE_SIZE.                 *)
LEMMA AlignedWithinSpace ==
    ASSUME NEW p \in PageSizes, NEW size \in U32, align_to_next_page_u32(p, size) # None
    PROVE  /\ align_to_next_page_u32(p, size) \in Nat
           /\ size <= align_to_next_page_u32(p, size)
           /\ align_to_next_page_u32(p, size) <= Space(size)
           /\ align_to_next_page_u32(p, size) % p = 0
<1>1. /\ ADDRESS_SPACE_SIZE - 1 \in Nat
      /\ p \in Nat \ {0}
      /\ VM_MAX_PAGE_SIZE \in Nat \ {0}
      /\ VM_MAX_PAGE_SIZE % p = 0
      /\ size \in Nat
   BY MemoryMapAssumption DEF U32, PageSizes
<1>2. Space(size) \in Nat /\ size <= Space(size) /\ Space(size) % p = 0
   BY <1>1, SpaceFacts, MultiplesCompose
<1>. QED BY <1>1, <1>2, AlignIsLeastMultiple DEF align_to_next_page_u32

(* When build succeeds the casts to u32 keep every value: the layout is    *)
(* given by plain sums of the spaces of the regions and the guards.        *)
LEMMA LayoutIsExact ==
    ASSUME NEW b \in Builder, ~ BuildFails(b)
    PROVE  /\ b.page_size \in PageSizes
           /\ \A size \in {b.ro_data_size, b.rw_data_size, b.stack_size, b.aux_data_size} :
                 align_to_next_page_u32(b.page_size, size) # None
           /\ Layout(b).rw_data_address = RwStart(b)
           /\ Layout(b).heap_base = RwStart(b) + b.rw_data_size
           /\ Layout(b).aux_data_address = AuxStart(b)
           /\ Layout(b).stack_address_high = AuxStart(b) - VM_MAX_PAGE_SIZE
           /\ Layout(b).heap_base + Layout(b).max_heap_size = AddressHigh(b) - VM_MAX_PAGE_SIZE
           /\ AddressLow(b) <= AddressHigh(b)
           /\ RwStart(b) \in U32
           /\ RwStart(b) + b.rw_data_size \in U32
           /\ AuxStart(b) \in U32
           /\ AuxStart(b) - VM_MAX_PAGE_SIZE \in U32
           /\ Layout(b).max_heap_size \in U32
<1>. DEFINE ro == Space(b.ro_data_size)
            rw == Space(b.rw_data_size)
            st == Space(b.stack_size)
            ax == Space(b.aux_data_size)
            heap == (AddressHigh(b) - AddressLow(b)) + (rw - b.rw_data_size)
<1>1. /\ b.ro_data_size \in U32 /\ b.rw_data_size \in U32
      /\ b.stack_size \in U32 /\ b.aux_data_size \in U32
   BY DEF Builder
<1>2. /\ ro \in Nat /\ rw \in Nat /\ st \in Nat /\ ax \in Nat
      /\ b.rw_data_size <= rw
   BY <1>1, SpaceFacts
<1>3. AddressLow(b) <= AddressHigh(b)
   BY <1>1, <1>2, MemoryMapAssumption
      DEF BuildFails, AddressLow, AddressHigh, RwStart, AuxStart, U32,
          VM_ADDRESS_SPACE_BOTTOM, VM_ADDRESS_SPACE_TOP
<1>4. /\ b.page_size \in PageSizes
      /\ \A size \in {b.ro_data_size, b.rw_data_size, b.stack_size, b.aux_data_size} :
            align_to_next_page_u32(b.page_size, size) # None
   BY DEF BuildFails
<1>5. \A n \in U32 : AsU32(n) = n
   BY MemoryMapAssumption, SMT DEF U32, AsU32
<1>6. /\ RwStart(b) = 2 * VM_MAX_PAGE_SIZE + ro
      /\ AddressLow(b) = 3 * VM_MAX_PAGE_SIZE + ro + rw
      /\ AuxStart(b) = ADDRESS_SPACE_SIZE - VM_MAX_PAGE_SIZE - ax
      /\ AddressHigh(b) = ADDRESS_SPACE_SIZE - 2 * VM_MAX_PAGE_SIZE - ax - st
   BY <1>2, MemoryMapAssumption
      DEF AddressLow, AddressHigh, RwStart, AuxStart,
          VM_ADDRESS_SPACE_BOTTOM, VM_ADDRESS_SPACE_TOP
<1>. HIDE DEF ro, rw, st, ax
<1>7. /\ RwStart(b) \in U32
      /\ RwStart(b) + b.rw_data_size \in U32
      /\ AuxStart(b) \in U32
      /\ AuxStart(b) - VM_MAX_PAGE_SIZE \in U32
      /\ heap \in U32
      /\ RwStart(b) + b.rw_data_size + heap = AddressHigh(b) - VM_MAX_PAGE_SIZE
   BY <1>1, <1>2, <1>3, <1>6, MemoryMapAssumption DEF U32
<1>8. /\ Layout(b).rw_data_address = RwStart(b)
      /\ Layout(b).heap_base = RwStart(b) + b.rw_data_size
      /\ Layout(b).aux_data_address = AuxStart(b)
      /\ Layout(b).stack_address_high = AuxStart(b) - VM_MAX_PAGE_SIZE
      /\ Layout(b).max_heap_size = heap
   BY <1>5, <1>7 DEF Layout, rw
<1>. QED BY <1>3, <1>4, <1>7, <1>8

(* The layout that a successful build returns has u32 fields, and its      *)
(* regions are apart.                                                      *)
LEMMA LayoutSeparated ==
    ASSUME NEW b \in Builder, ~ BuildFails(b)
    PROVE  Layout(b) \in MemoryMapType /\ Separated(Layout(b))
<1>. DEFINE m == Layout(b)
            p == b.page_size
            aligned(size) == align_to_next_page_u32(p, size)
<1>1. /\ b.ro_data_size \in U32 /\ b.rw_data_size \in U32
      /\ b.stack_size \in U32 /\ b.aux_data_size \in U32
   BY DEF Builder
<1>2. p \in PageSizes /\ p \in U32
   BY LayoutIsExact DEF Builder
<1>3. \A size \in {b.ro_data_size, b.rw_data_size, b.stack_size, b.aux_data_size} :
         /\ aligned(size) \in Nat
         /\ size <= aligned(size)
         /\ aligned(size) <= Space(size)
   BY <1>1, <1>2, LayoutIsExact, AlignedWithinSpace
<1>4. \A size \in {b.ro_data_size, b.rw_data_size, b.stack_size, b.aux_data_size} :
         size \in Nat /\ Space(size) \in Nat
   BY <1>1, SpaceFacts DEF U32
<1>5. /\ m.ro_data_size = aligned(b.ro_data_size)
      /\ m.rw_data_size = aligned(b.rw_data_size)
      /\ m.stack_size = aligned(b.stack_size)
      /\ m.aux_data_size = aligned(b.aux_data_size)
      /\ m.page_size = p
   BY DEF Layout
<1>. HIDE DEF aligned
<1>6. /\ RwStart(b) = 2 * VM_MAX_PAGE_SIZE + Space(b.ro_data_size)
      /\ AddressLow(b) = RwStart(b) + Space(b.rw_data_size) + VM_MAX_PAGE_SIZE
      /\ AuxStart(b) = VM_ADDRESS_SPACE_TOP - Space(b.aux_data_size)
      /\ AddressHigh(b) = AuxStart(b) - VM_MAX_PAGE_SIZE - Space(b.stack_size)
   BY <1>4, MemoryMapAssumption
      DEF AddressLow, AddressHigh, RwStart, AuxStart, VM_ADDRESS_SPACE_BOTTOM
<1>7. /\ VM_MAX_PAGE_SIZE \in Nat \ {0}
      /\ ADDRESS_SPACE_SIZE \in Nat
      /\ VM_ADDRESS_SPACE_TOP = ADDRESS_SPACE_SIZE - VM_MAX_PAGE_SIZE
   BY MemoryMapAssumption DEF VM_ADDRESS_SPACE_TOP
<1>8. AddressLow(b) <= AddressHigh(b)
   BY LayoutIsExact
<1>9. /\ m.rw_data_address = RwStart(b)
      /\ m.heap_base = RwStart(b) + b.rw_data_size
      /\ m.aux_data_address = AuxStart(b)
      /\ m.stack_address_high = AuxStart(b) - VM_MAX_PAGE_SIZE
      /\ m.heap_base + m.max_heap_size = AddressHigh(b) - VM_MAX_PAGE_SIZE
   BY LayoutIsExact
<1>10. /\ m.ro_data_size \in U32 /\ m.rw_data_size \in U32
       /\ m.stack_size \in U32 /\ m.aux_data_size \in U32
   BY <1>3, <1>4, <1>5, <1>6, <1>7, <1>8 DEF U32
<1>11. /\ m.rw_data_address \in U32 /\ m.heap_base \in U32 /\ m.aux_data_address \in U32
       /\ m.stack_address_high \in U32 /\ m.max_heap_size \in U32
   BY LayoutIsExact, <1>9
<1>12. m \in MemoryMapType
   BY <1>2, <1>5, <1>10, <1>11 DEF MemoryMapType, Layout
<1>. HIDE DEF m, p
<1>13. /\ ro_data_end(m) + VM_MAX_PAGE_SIZE <= m.rw_data_address
       /\ m.rw_data_address <= m.heap_base
       /\ m.heap_base <= rw_data_end(m)
       /\ rw_data_end(m) + VM_MAX_PAGE_SIZE <= stack_address_low(m)
       /\ m.heap_base + m.max_heap_size + VM_MAX_PAGE_SIZE <= stack_address_low(m)
       /\ m.stack_address_high + VM_MAX_PAGE_SIZE <= m.aux_data_address
       /\ aux_data_end(m) <= VM_ADDRESS_SPACE_TOP
   BY <1>3, <1>4, <1>5, <1>6, <1>7, <1>8, <1>9
      DEF ro_data_end, rw_data_end, stack_address_low, aux_data_end, ro_data_address,
          VM_ADDRESS_SPACE_BOTTOM
<1>. QED BY <1>12, <1>13 DEF Separated, m

(* The boundaries of the regions of a successful build are multiples of    *)
(* the page size: those of the regions' spaces because they are multiples  *)
(* of VM_MAX_PAGE_SIZE, those inside a space because sizes are rounded.    *)
LEMMA LayoutAligned ==
    ASSUME NEW b \in Builder, ~ BuildFails(b)
    PROVE  \A a \in Boundaries(Layout(b)) : a % Layout(b).page_size = 0
<1>. DEFINE m == Layout(b)
            p == b.page_size
            G == VM_MAX_PAGE_SIZE
            aligned(size) == align_to_next_page_u32(p, size)
            Multiple(x) == x \in Int /\ x % p = 0
<1>1. /\ b.ro_data_size \in U32 /\ b.rw_data_size \in U32
      /\ b.stack_size \in U32 /\ b.aux_data_size \in U32
   BY DEF Builder
<1>2. p \in PageSizes
   BY LayoutIsExact
<1>3. /\ p \in Nat \ {0} /\ G \in Nat \ {0} /\ G % p = 0
      /\ ADDRESS_SPACE_SIZE \in Nat /\ ADDRESS_SPACE_SIZE % G = 0
   BY <1>2, MemoryMapAssumption DEF PageSizes
<1>4. \A x, y \in Int : Multiple(x) /\ Multiple(y) => Multiple(x + y) /\ Multiple(x - y)
   BY <1>3, MultiplesAdd
<1>5. Multiple(G) /\ Multiple(ADDRESS_SPACE_SIZE)
   BY <1>3, MultiplesCompose
<1>6. \A size \in {b.ro_data_size, b.rw_data_size, b.stack_size, b.aux_data_size} :
         Multiple(Space(size)) /\ Multiple(aligned(size))
   <2>1. \A size \in U32 : Space(size) \in Int /\ Space(size) % p = 0
      BY <1>3, SpaceFacts, MultiplesCompose
   <2>. QED BY <1>1, <1>2, <2>1, LayoutIsExact, AlignedWithinSpace
<1>7. /\ m.ro_data_size = aligned(b.ro_data_size)
      /\ m.rw_data_size = aligned(b.rw_data_size)
      /\ m.stack_size = aligned(b.stack_size)
      /\ m.aux_data_size = aligned(b.aux_data_size)
      /\ m.page_size = p
   BY DEF Layout
<1>8. /\ m.rw_data_address = RwStart(b)
      /\ m.aux_data_address = AuxStart(b)
      /\ m.stack_address_high = AuxStart(b) - G
      /\ m.heap_base + m.max_heap_size = AddressHigh(b) - G
   BY LayoutIsExact
<1>. HIDE DEF m, aligned, Multiple
<1>9. \A x, y : Multiple(x) /\ Multiple(y) => Multiple(x + y) /\ Multiple(x - y)
   BY <1>4 DEF Multiple
<1>10. Multiple(RwStart(b)) /\ Multiple(AuxStart(b)) /\ Multiple(AuxStart(b) - G)
   BY <1>5, <1>6, <1>9 DEF RwStart, AuxStart, VM_ADDRESS_SPACE_BOTTOM, VM_ADDRESS_SPACE_TOP
<1>11. Multiple(AddressHigh(b) - G)
   BY <1>5, <1>6, <1>9, <1>10 DEF AddressHigh
<1>12. \A a \in Boundaries(m) : Multiple(a)
   BY <1>5, <1>6, <1>7, <1>8, <1>9, <1>10, <1>11
      DEF Boundaries, ro_data_address, ro_data_end, rw_data_end, stack_address_low,
          aux_data_end, VM_ADDRESS_SPACE_BOTTOM
<1>. QED BY <1>7, <1>12 DEF m, Multiple

-----------------------------------------------------------------------------

Safe == TypeOK /\ RegionsSeparated /\ RegionsPageAligned

(* Safe is inductive: the setters drop the map, build returns one that the *)
(* lemmas describe.                                                        *)
LEMMA SafeStep == Safe /\ [Next]_vars => Safe'
<1>. SUFFICES ASSUME Safe, [Next]_vars PROVE Safe'
   OBVIOUS
<1>. USE DEF Safe
<1>1. builder \in Builder
   BY DEF TypeOK
<1>2. ASSUME NEW value \in Sizes,
             RoDataSize(value) \/ RwDataSize(value) \/ StackSize(value) \/ AuxDataSize(value)
      PROVE  Safe'
   <2>1. value \in U32
      BY BuilderAssumption
   <2>2. builder' \in Builder
      BY <1>1, <1>2, <2>1 DEF Builder, RoDataSize, RwDataSize, StackSize, AuxDataSize
   <2>3. map' = NoMap
      BY <1>2 DEF RoDataSize, RwDataSize, StackSize, AuxDataSize
   <2>. QED BY <2>2, <2>3 DEF TypeOK, RegionsSeparated, RegionsPageAligned, NoMap
<1>3. CASE Build
   <2>1. builder' \in Builder
      BY <1>1, <1>3 DEF Build
   <2>2. CASE BuildFails(builder)
      <3>1. map' = NoMap
         BY <1>3, <2>2 DEF Build
      <3>. QED BY <2>1, <3>1 DEF TypeOK, RegionsSeparated, RegionsPageAligned, NoMap
   <2>3. CASE ~ BuildFails(builder)
      <3>1. map' = [built |-> TRUE, layout |-> Layout(builder)]
         BY <1>3, <2>3 DEF Build, Built
      <3>2. Layout(builder) \in MemoryMapType /\ Separated(Layout(builder))
         BY <1>1, <2>3, LayoutSeparated
      <3>3. \A a \in Boundaries(Layout(builder)) : a % Layout(builder).page_size = 0
         BY <1>1, <2>3, LayoutAligned
      <3>. QED BY <2>1, <3>1, <3>2, <3>3 DEF TypeOK, RegionsSeparated, RegionsPageAligned
   <2>. QED BY <2>2, <2>3
<1>4. CASE UNCHANGED vars
   BY <1>4 DEF vars, TypeOK, RegionsSeparated, RegionsPageAligned
<1>. QED BY <1>2, <1>3, <1>4 DEF Next

(* Nothing has been built initially, and all sizes are zero.               *)
LEMMA SafeInit == Init => Safe
<1>. SUFFICES ASSUME Init PROVE Safe
   OBVIOUS
<1>1. 0 \in U32
   BY MemoryMapAssumption DEF U32
<1>2. builder \in Builder /\ map = NoMap
   BY <1>1, BuilderAssumption DEF Init, Builder
<1>. QED BY <1>2 DEF Safe, TypeOK, RegionsSeparated, RegionsPageAligned, NoMap

(* For every scaling of the constants, whatever sizes a program blob asks  *)
(* for: the maps that MemoryMapBuilder::build returns have u32 fields and  *)
(* keep the regions, the heap at its largest included, a guard apart.      *)
THEOREM RegionsSeparatedTheorem == Spec => [](TypeOK /\ RegionsSeparated)
<1>1. Spec => []Safe
   BY SafeInit, SafeStep, PTL DEF Spec
<1>2. Safe => TypeOK /\ RegionsSeparated
   BY DEF Safe
<1>. QED BY <1>1, <1>2, PTL

(* And their regions, the largest heap included, end on page boundaries.   *)
THEOREM RegionsPageAlignedTheorem == Spec => []RegionsPageAligned
<1>1. Spec => []Safe
   BY SafeInit, SafeStep, PTL DEF Spec
<1>2. Safe => RegionsPageAligned
   BY DEF Safe
<1>. QED BY <1>1, <1>2, PTL
=============================================================================
