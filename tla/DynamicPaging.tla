---------------------------- MODULE DynamicPaging ----------------------------
(***************************************************************************)
(* Dynamic paging in the Linux sandbox: the host's two page sets, the      *)
(* memory file the host and the worker share, and the worker's pages as    *)
(* the kernel and userfaultfd show them to the guest, from loading a       *)
(* module into a worker to recycling it.  The guest never runs while the   *)
(* host works on its memory (ExclusiveVmCtx in WorkerProtocol), so each    *)
(* call is one step.  A page set is the set of its pages, which is what    *)
(* PageSet stands for (RepresentsMembers).                                 *)
(***************************************************************************)
EXTENDS Naturals, FiniteSets

CONSTANTS Pages,        \* the pages from 0x10000 up
          GroupSize,    \* PAGES_PER_GROUP
          Values, Absent,
          AuxPages,     \* where the aux data of modules without dynamic paging is
          Failures      \* the system calls that may fail

ASSUME DynamicPagingAssumption ==
  /\ Pages \subseteq Nat \ {0} /\ GroupSize \in Nat \ {0} /\ 0 \in Values
  /\ AuxPages \subseteq Pages /\ Absent \notin Values
  /\ Failures \subseteq {"madvise", "zeropage", "writeprotect"}

VARIABLES page_set_present, page_set_writable,
          mem,      \* the memory file: a value, or Absent for a hole
          wp,       \* the pages the worker has write-protected by userfaultfd
          module,   \* "none", "dynamic" or "static"
          result    \* the last answer to the host

vars == <<page_set_present, page_set_writable, mem, wp, module, result>>
kernel == <<mem, wp>>
sets == <<page_set_present, page_set_writable>>

Backed == {p \in Pages : mem[p] # Absent}
Ok(op) == [op |-> op, status |-> "ok"]
OutOfRange(op) == [op |-> op, status |-> "out of range"]
Failed(op) == [op |-> op, status |-> "failed"]
Segfault(p, is_write_protected) ==
  [op |-> "guest", status |-> "segfault", page |-> p, is_write_protected |-> is_write_protected]

Init ==
  /\ page_set_present = {} /\ page_set_writable = {}
  /\ mem = [p \in Pages |-> Absent] /\ wp = {}
  /\ module = "none" /\ result = Ok("reset")
-----------------------------------------------------------------------------
(* PageSet::is_whole_region_empty: an unaligned end counts as soon as a page of
   it is there, the groups in the middle only when all of them are full. *)
is_whole_region_empty(set, range) ==
  LET start(p) == (p \div GroupSize) * GroupSize
      inner == {p \in range : start(p)..(start(p) + GroupSize - 1) \subseteq range}
  IN /\ inner = {} \/ ~(inner \subseteq set)
     /\ (range \ inner) \cap set = {}

(* The kernel: punching a hole; filling holes with zeros in ascending order up
   to a page that exists already; write-protecting. *)
madvise_remove(m, range) == [p \in Pages |-> IF p \in range THEN Absent ELSE m[p]]
Filled(m, range, last) == [p \in Pages |-> IF p \in range /\ p < last THEN 0 ELSE m[p]]
FirstExisting(m, range) ==
  CHOOSE p \in range : m[p] # Absent /\ \A q \in range : m[q] # Absent => p <= q

(* zero_memory with a protection.  With `m` the memory file after the optional
   madvise_remove, uffdio_zeropage succeeds if every page of the range is a
   hole; otherwise, or if it fails on its own, a prefix is filled. *)
ZeroPage(range, m) ==
  IF \A p \in range : m[p] = Absent
    THEN \/ /\ mem' = [p \in Pages |-> IF p \in range THEN 0 ELSE m[p]]
            /\ result' = Ok("zero protected")
         \/ /\ "zeropage" \in Failures
            /\ \E last \in range : mem' = Filled(m, range, last)
            /\ result' = Failed("zero protected")
    ELSE /\ mem' = Filled(m, range, FirstExisting(m, range))
         /\ result' = Failed("zero protected")

(* Mutant: pages that are made read-only stay in page_set_writable. *)
DropWritableNever(old, range) == page_set_writable

DropWritable(old, range) == IF old THEN page_set_writable \ range ELSE page_set_writable

(* zero_memory(.., Some(Read)).  A failed madvise_remove changes nothing. *)
ZeroRead(range) ==
  LET old == ~is_whole_region_empty(page_set_present, range)
      m == IF old THEN madvise_remove(mem, range) ELSE mem
      fill == {p \in range : m[p] = Absent}
  IN /\ module = "dynamic"
     /\ UNCHANGED module
     /\ \/ /\ ZeroPage(range, m)
           /\ page_set_writable' = DropWritable(old, range)
           /\ IF result'.status = "ok"
                THEN page_set_present' = page_set_present \cup range /\ wp' = wp \cup range
                ELSE page_set_present' = page_set_present \ range /\ wp' = wp \ fill
        \/ /\ fill = range /\ "writeprotect" \in Failures
           /\ mem' = [p \in Pages |-> IF p \in range THEN 0 ELSE m[p]]
           /\ wp' = wp \ range
           /\ page_set_present' = page_set_present \cup range
           /\ page_set_writable' = DropWritable(old, range)
           /\ result' = Failed("zero protected")
        \/ /\ old /\ "madvise" \in Failures
           /\ result' = Failed("zero protected")
           /\ UNCHANGED <<kernel, sets>>

(* Mutant: the last page is the one that `address + length` is on. *)
ZeroReadWritePastEnd(range) ==
  /\ module = "dynamic"
  /\ UNCHANGED <<module, wp>>
  /\ ZeroPage(range, madvise_remove(mem, range))
  /\ page_set_present' = page_set_present \cup range \cup {p + 1 : p \in range}
  /\ page_set_writable' = page_set_writable \cup range \cup {p + 1 : p \in range}

(* zero_memory(.., Some(ReadWrite)) *)
ZeroReadWrite(range) ==
  LET old == ~is_whole_region_empty(page_set_present, range)
      m == IF old THEN madvise_remove(mem, range) ELSE mem
  IN /\ module = "dynamic"
     /\ UNCHANGED module
     /\ \/ /\ ZeroPage(range, m)
           /\ wp' = wp \ {p \in range : m[p] = Absent}
           /\ IF result'.status = "ok"
                THEN /\ page_set_present' = page_set_present \cup range
                     /\ page_set_writable' = page_set_writable \cup range
                ELSE /\ page_set_present' = page_set_present \ range
                     /\ page_set_writable' = page_set_writable \ range
        \/ /\ old /\ "madvise" \in Failures
           /\ result' = Failed("zero protected")
           /\ UNCHANGED <<kernel, sets>>

(* write_memory, and zero_memory without a protection *)
Write(range, value) ==
  /\ module = "dynamic"
  /\ IF range \subseteq page_set_writable
       THEN /\ mem' = [p \in Pages |-> IF p \in range THEN value ELSE mem[p]]
            /\ result' = Ok("write")
       ELSE result' = OutOfRange("write") /\ UNCHANGED mem
  /\ UNCHANGED <<sets, wp, module>>

(* read_memory_into.  Reading a hole through the host's own mapping would
   give zeros. *)
Read(range) ==
  /\ module = "dynamic"
  /\ result' = IF range \subseteq page_set_present
                 THEN [op |-> "read", status |-> "ok",
                       data |-> [p \in range |-> IF mem[p] = Absent THEN 0 ELSE mem[p]]]
                 ELSE OutOfRange("read")
  /\ UNCHANGED <<kernel, sets, module>>

change_memory_protection(range, read_only) ==
  /\ module = "dynamic"
  /\ \/ /\ range \subseteq page_set_present
        /\ result' = Ok("protect")
        /\ IF read_only
             THEN wp' = wp \cup range /\ page_set_writable' = page_set_writable \ range
             ELSE wp' = wp \ range /\ page_set_writable' = page_set_writable \cup range
     \/ /\ ~(range \subseteq page_set_present)
        /\ result' = OutOfRange("protect")
        /\ UNCHANGED <<wp, page_set_writable>>
     \/ /\ range \subseteq page_set_present /\ "writeprotect" \in Failures
        /\ result' = Failed("protect")
        /\ UNCHANGED <<wp, page_set_writable>>
  /\ UNCHANGED <<page_set_present, mem, module>>

(* Mutant: the pages leave the sets but not the memory file. *)
FreePagesSetsOnly(range, op) ==
  /\ page_set_present' = page_set_present \ range
  /\ page_set_writable' = page_set_writable \ range
  /\ result' = Ok(op)
  /\ UNCHANGED kernel

(* free_pages; the whole memory is what reset_memory and recycle free. *)
FreePages(range, op) ==
  \/ /\ mem' = madvise_remove(mem, range)
     /\ wp' = wp \ range
     /\ page_set_present' = page_set_present \ range
     /\ page_set_writable' = page_set_writable \ range
     /\ result' = Ok(op)
  \/ /\ "madvise" \in Failures
     /\ result' = Failed(op)
     /\ UNCHANGED <<kernel, sets>>

Free(range) == module = "dynamic" /\ FreePages(range, "free") /\ UNCHANGED module
Reset == module = "dynamic" /\ FreePages(Pages, "reset") /\ UNCHANGED module
-----------------------------------------------------------------------------
(* The guest.  A missing page, or a store to a write-protected one, raises
   SIGBUS in the worker and becomes a segfault on the host. *)
GuestLoad(touched) ==
  /\ module = "dynamic"
  /\ \/ /\ touched \subseteq Backed
        /\ result' = [op |-> "guest", status |-> "ok", data |-> [p \in touched |-> mem[p]]]
     \/ \E p \in touched \ Backed : result' = Segfault(p, FALSE)
  /\ UNCHANGED <<kernel, sets, module>>

GuestStore(touched, value) ==
  /\ module = "dynamic"
  /\ \/ /\ touched \subseteq Backed \ wp
        /\ mem' = [p \in Pages |-> IF p \in touched THEN value ELSE mem[p]]
        /\ result' = Ok("guest")
     \/ /\ \E p \in touched \ (Backed \ wp) : result' = Segfault(p, p \in Backed)
        /\ UNCHANGED mem
  /\ UNCHANGED <<sets, wp, module>>
-----------------------------------------------------------------------------
(* Loading a module into a worker that has none: ext_load_program maps the
   memory file anew, and with dynamic paging it is registered with userfaultfd. *)
LoadModule(kind) ==
  /\ module = "none"
  /\ module' = kind /\ wp' = {}
  /\ UNCHANGED <<sets, mem, result>>

(* write_memory to the aux data, which a module without dynamic paging maps
   from the memory file *)
WriteAux(p, value) ==
  /\ module = "static" /\ p \in AuxPages
  /\ mem' = [mem EXCEPT ![p] = value]
  /\ UNCHANGED <<sets, wp, module, result>>


(* recycle: a worker whose memory could not be freed is thrown away, and a new
   one starts from Init. *)
Recycle ==
  /\ module # "none" /\ module' = "none"
  /\ IF module = "dynamic"
       THEN /\ mem' = [p \in Pages |-> Absent] /\ wp' = {}
            /\ page_set_present' = {} /\ page_set_writable' = {}
            /\ result' = Ok("reset")
       ELSE UNCHANGED <<kernel, sets, result>>

Ranges == {r \in {{p \in Pages : lo <= p /\ p <= hi} : lo \in Pages, hi \in Pages} : r # {}}
Touchable == {r \in Ranges : \E p \in Pages : r \subseteq {p, p + 1}}

Next ==
  \/ \E r \in Ranges : ZeroRead(r) \/ ZeroReadWrite(r) \/ Read(r) \/ Free(r)
  \/ \E r \in Ranges, v \in Values : Write(r, v)
  \/ \E r \in Ranges, ro \in BOOLEAN : change_memory_protection(r, ro)
  \/ \E r \in Touchable : GuestLoad(r) \/ \E v \in Values : GuestStore(r, v)
  \/ \E kind \in {"dynamic", "static"} : LoadModule(kind)
  \/ \E p \in AuxPages, v \in Values : WriteAux(p, v)
  \/ Reset \/ Recycle

Spec == Init /\ [][Next]_vars
-----------------------------------------------------------------------------
(* Type correctness. *)
TypeOK ==
  /\ page_set_present \subseteq Pages /\ page_set_writable \subseteq Pages /\ wp \subseteq Pages
  /\ mem \in [Pages -> Values \cup {Absent}]
  /\ module \in {"none", "dynamic", "static"}

(* What the page sets promise is there: every page that the host may read or
   write is backed by memory, so neither read_memory nor write_memory touches a
   hole, even after a call that failed half-way.  (That a page which may be
   written may be read does not hold: a zero_memory that fails because
   is_whole_region_empty missed a page takes it out of page_set_present only.) *)
HostSetsSound == page_set_present \cup page_set_writable \subseteq Backed

(* The pages that the guest may use beyond what the host knows of: it can touch
   them without a segfault and they are not in page_set_present, or it can write
   them and they are not in page_set_writable. *)
Excess == Backed \ (page_set_present \cap (wp \cup page_set_writable))

(* No call that succeeds lets the guest use a page that the host does not know
   of.  Only a zero_memory that fails half-way does, which the host is told, and
   a module without dynamic paging whose aux data stays in the memory file when
   its worker is recycled, as recycle frees the pages of dynamic modules only. *)
GuestWithinSets ==
  [][IF module = "dynamic"
       THEN \/ Excess' \subseteq Excess
            \/ result' = Failed("zero protected")
       ELSE Excess' \ Excess \subseteq AuxPages]_vars

(* Every answer to the host and every guest access is one that the
   interpreter's memory gives, so that the two backends can be crosschecked.
   Two exceptions: a call that failed (the interpreter's never do), and, while
   there are pages that only the guest knows of (Excess: what a failed call or
   the aux data of another module left in the file), guest accesses and writes. *)
Reference == INSTANCE PagedMemory WITH
  pages <- [p \in Pages |->
              IF p \in page_set_present
                THEN [is_read_only |-> p \notin page_set_writable, data |-> mem[p]] ELSE Absent]

(* zero_memory_with_memory_protection "can also be used to preemptively
   initialize pages for which no segfault is currently triggered": it does not
   fail because of what is in the region already. *)
ZeroProtectedSucceeds == result.op = "zero protected" => result.status = "ok"
=============================================================================
