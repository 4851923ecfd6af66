----------------------------- MODULE PagedMemory -----------------------------
(***************************************************************************)
(* Guest memory under dynamic paging as the interpreter's DynamicMemory    *)
(* implements it, and as the other backends are expected to: which pages   *)
(* there are, which are read-only, and what every call answers.  A page is *)
(* one cell; a call works on the pages lo..hi.                             *)
(***************************************************************************)
EXTENDS Naturals

CONSTANTS Pages, Values, Absent

VARIABLES pages,    \* the pages, by page number
          result    \* the last answer

pagedVars == <<pages, result>>

Present(p) == pages[p] # Absent
Writable(p) == Present(p) /\ ~pages[p].is_read_only
Page(read_only, value) == [is_read_only |-> read_only, data |-> value]
Fill(range, f(_)) == pages' = [p \in Pages |-> IF p \in range THEN f(p) ELSE pages[p]]

Ok(op) == [op |-> op, status |-> "ok"]
OutOfRange(op) == [op |-> op, status |-> "out of range"]
Segfault(p, is_write_protected) ==
  [op |-> "guest", status |-> "segfault", page |-> p, is_write_protected |-> is_write_protected]

Init == pages = [p \in Pages |-> Absent] /\ result = Ok("reset")

ZeroProtected(range, read_only) ==
  /\ Fill(range, LAMBDA p : Page(read_only, 0))
  /\ result' = Ok("zero protected")

(* write_memory; zero_memory without a protection writes zeros. *)
Write(range, value) ==
  \/ /\ \A p \in range : Writable(p)
     /\ Fill(range, LAMBDA p : Page(FALSE, value))
     /\ result' = Ok("write")
  \/ /\ \E p \in range : ~Writable(p)
     /\ result' = OutOfRange("write")
     /\ UNCHANGED pages

Read(range) ==
  /\ result' = IF \A p \in range : Present(p)
                 THEN [op |-> "read", status |-> "ok", data |-> [p \in range |-> pages[p].data]]
                 ELSE OutOfRange("read")
  /\ UNCHANGED pages

(* The interpreter changes the pages before the missing one and then fails; a
   backend may as well change fewer of them. *)
ChangeProtection(range, read_only) ==
  \/ /\ \A p \in range : Present(p)
     /\ Fill(range, LAMBDA p : Page(read_only, pages[p].data))
     /\ result' = Ok("protect")
  \/ \E missing \in range :
       /\ ~Present(missing) /\ \A p \in range : p < missing => Present(p)
       /\ \E last \in {p \in range : p <= missing} :
            Fill({p \in range : p < last}, LAMBDA p : Page(read_only, pages[p].data))
       /\ result' = OutOfRange("protect")

FreePages(range) ==
  /\ Fill(range, LAMBDA p : Absent)
  /\ result' = Ok("free")

ResetMemory ==
  /\ pages' = [p \in Pages |-> Absent]
  /\ result' = Ok("reset")

(* A load or a store touches one page or two adjacent ones. *)
GuestLoad(touched) ==
  /\ \/ /\ \A p \in touched : Present(p)
        /\ result' = [op |-> "guest", status |-> "ok", data |-> [p \in touched |-> pages[p].data]]
     \/ \E p \in touched : ~Present(p) /\ result' = Segfault(p, FALSE)
  /\ UNCHANGED pages

GuestStore(touched, value) ==
  \/ /\ \A p \in touched : Writable(p)
     /\ Fill(touched, LAMBDA p : Page(FALSE, value))
     /\ result' = Ok("guest")
  \/ /\ \E p \in touched : ~Writable(p) /\ result' = Segfault(p, Present(p))
     /\ UNCHANGED pages

Ranges == {r \in {{p \in Pages : lo <= p /\ p <= hi} : lo \in Pages, hi \in Pages} : r # {}}
Touchable == {r \in Ranges : \E p \in Pages : r \subseteq {p, p + 1}}

Next ==
  \/ \E r \in Ranges, ro \in BOOLEAN : ZeroProtected(r, ro) \/ ChangeProtection(r, ro)
  \/ \E r \in Ranges, v \in Values : Write(r, v)
  \/ \E r \in Ranges : Read(r) \/ FreePages(r)
  \/ \E r \in Touchable : GuestLoad(r) \/ \E v \in Values : GuestStore(r, v)
  \/ ResetMemory

Spec == Init /\ [][Next]_pagedVars
=============================================================================
