------------------------------ MODULE PageSet ------------------------------
(***************************************************************************)
(* The two-level bitset with which the sandboxes track the guest's pages   *)
(* under dynamic paging.  Pages come in groups; a group is filled, partial *)
(* (its bits in `pages` are meaningful) or empty (its bits in `pages` may  *)
(* be stale).  A bitset is modelled as the set of its set bits, and every  *)
(* range operation on it goes through align_range as in the code.          *)
(***************************************************************************)
EXTENDS Naturals, FiniteSets

CONSTANTS A,            \* M::alignment(): bits per word, hence pages per group
          GROUP_COUNT   \* number of groups

ASSUME PageSetAssumption == A \in Nat \ {0} /\ GROUP_COUNT \in Nat \ {0} /\ GROUP_COUNT % A = 0

PAGE_COUNT == A * GROUP_COUNT

VARIABLES pages, groups_partial, groups_filled,
          panicked,   \* an assertion of the code failed
          members     \* reference: the pages inserted and not removed since

vars == <<pages, groups_partial, groups_filled, panicked, members>>
-----------------------------------------------------------------------------
Opt(cond, value) == IF cond THEN value ELSE 0
Least(a, b) == IF a < b THEN a ELSE b

AlignRange(start0, end) ==
  LET start == Least(start0, end)
      hasAligned == end \div A > (start + A - 1) \div A
      alignedEnd == Opt(hasAligned, end \div A)
      alignedStart == Opt(hasAligned, (start + A - 1) \div A)
      hasLo == start % A # 0 \/ ~hasAligned
      loStart == Opt(hasLo, start)
      loGroup == loStart \div A
      loEnd == Opt(hasLo, Least(loGroup * A + A, end))
      hasHi == end % A # 0 /\ end > loEnd
      hiEnd == Opt(hasHi, end)
  IN [aligned_start_group |-> alignedStart, aligned_end_group |-> alignedEnd,
      unaligned_lo_start |-> loStart, unaligned_lo_end |-> loEnd, unaligned_lo_group |-> loGroup,
      unaligned_hi_start |-> (hiEnd \div A) * A, unaligned_hi_end |-> hiEnd,
      unaligned_hi_group |-> hiEnd \div A]

(* The three parts of an aligned range, as sets of bits. *)
AlignedBits(r) == (r.aligned_start_group * A)..(r.aligned_end_group * A - 1)
LoBits(r) == r.unaligned_lo_start..(r.unaligned_lo_end - 1)
HiBits(r) == r.unaligned_hi_start..(r.unaligned_hi_end - 1)
RangeBits(r) == AlignedBits(r) \cup LoBits(r) \cup HiBits(r)

(* BitSet::insert_range, its assertion, remove_range and contains_range, for
   a bitset of `words` words. *)
InsertRange(set, start, end) == set \cup RangeBits(AlignRange(start, end))
InsertRangeAssert(words, start, end) ==
  LET r == AlignRange(start, end)
  IN /\ r.unaligned_lo_group < words /\ r.unaligned_hi_group < words
     /\ r.aligned_end_group <= words /\ r.aligned_start_group < words
     /\ r.aligned_start_group <= r.aligned_end_group
RemoveRange(set, start, end) == set \ RangeBits(AlignRange(start, end))
ContainsRange(set, words, start, end) ==
  LET r == AlignRange(start, end)
  IN start = end \/ (r.aligned_end_group <= words /\ RangeBits(r) \subseteq set)

GroupBits(group) == (group * A)..(group * A + A - 1)
-----------------------------------------------------------------------------
Init ==
  /\ pages = {} /\ groups_partial = {} /\ groups_filled = {}
  /\ panicked = FALSE /\ members = {}

(* Mutant: stale bits of a group that was empty are kept. *)
InsertUnalignedKeepsStale(s, group, bits) ==
  LET merged == s.pages \cup bits
  IN IF GroupBits(group) \subseteq merged
       THEN [pages |-> merged, partial |-> s.partial \ {group}, filled |-> s.filled \cup {group}]
       ELSE [s EXCEPT !.pages = merged, !.partial = @ \cup {group}]

(* The treatment of one unaligned end in insert_exclusive. *)
InsertUnaligned(s, group, bits) ==
  LET fresh == IF group \in s.partial THEN s.pages ELSE s.pages \ GroupBits(group)
      merged == fresh \cup bits
  IN IF bits = {} THEN s
     ELSE IF GroupBits(group) \subseteq merged
       THEN [pages |-> merged, partial |-> s.partial \ {group}, filled |-> s.filled \cup {group}]
       ELSE [s EXCEPT !.pages = merged, !.partial = @ \cup {group}]

Current == [pages |-> pages, partial |-> groups_partial, filled |-> groups_filled]

Become(s) == pages' = s.pages /\ groups_partial' = s.partial /\ groups_filled' = s.filled

insert_exclusive(start, end) ==
  LET r == AlignRange(start, end)
      s1 == [Current EXCEPT !.filled = InsertRange(@, r.aligned_start_group, r.aligned_end_group)]
      s2 == InsertUnaligned(s1, r.unaligned_lo_group, LoBits(r))
  IN InsertUnaligned(s2, r.unaligned_hi_group, HiBits(r))

(* The insert_range calls that insert_exclusive makes. *)
InsertAsserts(start, end) ==
  LET r == AlignRange(start, end)
  IN /\ InsertRangeAssert(GROUP_COUNT \div A, r.aligned_start_group, r.aligned_end_group)
     /\ LoBits(r) # {} => InsertRangeAssert(GROUP_COUNT, r.unaligned_lo_start, r.unaligned_lo_end)
     /\ HiBits(r) # {} => InsertRangeAssert(GROUP_COUNT, r.unaligned_hi_start, r.unaligned_hi_end)

(* Mutant: the inclusive range is made exclusive twice. *)
InsertPastEnd(min, max) ==
  /\ ~panicked
  /\ Become(insert_exclusive(min, max + 2))
  /\ members' = members \cup (min..max)
  /\ UNCHANGED panicked

Insert(min, max) ==
  /\ ~panicked
  /\ panicked' = ~InsertAsserts(min, max + 1)
  /\ Become(insert_exclusive(min, max + 1))
  /\ members' = members \cup (min..max)

(* The treatment of one unaligned end in remove_exclusive, whose bits have
   been removed from `pages` already; a filled group becomes a partial one
   with every other bit of the group set. *)
RemoveUnaligned(s, group, bits) ==
  IF bits = {} THEN s
  ELSE IF group \in s.filled
    THEN [pages |-> s.pages \cup (GroupBits(group) \ bits),
          partial |-> s.partial \cup {group}, filled |-> s.filled \ {group}]
  ELSE IF s.pages \cap GroupBits(group) = {} THEN [s EXCEPT !.partial = @ \ {group}]
  ELSE s

remove_exclusive(start, end) ==
  LET r == AlignRange(start, end)
      s1 == [pages |-> RemoveRange(RemoveRange(pages, r.unaligned_lo_start, r.unaligned_lo_end),
                                   r.unaligned_hi_start, r.unaligned_hi_end),
             partial |-> RemoveRange(groups_partial, r.aligned_start_group, r.aligned_end_group),
             filled |-> RemoveRange(groups_filled, r.aligned_start_group, r.aligned_end_group)]
      s2 == RemoveUnaligned(s1, r.unaligned_lo_group, LoBits(r))
  IN RemoveUnaligned(s2, r.unaligned_hi_group, HiBits(r))

(* The two or three insert_range calls with which remove_exclusive restores
   the bits around a hole in a filled group. *)
RemoveAsserts(start, end) ==
  LET r == AlignRange(start, end)
      lo == r.unaligned_lo_group
      hi == r.unaligned_hi_group
  IN /\ LoBits(r) # {} /\ lo \in groups_filled =>
          /\ InsertRangeAssert(GROUP_COUNT, lo * A, r.unaligned_lo_start)
          /\ InsertRangeAssert(GROUP_COUNT, r.unaligned_lo_end, (lo + 1) * A)
     /\ HiBits(r) # {} /\ hi \in groups_filled =>
          InsertRangeAssert(GROUP_COUNT, r.unaligned_hi_end, (hi + 1) * A)

(* The failing assertion is the last thing the removal does, so the sets are
   the same with it and without it. *)
Remove(min, max) ==
  /\ ~panicked
  /\ panicked' = ~RemoveAsserts(min, max + 1)
  /\ Become(remove_exclusive(min, max + 1))
  /\ members' = members \ (min..max)

(* The pages are not touched: all of their bits become stale. *)
Clear ==
  /\ ~panicked
  /\ groups_filled' = {} /\ groups_partial' = {} /\ members' = {}
  /\ UNCHANGED <<pages, panicked>>

contains_partial_all(group, mask) ==
  group \in groups_filled \/ (group \in groups_partial /\ mask \subseteq pages)
contains_partial_any(group, mask) ==
  group \in groups_filled \/ (group \in groups_partial /\ mask \cap pages # {})

(* Mutant: one page of an unaligned end is taken for all of them. *)
ContainsAny(min, max) ==
  LET r == AlignRange(min, max + 1)
  IN /\ ContainsRange(groups_filled, GROUP_COUNT \div A, r.aligned_start_group, r.aligned_end_group)
     /\ LoBits(r) # {} => contains_partial_any(r.unaligned_lo_group, LoBits(r))
     /\ HiBits(r) # {} => contains_partial_any(r.unaligned_hi_group, HiBits(r))

Contains(min, max) ==
  LET r == AlignRange(min, max + 1)
  IN /\ ContainsRange(groups_filled, GROUP_COUNT \div A, r.aligned_start_group, r.aligned_end_group)
     /\ LoBits(r) # {} => contains_partial_all(r.unaligned_lo_group, LoBits(r))
     /\ HiBits(r) # {} => contains_partial_all(r.unaligned_hi_group, HiBits(r))

is_whole_region_empty(min, max) ==
  LET r == AlignRange(min, max + 1)
  IN /\ ~( /\ r.aligned_start_group # r.aligned_end_group
           /\ ContainsRange(groups_filled, GROUP_COUNT \div A, r.aligned_start_group, r.aligned_end_group))
     /\ ~(LoBits(r) # {} /\ contains_partial_any(r.unaligned_lo_group, LoBits(r)))
     /\ ~(HiBits(r) # {} /\ contains_partial_any(r.unaligned_hi_group, HiBits(r)))

Ranges == {range \in (0..(PAGE_COUNT - 1)) \X (0..(PAGE_COUNT - 1)) : range[1] <= range[2]}

Next ==
  \/ Clear
  \/ \E range \in Ranges : \/ Insert(range[1], range[2])
                           \/ Remove(range[1], range[2])

Spec == Init /\ [][Next]_vars
-----------------------------------------------------------------------------
(* The bitsets hold only bits that exist. *)
TypeOK ==
  /\ pages \subseteq 0..(PAGE_COUNT - 1) /\ members \subseteq 0..(PAGE_COUNT - 1)
  /\ groups_partial \subseteq 0..(GROUP_COUNT - 1)
  /\ groups_filled \subseteq 0..(GROUP_COUNT - 1)
  /\ panicked \in BOOLEAN

(* What the three bitsets together stand for is exactly the set of pages put
   in and not taken out since, however stale `pages` is. *)
RepresentsMembers ==
  members = {p \in 0..(PAGE_COUNT - 1) :
               p \div A \in groups_filled \/ (p \div A \in groups_partial /\ p \in pages)}

(* `contains` answers for every range as the set would, and a region that
   is_whole_region_empty calls non-empty really has a page in it (the caller
   then throws the backing memory away): stale bits of an emptied or cleared
   group never count. *)
QueriesAreSound ==
  \A range \in Ranges :
    /\ Contains(range[1], range[2]) <=> range[1]..range[2] \subseteq members
    /\ ~is_whole_region_empty(range[1], range[2]) => (range[1]..range[2]) \cap members # {}
=============================================================================
