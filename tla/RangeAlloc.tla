----------------------------- MODULE RangeAlloc -----------------------------
(***************************************************************************)
(* What a caller may expect of the slab: a request is given a range of the *)
(* pool no other live allocation overlaps, or nothing.                     *)
(***************************************************************************)
EXTENDS Integers

CONSTANTS Size, Sizes     \* bytes of the pool; request sizes

VARIABLE alloc            \* live allocations

Range == [off : 0..Size - 1, size : 1..Size]

Cells(r) == r.off..(r.off + r.size - 1)

Overlap(r, q) == Cells(r) \cap Cells(q) # {}

Give(r) ==
  /\ r.size \in Sizes /\ Cells(r) \subseteq 0..Size - 1
  /\ \A q \in alloc : ~Overlap(r, q)
  /\ alloc' = alloc \cup {r}

Take(r) == r \in alloc /\ alloc' = alloc \ {r}

TakeAll == alloc' = {}

Init == alloc = {}

Next == (\E r \in Range : Give(r) \/ Take(r)) \/ TakeAll

Spec == Init /\ [][Next]_alloc
=============================================================================
