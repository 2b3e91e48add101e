-------------------------------- MODULE Slab --------------------------------
(***************************************************************************)
(* The device slab: one cudaMalloc for the whole hot tier, handed out by   *)
(* best fit and coalesced on every free.  Every operation runs under       *)
(* g_slab_mutex, so an operation is a step.                                *)
(*                                                                         *)
(* The free list is a vector the operations keep sorted by offset (a split *)
(* keeps its place, a free sorts): a set of ranges says the same, and the  *)
(* first of two equal fits is the one at the lower offset.                 *)
(***************************************************************************)
EXTENDS Integers

CONSTANTS
  Size,      \* sb_mmid_capacity_bytes(), in units
  Sizes      \* expert strides requests are made for

ASSUME SlabAssumption == Size \in Nat \ {0} /\ Sizes \subseteq Nat \ {0}

VARIABLES
  slabBase,      \* g_slab_base is set
  slabFree,      \* g_slab_free
  alloc      \* g_slab_alloc

slabVars == <<slabBase, slabFree, alloc>>

SlabRange == [off : 0..Size - 1, size : 1..Size]

Cells(r) == r.off..(r.off + r.size - 1)

Bytes(S) == UNION {Cells(r) : r \in S}

Whole == [off |-> 0, size |-> Size]

(* Mutant of Fits: a request one unit larger than the range is accepted.   *)
FitsLoosely(b, pool) == {r \in pool : r.size + 1 >= b}

Fits(b, pool) == {r \in pool : r.size >= b}

(* The smallest range that holds b, the lowest of several.                 *)
BestFit(r, b, pool) ==
  /\ r \in Fits(b, pool)
  /\ \A q \in Fits(b, pool) : r.size < q.size \/ (r.size = q.size /\ r.off <= q.off)

(* Mutants of Rest: the tail of a split range is forgotten, or keeps the   *)
(* last unit of the head.                                                  *)
RestForgotten(r, b) == {}
RestTooLong(r, b) == {[off |-> r.off + b - 1, size |-> r.size - b + 1]}

Rest(r, b) ==
  IF r.size = b THEN {} ELSE {[off |-> r.off + b, size |-> r.size - b]}

(* sb_slab_init; a cudaMalloc that fails changes nothing.                  *)
InitSlab ==
  /\ ~slabBase
  /\ slabBase' = TRUE /\ slabFree' = {Whole} /\ alloc' = {}

(* sb_slab_alloc, which sets the slab up if no one has yet.                *)
Alloc(b) ==
  LET pool == IF slabBase THEN slabFree ELSE {Whole}
  IN  /\ slabBase' = TRUE
      /\ \/ /\ Fits(b, pool) = {}
            /\ slabFree' = pool /\ UNCHANGED alloc
         \/ \E r \in pool :
              /\ BestFit(r, b, pool)
              /\ slabFree' = (pool \ {r}) \cup Rest(r, b)
              /\ alloc' = alloc \cup {[off |-> r.off, size |-> b]}

(* A range begins where another ends.                                      *)
Extends(r, S) == \E p \in S : p.off + p.size = r.off

(* The ranges from r to q follow one another without a gap, and none       *)
(* before or after them touches them.                                      *)
Joined(r, q, S) ==
  /\ r.off <= q.off /\ ~Extends(r, S)
  /\ \A t \in S : r.off < t.off /\ t.off <= q.off => Extends(t, S)
  /\ \A t \in S : t.off # q.off + q.size

(* The list is sorted by offset and merged in one pass: what touches       *)
(* becomes one range.                                                      *)
Merged(S) ==
  {m \in SlabRange :
     \E r, q \in S : /\ m.off = r.off /\ m.off + m.size = q.off + q.size
                     /\ Joined(r, q, S)}

(* sb_slab_free of a pointer the slab gave out.                            *)
Free(r) ==
  /\ slabBase /\ r \in alloc
  /\ alloc' = alloc \ {r}
  /\ slabFree' = Merged(slabFree \cup {r})
  /\ UNCHANGED slabBase

Destroy == slabBase' = FALSE /\ slabFree' = {} /\ alloc' = {}

SlabInit == slabBase = FALSE /\ slabFree = {} /\ alloc = {}

SlabNext ==
  \/ InitSlab \/ Destroy
  \/ \E b \in Sizes : Alloc(b)
  \/ \E r \in alloc : Free(r)

SlabSpec == SlabInit /\ [][SlabNext]_slabVars

-----------------------------------------------------------------------------
SlabTypeOK == slabBase \in BOOLEAN /\ slabFree \subseteq SlabRange /\ alloc \subseteq SlabRange

(* No byte of the slab is given out twice or is free and in use at once.   *)
Disjoint ==
  /\ \A r, q \in slabFree \cup alloc : r # q => Cells(r) \cap Cells(q) = {}
  /\ slabFree \cap alloc = {}
  /\ Bytes(slabFree \cup alloc) \subseteq 0..Size - 1

(* No byte is lost: what is not in use can be given out again.             *)
Conserved == slabBase => Bytes(slabFree) \cup Bytes(alloc) = 0..Size - 1

(* Every free leaves the free list as coarse as it can be.                 *)
Coalesced == \A r, q \in slabFree : r.off + r.size # q.off

(* The slab gives out ranges as RangeAlloc promises.                       *)
RA == INSTANCE RangeAlloc
GivesRanges == RA!Spec
(* What the slab may not lose over any sequence of requests and frees.      *)
SlabIsWhole ==
  /\ Disjoint
  /\ Conserved
  /\ Coalesced
=============================================================================
