----------------------------- MODULE SlabProofs -----------------------------
(***************************************************************************)
(* The slab for every size and every set of strides: no byte is given out  *)
(* twice or lost, the free list is as coarse as it can be, and what is     *)
(* given out is what RangeAlloc promises.                                  *)
(*                                                                         *)
(* The argument is about a free: the list was coalesced before it, so the  *)
(* range that comes back touches at most one range on each side.           *)
(***************************************************************************)
EXTENDS Slab, TLAPS

(* r lies before q, or behind it.                                          *)
Apart(r, q) == r.off + r.size <= q.off \/ q.off + q.size <= r.off

Lies(S) == \A r \in S : r \in SlabRange /\ r.off + r.size <= Size

Apiece(S) == \A r, q \in S : r # q => Apart(r, q)

(* Every cell of the slab is in a range that is free (F) or in use (A).    *)
Covers(F, A) == \A x \in 0..Size - 1 : \E r \in F \cup A : r.off <= x /\ x < r.off + r.size

Coarse(F) == \A r, q \in F : r.off + r.size # q.off

Sound(F, A) ==
  /\ Lies(F) /\ Lies(A) /\ Apiece(F) /\ Apiece(A)
  /\ \A r \in F, q \in A : Apart(r, q)
  /\ Covers(F, A) /\ Coarse(F)

SlabInv ==
  /\ slabBase \in BOOLEAN
  /\ IF slabBase THEN Sound(slabFree, alloc) ELSE slabFree = {} /\ alloc = {}

(* A range is a pair of numbers.                                           *)
LEMMA RangeFacts ==
  /\ Size \in Nat \ {0} /\ Sizes \subseteq Nat \ {0}
  /\ \A r \in SlabRange : r.off \in Nat /\ r.size \in Nat \ {0}
  /\ \A r, q \in SlabRange : r.off = q.off /\ r.size = q.size => r = q
BY SlabAssumption DEF SlabRange

(* Ranges that do not overlap are apart, and the other way round.          *)
LEMMA ApartCells ==
  ASSUME NEW r \in SlabRange, NEW q \in SlabRange
  PROVE  Apart(r, q) <=> Cells(r) \cap Cells(q) = {}
<1>1. PICK a \in Nat, b \in Nat \ {0}, c \in Nat, d \in Nat \ {0} :
        a = r.off /\ b = r.size /\ c = q.off /\ d = q.size
  BY RangeFacts
<1>2. ASSUME ~Apart(r, q)
      PROVE  \E x \in a..(a + b - 1) : x \in c..(c + d - 1)
  <2>1. CASE a <= c
    <3>1. c \in a..(a + b - 1) /\ c \in c..(c + d - 1)
      BY <1>1, <1>2, <2>1 DEF Apart
    <3>2. QED
      BY <3>1
  <2>2. CASE c < a
    <3>1. a \in a..(a + b - 1) /\ a \in c..(c + d - 1)
      BY <1>1, <1>2, <2>2 DEF Apart
    <3>2. QED
      BY <3>1
  <2>3. QED
    BY <1>1, <2>1, <2>2
<1>3. ASSUME Apart(r, q)
      PROVE  \A x \in a..(a + b - 1) : x \notin c..(c + d - 1)
  BY <1>1, <1>3 DEF Apart
<1>4. QED
  BY <1>1, <1>2, <1>3 DEF Cells

(* A range that comes back to a coalesced list joins the ranges it touches *)
(* into one, and leaves the others as they are.                            *)
LEMMA FreedJoins ==
  ASSUME NEW F, NEW A, Sound(F, A), NEW g \in A
  PROVE  \E J \in SlabRange, lo \in Nat, hi \in Nat :
           /\ J.off = lo /\ J.off + J.size = hi
           /\ \/ lo = g.off /\ \A p \in F : p.off + p.size # g.off
              \/ \E p \in F : p.off + p.size = g.off /\ lo = p.off
           /\ \/ hi = g.off + g.size /\ \A q \in F : q.off # g.off + g.size
              \/ \E q \in F : q.off = g.off + g.size /\ hi = q.off + q.size
           /\ Merged(F \cup {g})
                = {s \in F : s.off + s.size # g.off /\ s.off # g.off + g.size} \cup {J}
<1> DEFINE S == F \cup {g}
           Keep == {s \in F : s.off + s.size # g.off /\ s.off # g.off + g.size}
<1>0. /\ Size \in Nat \ {0}
      /\ \A r \in S : r \in SlabRange /\ r.off \in Nat /\ r.size \in Nat \ {0}
      /\ \A r \in S : r.off + r.size <= Size
  BY RangeFacts DEF Sound, Lies
<1>1. \A r, q \in S : r # q => Apart(r, q)
  BY <1>0 DEF Sound, Apiece, Apart
<1>2. \A r, q \in F : r.off + r.size # q.off
  BY DEF Sound, Coarse
<1>3. g \notin F
  <2>1. ~Apart(g, g)
    BY <1>0 DEF Apart
  <2>2. QED
    BY <2>1 DEF Sound
<1>4. \A r, q \in S : r.off = q.off \/ r.off + r.size = q.off + q.size => r = q
  BY <1>0, <1>1 DEF Apart
<1>5. PICK lo \in Nat, a \in S :
        /\ lo = a.off /\ lo <= g.off
        /\ \/ a = g /\ \A p \in F : p.off + p.size # g.off
           \/ a \in F /\ a.off + a.size = g.off
  <2>1. CASE \E p \in F : p.off + p.size = g.off
    <3>1. PICK p \in F : p.off + p.size = g.off
      BY <2>1
    <3>2. p.off \in Nat /\ p.off <= g.off
      BY <1>0, <3>1
    <3>3. QED
      BY <3>1, <3>2
  <2>2. CASE ~ \E p \in F : p.off + p.size = g.off
    BY <1>0, <2>2
  <2>3. QED
    BY <2>1, <2>2
<1>6. PICK hi \in Nat, b \in S :
        /\ hi = b.off + b.size /\ g.off + g.size <= hi /\ g.off <= b.off
        /\ \/ b = g /\ \A q \in F : q.off # g.off + g.size
           \/ b \in F /\ b.off = g.off + g.size
  <2>1. CASE \E q \in F : q.off = g.off + g.size
    <3>1. PICK q \in F : q.off = g.off + g.size
      BY <2>1
    <3>2. q.off + q.size \in Nat /\ g.off + g.size <= q.off + q.size /\ g.off <= q.off
      BY <1>0, <3>1
    <3>3. QED
      BY <3>1, <3>2
  <2>2. CASE ~ \E q \in F : q.off = g.off + g.size
    BY <1>0, <2>2
  <2>3. QED
    BY <2>1, <2>2
<1>7. PICK J \in SlabRange : J.off = lo /\ J.off + J.size = hi
  <2>1. PICK n \in Nat \ {0} : n = hi - lo /\ lo < Size /\ n <= Size
    BY <1>0, <1>5, <1>6
  <2>2. [off |-> lo, size |-> n] \in SlabRange
    BY <1>0, <2>1 DEF SlabRange
  <2>3. QED
    BY <2>1, <2>2
<1> HIDE DEF S
<1>8. \A p \in S, t \in S : p.off + p.size = t.off => p = g \/ t = g
  BY <1>2 DEF S
(* What ends where g begins is the first of the run, and g the next.       *)
<1>9. ASSUME NEW x \in S, NEW p \in S, p.off + p.size = g.off, x.off <= g.off, x # g,
             \A t \in S : x.off < t.off /\ t.off <= g.off => Extends(t, S)
      PROVE  x = p
  <2>1. ASSUME x # p
        PROVE  FALSE
    <3>1. g \in S /\ p # g /\ x.off + x.size <= g.off
      <4>1. g \in S
        BY DEF S
      <4>2. Apart(x, g)
        BY <1>1, <1>9, <4>1
      <4>3. QED
        BY <1>0, <1>9, <4>1, <4>2 DEF Apart
    <3>2. x.off < p.off
      <4>1. Apart(x, p)
        BY <1>1, <2>1
      <4>2. QED
        BY <1>0, <1>9, <3>1, <4>1 DEF Apart
    <3>3. PICK z \in S : z.off + z.size = p.off
      BY <1>0, <1>9, <3>1, <3>2 DEF Extends
    <3>4. z = g
      BY <1>8, <3>1, <3>3
    <3>5. QED
      BY <1>0, <1>9, <3>1, <3>3, <3>4
  <2>2. QED
    BY <2>1
(* A run begins at g or ends there, or has g in the middle, or is alone.   *)
<1>10. ASSUME NEW x \in S, NEW y \in S, Joined(x, y, S)
       PROVE  \/ x = y
              \/ y = g /\ x.off + x.size = g.off
              \/ x = g /\ g.off + g.size = y.off
              \/ x.off + x.size = g.off /\ g.off + g.size = y.off
  <2>0. /\ x.off <= y.off
        /\ \A t \in S : x.off < t.off /\ t.off <= y.off => Extends(t, S)
    BY <1>10 DEF Joined
  <2>1. CASE x # y
    <3>1. x.off < y.off
      BY <1>0, <1>4, <2>0, <2>1
    <3>2. PICK p \in S : p.off + p.size = y.off
      BY <1>0, <2>0, <3>1 DEF Extends
    <3>3. CASE y = g
      BY <1>9, <2>0, <2>1, <3>2, <3>3
    <3>4. CASE y # g
      <4>1. p = g
        BY <1>8, <3>2, <3>4
      <4>2. CASE x # g
        <5>1. Apart(x, g)
          BY <1>1, <4>1, <4>2
        <5>2. x.off < g.off /\ g.off <= y.off
          BY <1>0, <3>1, <3>2, <4>1, <5>1 DEF Apart
        <5>3. Extends(g, S)
          BY <2>0, <4>1, <5>2
        <5>4. PICK z \in S : z.off + z.size = g.off
          BY <5>3 DEF Extends
        <5>5. \A t \in S : x.off < t.off /\ t.off <= g.off => Extends(t, S)
          BY <1>0, <2>0, <4>1, <5>2
        <5>6. x = z
          BY <1>0, <1>9, <4>2, <5>2, <5>4, <5>5
        <5>7. QED
          BY <3>2, <4>1, <5>4, <5>6
      <4>3. QED
        BY <3>2, <4>1, <4>2
    <3>5. QED
      BY <3>3, <3>4
  <2>2. QED
    BY <2>1
<1>11. g \in S /\ F \subseteq S /\ \A r \in S : r = g \/ r \in F
  BY DEF S
<1>12. ASSUME NEW m \in Merged(S)
       PROVE  m \in Keep \cup {J}
  <2>1. PICK x \in S, y \in S : m.off = x.off /\ m.off + m.size = y.off + y.size /\ Joined(x, y, S)
    BY DEF Merged
  <2>2. m \in SlabRange /\ m.off \in Nat /\ m.size \in Nat
    BY RangeFacts DEF Merged
  <2>3. ~Extends(x, S) /\ \A t \in S : t.off # y.off + y.size
    BY <2>1 DEF Joined
  <2>4. CASE x = y /\ x # g
    <3>1. m = x
      BY <1>0, <2>1, <2>2, <2>4, RangeFacts
    <3>2. x \in F /\ x.off + x.size # g.off /\ g.off + g.size # x.off
      BY <1>11, <2>3, <2>4 DEF Extends
    <3>3. QED
      BY <3>1, <3>2
  <2>5. CASE x = g \/ y = g \/ (x.off + x.size = g.off /\ g.off + g.size = y.off)
    <3>1. x = a
      <4>1. CASE x = g
        BY <1>5, <1>11, <2>3, <4>1 DEF Extends
      <4>2. CASE x # g
        <5>1. x.off + x.size = g.off /\ x \in F
          BY <1>10, <1>11, <2>1, <2>5, <4>2
        <5>2. QED
          BY <1>0, <1>4, <1>5, <1>11, <5>1
      <4>3. QED
        BY <4>1, <4>2
    <3>2. y = b
      <4>1. CASE y = g
        BY <1>6, <1>11, <2>3, <4>1
      <4>2. CASE y # g
        <5>1. g.off + g.size = y.off /\ y \in F
          BY <1>10, <1>11, <2>1, <2>5, <4>2
        <5>2. QED
          BY <1>0, <1>4, <1>6, <1>11, <5>1
      <4>3. QED
        BY <4>1, <4>2
    <3>3. m.off = J.off /\ m.size = J.size
      <4>1. J.off \in Nat /\ J.size \in Nat
        BY RangeFacts
      <4>2. QED
        BY <1>5, <1>6, <1>7, <2>1, <2>2, <3>1, <3>2, <4>1
    <3>4. QED
      BY <2>2, <3>3, RangeFacts
  <2>6. QED
    BY <1>10, <2>1, <2>4, <2>5
<1>13. ASSUME NEW s \in Keep
       PROVE  s \in Merged(S)
  <2>1. s \in S /\ s \in F /\ s.off + s.size # g.off /\ s.off # g.off + g.size
    BY <1>11
  <2>2. ~Extends(s, S) /\ \A t \in S : t.off # s.off + s.size
    BY <1>2, <1>11, <2>1 DEF Extends
  <2>3. Joined(s, s, S)
    BY <1>0, <2>1, <2>2 DEF Joined
  <2>4. QED
    BY <1>0, <2>1, <2>3 DEF Merged
<1>14. J \in Merged(S)
  <2>1. ~Extends(a, S)
    <3>1. CASE a = g
      BY <1>0, <1>5, <1>11, <3>1 DEF Extends
    <3>2. CASE a # g
      BY <1>0, <1>2, <1>5, <1>11, <3>2 DEF Extends
    <3>3. QED
      BY <3>1, <3>2
  <2>2. \A t \in S : t.off # b.off + b.size
    <3>1. CASE b = g
      BY <1>0, <1>6, <1>11, <3>1
    <3>2. CASE b # g
      BY <1>0, <1>2, <1>6, <1>11, <3>2
    <3>3. QED
      BY <3>1, <3>2
  <2>3. ASSUME NEW t \in S, a.off < t.off, t.off <= b.off
        PROVE  Extends(t, S)
    <3>1. CASE t = g
      BY <1>0, <1>5, <1>11, <2>3, <3>1 DEF Extends
    <3>2. CASE t # g
      <4>1. Apart(t, g) /\ t # a
        BY <1>0, <1>1, <1>11, <2>3, <3>2
      <4>2. Apart(t, a)
        BY <1>1, <4>1
      <4>3. g.off + g.size <= t.off
        BY <1>0, <1>5, <1>11, <2>3, <3>2, <4>1, <4>2 DEF Apart
      <4>4. b \in F /\ b.off = g.off + g.size
        BY <1>0, <1>6, <1>11, <2>3, <4>3
      <4>5. t.off = g.off + g.size
        BY <1>0, <2>3, <4>3, <4>4
      <4>6. QED
        BY <1>11, <4>5 DEF Extends
    <3>3. QED
      BY <3>1, <3>2
  <2>4. a.off <= b.off
    BY <1>0, <1>5, <1>6, <1>11
  <2>5. Joined(a, b, S)
    BY <2>1, <2>2, <2>3, <2>4 DEF Joined
  <2>6. QED
    BY <1>5, <1>6, <1>7, <2>5 DEF Merged
<1>15. Merged(S) = Keep \cup {J}
  BY <1>12, <1>13, <1>14
<1>16. \/ lo = g.off /\ \A p \in F : p.off + p.size # g.off
       \/ \E p \in F : p.off + p.size = g.off /\ lo = p.off
  BY <1>5
<1>17. \/ hi = g.off + g.size /\ \A q \in F : q.off # g.off + g.size
       \/ \E q \in F : q.off = g.off + g.size /\ hi = q.off + q.size
  BY <1>6
<1>18. QED
  BY <1>7, <1>15, <1>16, <1>17 DEF S

(* sb_slab_free: what was free or in use still is one of both.             *)
LEMMA FreeKeeps ==
  ASSUME NEW F, NEW A, Sound(F, A), NEW g \in A,
         NEW G, G = Merged(F \cup {g}), NEW B, B = A \ {g}
  PROVE  Sound(G, B)
<1> DEFINE Keep == {s \in F : s.off + s.size # g.off /\ s.off # g.off + g.size}
<1>1. PICK J \in SlabRange, lo \in Nat, hi \in Nat :
        /\ J.off = lo /\ J.off + J.size = hi
        /\ \/ lo = g.off /\ \A p \in F : p.off + p.size # g.off
           \/ \E p \in F : p.off + p.size = g.off /\ lo = p.off
        /\ \/ hi = g.off + g.size /\ \A q \in F : q.off # g.off + g.size
           \/ \E q \in F : q.off = g.off + g.size /\ hi = q.off + q.size
        /\ Merged(F \cup {g}) = Keep \cup {J}
  BY FreedJoins
<1>2. G = Keep \cup {J} /\ B = A \ {g}
  BY <1>1
<1>3. /\ Size \in Nat \ {0}
      /\ \A r \in F \cup A : r \in SlabRange /\ r.off \in Nat /\ r.size \in Nat \ {0}
      /\ \A r \in F \cup A : r.off + r.size <= Size
      /\ J.size \in Nat \ {0} /\ J.off \in Nat
  BY RangeFacts DEF Sound, Lies
<1>4. \A r, q \in F : r # q => Apart(r, q)
  BY DEF Sound, Apiece
<1>5. \A r, q \in F : r.off + r.size # q.off
  BY DEF Sound, Coarse
<1>6. \A r \in F, q \in A : Apart(r, q)
  BY DEF Sound
<1>7. \A r, q \in A : r # q => Apart(r, q)
  BY DEF Sound, Apiece
<1>a. lo <= g.off /\ g.off + g.size <= hi /\ hi <= Size
  BY <1>1, <1>3
(* What is apart from g and from the ranges g touches is apart from J.     *)
<1>8. ASSUME NEW s, s.off \in Nat, s.size \in Nat \ {0}, Apart(s, g),
             \A p \in F : p.off + p.size = g.off \/ p.off = g.off + g.size => Apart(s, p)
      PROVE  Apart(s, J)
  <2>1. s.off + s.size <= g.off \/ g.off + g.size <= s.off
    BY <1>8 DEF Apart
  <2>2. CASE s.off + s.size <= g.off
    <3>1. CASE lo = g.off
      BY <1>1, <2>2, <3>1 DEF Apart
    <3>2. CASE lo # g.off
      <4>1. PICK p \in F : p.off + p.size = g.off /\ lo = p.off
        BY <1>1, <3>2
      <4>2. Apart(s, p)
        BY <1>8, <4>1
      <4>3. s.off + s.size <= lo
        BY <1>3, <1>8, <2>2, <4>1, <4>2 DEF Apart
      <4>4. QED
        BY <1>1, <4>3 DEF Apart
    <3>3. QED
      BY <3>1, <3>2
  <2>3. CASE g.off + g.size <= s.off
    <3>1. CASE hi = g.off + g.size
      BY <1>1, <2>3, <3>1 DEF Apart
    <3>2. CASE hi # g.off + g.size
      <4>1. PICK q \in F : q.off = g.off + g.size /\ hi = q.off + q.size
        BY <1>1, <3>2
      <4>2. Apart(s, q)
        BY <1>8, <4>1
      <4>3. hi <= s.off
        BY <1>3, <1>8, <2>3, <4>1, <4>2 DEF Apart
      <4>4. QED
        BY <1>1, <4>3 DEF Apart
    <3>3. QED
      BY <3>1, <3>2
  <2>4. QED
    BY <2>1, <2>2, <2>3
<1>9. \A s \in Keep : Apart(s, J)
  <2>1. ASSUME NEW s \in Keep
        PROVE  Apart(s, J)
    <3>1. s \in F /\ s.off + s.size # g.off /\ s.off # g.off + g.size
      OBVIOUS
    <3>2. \A p \in F : p.off + p.size = g.off \/ p.off = g.off + g.size => Apart(s, p)
      BY <1>4, <3>1
    <3>3. s.off \in Nat /\ s.size \in Nat \ {0} /\ Apart(s, g)
      BY <1>3, <1>6, <3>1
    <3>4. QED
      BY <1>8, <3>2, <3>3
  <2>2. QED
    BY <2>1
<1>10. \A s \in B : Apart(s, J)
  <2>1. ASSUME NEW s \in A, s # g
        PROVE  Apart(s, J)
    <3>1. \A p \in F : Apart(s, p)
      BY <1>3, <1>6 DEF Apart
    <3>2. s.off \in Nat /\ s.size \in Nat \ {0} /\ Apart(s, g)
      BY <1>3, <1>7, <2>1
    <3>3. QED
      BY <1>8, <3>1, <3>2
  <2>2. QED
    BY <1>2, <2>1
<1>11. Keep \subseteq F /\ B \subseteq A
  BY <1>2
<1> HIDE DEF Keep
<1>12. Lies(G) /\ Lies(B)
  BY <1>1, <1>2, <1>3, <1>11, <1>a DEF Lies
<1>13. Apiece(G) /\ Apiece(B)
  BY <1>2, <1>3, <1>4, <1>7, <1>9, <1>11 DEF Apiece, Apart
<1>14. \A r \in G, q \in B : Apart(r, q)
  BY <1>2, <1>3, <1>6, <1>10, <1>11 DEF Apart
<1>15. Covers(G, B)
  <2>1. ASSUME NEW x \in 0..Size - 1
        PROVE  \E r \in G \cup B : r.off <= x /\ x < r.off + r.size
    <3>1. PICK r \in F \cup A : r.off <= x /\ x < r.off + r.size
      BY <1>2 DEF Sound, Covers
    <3>2. CASE r \in Keep \/ r \in B
      BY <1>2, <3>1, <3>2
    <3>3. CASE ~(r \in Keep \/ r \in B)
      <4>1. \/ r = g
            \/ r \in F /\ r.off + r.size = g.off
            \/ r \in F /\ r.off = g.off + g.size
        BY <1>2, <3>1, <3>3 DEF Keep
      <4>2. lo <= r.off /\ r.off + r.size <= hi
        <5>1. CASE r = g
          BY <1>a, <5>1
        <5>2. CASE r \in F /\ r.off + r.size = g.off
          <6>1. PICK p \in F : p.off + p.size = g.off /\ lo = p.off
            BY <1>1, <5>2
          <6>2. p = r
            BY <1>3, <1>4, <5>2, <6>1 DEF Apart
          <6>3. QED
            BY <1>3, <1>a, <5>2, <6>1, <6>2
        <5>3. CASE r \in F /\ r.off = g.off + g.size
          <6>1. PICK q \in F : q.off = g.off + g.size /\ hi = q.off + q.size
            BY <1>1, <5>3
          <6>2. q = r
            BY <1>3, <1>4, <5>3, <6>1 DEF Apart
          <6>3. QED
            BY <1>3, <1>a, <5>3, <6>1, <6>2
        <5>4. QED
          BY <4>1, <5>1, <5>2, <5>3
      <4>3. J.off <= x /\ x < J.off + J.size
        BY <1>1, <1>3, <3>1, <4>2
      <4>4. QED
        BY <1>2, <4>3
    <3>4. QED
      BY <3>2, <3>3
  <2>2. QED
    BY <1>2, <2>1 DEF Covers
<1>16. Coarse(G)
  <2>1. ASSUME NEW s \in Keep
        PROVE  s.off + s.size # J.off /\ J.off + J.size # s.off
    <3>1. s \in F /\ s.off + s.size # g.off /\ s.off # g.off + g.size
      BY DEF Keep
    <3>2. s.off + s.size # lo
      BY <1>1, <1>5, <3>1
    <3>3. hi # s.off
      BY <1>1, <1>5, <3>1
    <3>4. QED
      BY <1>1, <3>2, <3>3
  <2>2. J.off + J.size # J.off
    BY <1>3
  <2>3. QED
    BY <1>2, <1>5, <1>11, <2>1, <2>2 DEF Coarse
<1>17. QED
  BY <1>2, <1>12, <1>13, <1>14, <1>15, <1>16 DEF Sound

(* sb_slab_alloc that finds a range: its head is given out, its tail stays *)
(* free, and no other allocation has a byte of it.                         *)
LEMMA AllocKeeps ==
  ASSUME NEW F, NEW A, Sound(F, A), NEW b \in Sizes, NEW r \in F, BestFit(r, b, F),
         NEW h, h = [off |-> r.off, size |-> b],
         NEW G, G = (F \ {r}) \cup Rest(r, b), NEW B, B = A \cup {h}
  PROVE  /\ Sound(G, B)
         /\ h \in SlabRange /\ h.size = b /\ h.off + h.size <= Size
         /\ \A q \in A : Apart(h, q)
<1>1. /\ Size \in Nat \ {0} /\ b \in Nat \ {0} /\ b <= r.size
      /\ \A s \in F \cup A : s \in SlabRange /\ s.off \in Nat /\ s.size \in Nat \ {0}
      /\ \A s \in F \cup A : s.off + s.size <= Size
  BY RangeFacts DEF Sound, Lies, BestFit, Fits
<1>2. PICK off \in Nat, size \in Nat \ {0} :
        off = r.off /\ size = r.size /\ b <= size /\ off + size <= Size
  BY <1>1
<1>3. h \in SlabRange /\ h.off = off /\ h.size = b
  <2>1. off \in 0..Size - 1 /\ b \in 1..Size
    BY <1>1, <1>2
  <2>2. QED
    BY <1>2, <2>1 DEF SlabRange
<1>4. \A t \in Rest(r, b) :
        /\ t \in SlabRange /\ t.off = off + b /\ t.off + t.size = off + size
        /\ t.off \in Nat /\ t.size \in Nat \ {0}
  <2>1. CASE size = b
    BY <1>2, <2>1 DEF Rest
  <2>2. CASE size # b
    <3>1. PICK p \in Nat, n \in Nat \ {0} : p = off + b /\ n = size - b
      BY <1>1, <1>2, <2>2
    <3>2. Rest(r, b) = {[off |-> p, size |-> n]}
      BY <1>2, <2>2, <3>1 DEF Rest
    <3>3. p \in 0..Size - 1 /\ n \in 1..Size
      BY <1>1, <1>2, <3>1
    <3>4. [off |-> p, size |-> n] \in SlabRange
      BY <3>3 DEF SlabRange
    <3>5. \A t \in Rest(r, b) : t.off = p /\ t.size = n /\ t \in SlabRange
      BY <3>2, <3>4
    <3>6. p + n = off + size
      BY <1>1, <1>2, <3>1
    <3>7. QED
      BY <3>1, <3>5, <3>6
  <2>3. QED
    BY <2>1, <2>2
<1>5. \A t, u \in Rest(r, b) : t = u
  BY DEF Rest
<1>6. \A s \in F : s # r => Apart(s, r)
  BY DEF Sound, Apiece
<1>7. \A s \in A : Apart(r, s)
  BY DEF Sound
(* What is apart from r is apart from both its parts.                      *)
<1>8. ASSUME NEW s, s.off \in Nat, s.size \in Nat \ {0}, Apart(s, r) \/ Apart(r, s)
      PROVE  Apart(s, h) /\ Apart(h, s) /\ \A t \in Rest(r, b) : Apart(s, t) /\ Apart(t, s)
  BY <1>1, <1>2, <1>3, <1>4, <1>8 DEF Apart
<1>9. \A t \in Rest(r, b) : Apart(t, h)
  BY <1>1, <1>2, <1>3, <1>4 DEF Apart
<1>10. Lies(G) /\ Lies(B)
  BY <1>1, <1>2, <1>3, <1>4 DEF Lies
<1>11. Apiece(G) /\ Apiece(B)
  <2>1. Apiece(G)
    BY <1>1, <1>5, <1>6, <1>8 DEF Apiece, Sound
  <2>2. Apiece(B)
    BY <1>1, <1>7, <1>8 DEF Apiece, Sound
  <2>3. QED
    BY <2>1, <2>2
<1>12. \A s \in G, q \in B : Apart(s, q)
  BY <1>1, <1>6, <1>7, <1>8, <1>9 DEF Sound
<1>13. Covers(G, B)
  <2>1. ASSUME NEW x \in 0..Size - 1
        PROVE  \E s \in G \cup B : s.off <= x /\ x < s.off + s.size
    <3>1. PICK s \in F \cup A : s.off <= x /\ x < s.off + s.size
      BY DEF Sound, Covers
    <3>2. CASE s # r
      BY <3>1, <3>2
    <3>3. CASE s = r /\ x < off + b
      <4>1. h.off <= x /\ x < h.off + h.size
        BY <1>2, <1>3, <3>1, <3>3
      <4>2. QED
        BY <4>1
    <3>4. CASE s = r /\ ~(x < off + b)
      <4>1. size # b /\ x < off + size
        BY <1>1, <1>2, <3>1, <3>4
      <4>2. PICK t : t \in Rest(r, b)
        BY <1>2, <4>1 DEF Rest
      <4>3. t.off <= x /\ x < t.off + t.size
        BY <1>1, <1>2, <1>4, <3>4, <4>1, <4>2
      <4>4. QED
        BY <4>2, <4>3
    <3>5. QED
      BY <3>2, <3>3, <3>4
  <2>2. QED
    BY <2>1 DEF Covers
<1>14. Coarse(G)
  <2>0. \A s, q \in F : s.off + s.size # q.off
    BY DEF Sound, Coarse
  <2>1. ASSUME NEW t \in Rest(r, b), NEW s \in F \ {r}
        PROVE  t.off + t.size # s.off /\ s.off + s.size # t.off
    <3>1. t.off + t.size # s.off
      BY <1>1, <1>2, <1>4, <2>0
    <3>2. Apart(s, r)
      BY <1>6
    <3>3. s.off + s.size # t.off
      BY <1>1, <1>2, <1>4, <3>2 DEF Apart
    <3>4. QED
      BY <3>1, <3>3
  <2>2. ASSUME NEW t \in Rest(r, b), NEW u \in Rest(r, b)
        PROVE  t.off + t.size # u.off
    BY <1>4, <1>5
  <2>3. QED
    BY <2>0, <2>1, <2>2 DEF Coarse
<1>15. Sound(G, B)
  BY <1>10, <1>11, <1>12, <1>13, <1>14 DEF Sound
<1>16. QED
  BY <1>1, <1>2, <1>3, <1>7, <1>8, <1>15

(* A slab that is one free range.                                          *)
LEMMA WholeIsSound == Sound({Whole}, {})
<1>1. Whole \in SlabRange /\ Whole.off = 0 /\ Whole.size = Size /\ Size \in Nat \ {0}
  BY SlabAssumption DEF Whole, SlabRange
<1>2. Covers({Whole}, {})
  BY <1>1 DEF Covers
<1>3. QED
  BY <1>1, <1>2 DEF Sound, Lies, Apiece, Coarse

(* Each operation keeps the invariant.                                     *)
LEMMA SlabNextInv == SlabInv /\ [SlabNext]_slabVars => SlabInv'
<1> SUFFICES ASSUME SlabInv, [SlabNext]_slabVars PROVE SlabInv'
  OBVIOUS
<1>1. CASE InitSlab
  BY <1>1, WholeIsSound DEF InitSlab, SlabInv
<1>2. CASE Destroy
  BY <1>2 DEF Destroy, SlabInv
<1>3. ASSUME NEW b \in Sizes, Alloc(b)
      PROVE  SlabInv'
  <2>1. PICK pool : pool = (IF slabBase THEN slabFree ELSE {Whole})
    OBVIOUS
  <2>2. Sound(pool, alloc)
    BY <2>1, WholeIsSound DEF SlabInv
  <2>3. CASE Fits(b, pool) = {} /\ slabFree' = pool /\ alloc' = alloc
    BY <1>3, <2>2, <2>3 DEF Alloc, SlabInv
  <2>4. ASSUME NEW r \in pool, BestFit(r, b, pool),
               slabFree' = (pool \ {r}) \cup Rest(r, b),
               alloc' = alloc \cup {[off |-> r.off, size |-> b]}
        PROVE  SlabInv'
    <3>1. PICK h, G, A, B : /\ h = [off |-> r.off, size |-> b]
                            /\ G = (pool \ {r}) \cup Rest(r, b)
                            /\ A = alloc /\ B = A \cup {h}
      OBVIOUS
    <3>2. Sound(pool, A) /\ BestFit(r, b, pool)
      BY <2>2, <2>4, <3>1
    <3>3. Sound(G, B)
      BY <3>1, <3>2, AllocKeeps
    <3>4. slabFree' = G /\ alloc' = B
      BY <2>4, <3>1
    <3>5. QED
      BY <1>3, <3>3, <3>4 DEF Alloc, SlabInv
  <2>5. QED
    BY <1>3, <2>1, <2>3, <2>4 DEF Alloc
<1>4. ASSUME NEW r \in alloc, Free(r)
      PROVE  SlabInv'
  <2>1. Sound(Merged(slabFree \cup {r}), alloc \ {r})
    BY <1>4, FreeKeeps DEF Free, SlabInv
  <2>2. QED
    BY <1>4, <2>1 DEF Free, SlabInv
<1>5. CASE UNCHANGED slabVars
  BY <1>5 DEF slabVars, SlabInv
<1>6. QED
  BY <1>1, <1>2, <1>3, <1>4, <1>5 DEF SlabNext

(* A slab that was just created is one free range.                         *)
LEMMA SlabInitInv == SlabInit => SlabInv
BY DEF SlabInit, SlabInv

(* No byte of the slab is given out twice, free and in use at once, or     *)
(* lost, and no two free ranges touch (rt.cu 359-424).                     *)
THEOREM SlabStaysWhole == SlabSpec => []SlabIsWhole
<1>1. SlabInv => SlabIsWhole
  <2> SUFFICES ASSUME SlabInv PROVE SlabIsWhole
    OBVIOUS
  <2>0. /\ Size \in Nat \ {0}
        /\ \A r \in slabFree \cup alloc : r \in SlabRange /\ r.off \in Nat /\ r.size \in Nat \ {0}
        /\ \A r \in slabFree \cup alloc : r.off + r.size <= Size
        /\ \A r, q \in slabFree \cup alloc : r # q => Apart(r, q) \/ Apart(q, r)
        /\ \A r \in slabFree, q \in alloc : Apart(r, q)
        /\ Coarse(slabFree)
    BY RangeFacts DEF SlabInv, Sound, Lies, Apiece, Coarse
  <2>1. \A r, q \in slabFree \cup alloc : r # q => Cells(r) \cap Cells(q) = {}
    BY <2>0, ApartCells
  <2>2. slabFree \cap alloc = {}
    BY <2>0 DEF Apart
  <2>3. Bytes(slabFree \cup alloc) \subseteq 0..Size - 1
    <3>1. ASSUME NEW r \in slabFree \cup alloc, NEW x \in Cells(r)
          PROVE  x \in 0..Size - 1
      BY <2>0, <3>1 DEF Cells
    <3>2. QED
      BY <3>1 DEF Bytes
  <2>4. ASSUME slabBase
        PROVE  Bytes(slabFree) \cup Bytes(alloc) = 0..Size - 1
    <3>1. ASSUME NEW x \in 0..Size - 1
          PROVE  x \in Bytes(slabFree) \cup Bytes(alloc)
      <4>1. PICK r \in slabFree \cup alloc : r.off <= x /\ x < r.off + r.size
        BY <2>4 DEF SlabInv, Sound, Covers
      <4>2. x \in Cells(r)
        BY <2>0, <4>1 DEF Cells
      <4>3. QED
        BY <4>1, <4>2 DEF Bytes
    <3>2. Bytes(slabFree) \cup Bytes(alloc) \subseteq Bytes(slabFree \cup alloc)
      BY DEF Bytes
    <3>3. QED
      BY <2>3, <3>1, <3>2
  <2>5. QED
    BY <2>0, <2>1, <2>2, <2>3, <2>4 DEF SlabIsWhole, Disjoint, Conserved, Coalesced, Coarse
<1>2. QED
  BY <1>1, SlabInitInv, SlabNextInv, PTL DEF SlabSpec

(* The slab answers as RangeAlloc promises: a request gets a range no      *)
(* other live allocation overlaps, or nothing.                             *)
THEOREM SlabGivesRanges == SlabSpec => GivesRanges
<1>1. SlabInit => RA!Init
  BY DEF SlabInit, RA!Init
<1>2. SlabInv /\ [SlabNext]_slabVars => [RA!Next]_alloc
  <2> SUFFICES ASSUME SlabInv, [SlabNext]_slabVars PROVE [RA!Next]_alloc
    OBVIOUS
  <2>1. CASE InitSlab \/ Destroy
    BY <2>1 DEF InitSlab, Destroy, RA!Next, RA!TakeAll
  <2>2. ASSUME NEW b \in Sizes, Alloc(b)
        PROVE  [RA!Next]_alloc
    <3>1. PICK pool : pool = (IF slabBase THEN slabFree ELSE {Whole})
      OBVIOUS
    <3>2. Sound(pool, alloc)
      BY <3>1, WholeIsSound DEF SlabInv
    <3>3. CASE alloc' = alloc
      BY <3>3
    <3>4. ASSUME NEW r \in pool, BestFit(r, b, pool),
                 alloc' = alloc \cup {[off |-> r.off, size |-> b]}
          PROVE  RA!Next
      <4>1. PICK h, G, B : /\ h = [off |-> r.off, size |-> b]
                           /\ G = (pool \ {r}) \cup Rest(r, b) /\ B = alloc \cup {h}
        OBVIOUS
      <4>2. /\ h \in SlabRange /\ h.size = b /\ h.off + h.size <= Size
            /\ \A q \in alloc : Apart(h, q)
        BY <3>2, <3>4, <4>1, AllocKeeps
      <4>3. Cells(h) \subseteq 0..Size - 1
        BY <4>2, RangeFacts DEF Cells
      <4>4. \A q \in alloc : Cells(h) \cap Cells(q) = {}
        BY <3>2, <4>2, ApartCells DEF Sound, Lies
      <4>5. RA!Give(h)
        BY <3>4, <4>1, <4>2, <4>3, <4>4 DEF RA!Give, RA!Overlap, RA!Cells, Cells
      <4>6. h \in RA!Range
        BY <4>2 DEF RA!Range, SlabRange
      <4>7. QED
        BY <4>5, <4>6 DEF RA!Next
    <3>5. QED
      BY <2>2, <3>1, <3>3, <3>4 DEF Alloc
  <2>3. ASSUME NEW r \in alloc, Free(r)
        PROVE  RA!Next
    <3>1. r \in SlabRange
      BY <2>3 DEF SlabInv, Sound, Lies, Free
    <3>2. QED
      BY <2>3, <3>1 DEF Free, RA!Next, RA!Take, RA!Range, SlabRange
  <2>4. CASE UNCHANGED slabVars
    BY <2>4 DEF slabVars
  <2>5. QED
    BY <2>1, <2>2, <2>3, <2>4 DEF SlabNext
<1>3. QED
  BY <1>1, <1>2, SlabInitInv, SlabNextInv, PTL DEF SlabSpec, GivesRanges, RA!Spec
=============================================================================
