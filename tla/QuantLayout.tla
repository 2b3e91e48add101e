----------------------------- MODULE QuantLayout -----------------------------
(* Where the bits of a quantised row are: gguf-py's dequantizer             *)
(* (gguf/quants.py), the runtime's own for its self-check                   *)
(* (sb_host_dequant) and the 32-element kernels (sub32).  A block is its    *)
(* bits; decoding an element is the fields it is made from:                 *)
(*   d, dmin  the bits of the block's half-precision factors,               *)
(*   scale, min  those of the sub-block's factors,                          *)
(*   code  the element's number, or its index into a table of the type,     *)
(*   at    which entry of a table row (or which base 3 digit) the element   *)
(*         takes, 0 where a code is an element,                             *)
(*   sign  its sign bit, or a sign index and the bit of the table's byte.   *)
(* A field is the sequence of its bits, the lowest first; the products of   *)
(* floating point numbers made from equal fields are left out.              *)
EXTENDS Integers, Sequences, FiniteSets, SequencesExt

CONSTANT RowBlocks        \* blocks in the row that is decoded

VARIABLES qt,             \* the type of the row
          s,              \* the 32-element sub-block that comes next
          seen            \* bits of the row that some element was made from

quantVars == <<qt, s, seen>>

(* n bits from bit lo of the byte; lo may reach into the bytes after it, as *)
(* a little-endian word's bits do.                                          *)
F(byte, lo, n) == [k \in 1..n |-> 8 * byte + lo + k - 1]
Half(byte) == F(byte, 0, 16)
Nib(byte, high) == F(byte, 4 * high, 4)

(* The bits of (byte << left) from bit `from` on that the mask keeps.       *)
Shl(byte, left, from, n) == F(byte, from - left, n)

(* qs.reshape(n, -1, 1, w) >> shifts, flattened again: w bytes give their   *)
(* bits at the first shift, then the same bytes theirs at the next.         *)
Planes(base, w, shifts, n, i) ==
  F(base + (i \div (w * Len(shifts))) * w + (i % w), shifts[1 + ((i \div w) % Len(shifts))], n)

Nibbles == <<0, 4>>
Pairs   == <<0, 2, 4, 6>>
Bits    == <<0, 1, 2, 3, 4, 5, 6, 7>>

NoFields == [d |-> <<>>, dmin |-> <<>>, scale |-> <<>>, min |-> <<>>, code |-> <<>>, at |-> 0,
             sign |-> <<>>]

Factor(d, code) == [NoFields EXCEPT !.d = d, !.code = code]
-----------------------------------------------------------------------------
(* gguf-py: element i of a block.                                           *)
PyQ1_0(i) == Factor(Half(0), F(2, i, 1))
PyQ2_0(i) == Factor(Half(0), F(2 + i \div 4, 2 * (i % 4), 2))
PyQ4_0(i) == Factor(Half(0), Planes(2, 16, Nibbles, 4, i))
PyQ4_1(i) == [Factor(Half(0), Planes(4, 16, Nibbles, 4, i)) EXCEPT !.dmin = Half(2)]
PyQ5_0(i) == Factor(Half(0), Planes(6, 16, Nibbles, 4, i) \o F(2, i, 1))
PyQ5_1(i) == [Factor(Half(0), Planes(8, 16, Nibbles, 4, i) \o F(4, i, 1))
                EXCEPT !.dmin = Half(2)]
PyQ8_0(i) == Factor(Half(0), F(2 + i, 0, 8))

PyQ2_K(i) ==
  [Factor(Half(80), Planes(16, 32, Pairs, 2, i)) EXCEPT
     !.dmin = Half(82), !.scale = Nib(i \div 16, 0), !.min = Nib(i \div 16, 1)]

(* 16 scales of 6 bits: the low nibbles in 8 bytes, the high pairs in 4.    *)
PyQ3_K(i) ==
  LET j == i \div 16
  IN  [Factor(Half(108), Planes(32, 32, Pairs, 2, i) \o Planes(0, 32, Bits, 1, i)) EXCEPT
         !.scale = Nib(96 + (j % 8), j \div 8) \o F(104 + (j % 4), 2 * (j \div 4), 2)]

(* get_scale_min: 8 scales and 8 minima of 6 bits in the 12 bytes at base,  *)
(* three groups d, m and m_d of four bytes.                                 *)
ScaleOf(base, j) ==
  IF j < 4 THEN F(base + j, 0, 6) ELSE Nib(base + 4 + j, 0) \o F(base + j - 4, 6, 2)
MinOf(base, j) ==
  IF j < 4 THEN F(base + 4 + j, 0, 6) ELSE Nib(base + 4 + j, 1) \o F(base + j, 6, 2)

KScales(base, i, r) ==
  [r EXCEPT !.dmin = Half(2), !.scale = ScaleOf(base, i \div 32), !.min = MinOf(base, i \div 32)]

PyQ4_K(i) == KScales(4, i, Factor(Half(0), Planes(16, 32, Nibbles, 4, i)))
PyQ5_K(i) ==
  KScales(4, i, Factor(Half(0), Planes(48, 32, Nibbles, 4, i) \o Planes(16, 32, Bits, 1, i)))
PyQ6_K(i) ==
  [Factor(Half(208), Planes(0, 64, Nibbles, 4, i) \o Planes(128, 32, Pairs, 2, i)) EXCEPT
     !.scale = F(192 + i \div 16, 0, 8)]

(* Five base 3 digits a byte over 32 and over 16 bytes, four over the last. *)
PyTQ1_0(i) ==
  LET Trit(base, w, from) ==
        [Factor(Half(52), F(base + ((i - from) % w), 0, 8)) EXCEPT !.at = (i - from) \div w]
  IN  IF i < 160 THEN Trit(0, 32, 0) ELSE IF i < 240 THEN Trit(32, 16, 160) ELSE Trit(48, 4, 240)
PyTQ2_0(i) == Factor(Half(64), Planes(0, 32, Pairs, 2, i))

PyMXFP4(i) == Factor(F(0, 0, 8), Planes(1, 16, Nibbles, 4, i))
PyNVFP4(i) == Factor(F(i \div 16, 0, 8), Planes(4, 8, Nibbles, 4, i))

PyIQ2_XXS(i) ==
  LET word == 2 + 8 * (i \div 32)
      l    == (i \div 8) % 4
  IN  [Factor(Half(0), F(word + l, 0, 8)) EXCEPT
         !.at = i % 8, !.scale = F(word + 4, 28, 4), !.sign = <<F(word + 4, 7 * l, 7), i % 8>>]

PyIQ2_XS(i) ==
  LET word == 2 + 2 * (i \div 8)
  IN  [Factor(Half(0), F(word, 0, 9)) EXCEPT
         !.at = i % 8, !.scale = Nib(66 + i \div 32, (i \div 16) % 2),
         !.sign = <<F(word, 9, 7), i % 8>>]

PyIQ2_S(i) ==
  LET g == i \div 8
  IN  [Factor(Half(0), F(2 + g, 0, 8) \o F(66 + g \div 4, Pairs[1 + (g % 4)], 2)) EXCEPT
         !.at = i % 8, !.scale = Nib(74 + i \div 32, (i \div 16) % 2),
         !.sign = <<F(34 + g, i % 8, 1), 0>>]

PyIQ3_XXS(i) ==
  LET word == 66 + 4 * (i \div 32)
  IN  [Factor(Half(0), F(2 + i \div 4, 0, 8)) EXCEPT
         !.at = i % 4, !.scale = F(word, 28, 4),
         !.sign = <<F(word, 7 * ((i \div 8) % 4), 7), i % 8>>]

PyIQ3_S(i) ==
  LET g == i \div 4
  IN  [Factor(Half(0), F(2 + g, 0, 8) \o F(66 + g \div 8, g % 8, 1)) EXCEPT
         !.at = i % 4, !.scale = Nib(106 + i \div 64, (i \div 32) % 2),
         !.sign = <<F(74 + i \div 8, i % 8, 1), 0>>]

PyIQ1_S(i) ==
  LET g    == i \div 8
      word == 34 + 2 * (i \div 32)
  IN  [Factor(Half(0), F(2 + g, 0, 8) \o F(word, 3 * (g % 4), 3)) EXCEPT
         !.at = i % 8, !.scale = F(word, 12, 3), !.min = F(word, 15, 1)]

(* The half-precision factor is in the top nibbles of the four scale words. *)
PyIQ1_M(i) ==
  LET g    == i \div 8
      high == 32 + g \div 2
      d    == F(48, 12, 4) \o F(50, 12, 4) \o F(52, 12, 4) \o F(54, 12, 4)
  IN  [Factor(d, F(g, 0, 8) \o F(high, 4 * (g % 2), 3)) EXCEPT
         !.at = i % 8, !.scale = F(48 + 2 * (g \div 8), 3 * ((g \div 2) % 4), 3),
         !.min = F(high, 4 * (g % 2) + 3, 1)]

PyIQ4_NL(i) == Factor(Half(0), Planes(2, 16, Nibbles, 4, i))
PyIQ4_XS(i) ==
  LET j == i \div 32
  IN  [Factor(Half(0), Planes(8, 16, Nibbles, 4, i)) EXCEPT
         !.scale = Nib(4 + j \div 2, j % 2) \o F(2, 2 * j, 2)]

PyReads(t, i) ==
  CASE t = "Q1_0" -> PyQ1_0(i) [] t = "Q2_0" -> PyQ2_0(i) [] t = "Q4_0" -> PyQ4_0(i)
    [] t = "Q4_1" -> PyQ4_1(i) [] t = "Q5_0" -> PyQ5_0(i) [] t = "Q5_1" -> PyQ5_1(i)
    [] t = "Q8_0" -> PyQ8_0(i) [] t = "Q2_K" -> PyQ2_K(i) [] t = "Q3_K" -> PyQ3_K(i)
    [] t = "Q4_K" -> PyQ4_K(i) [] t = "Q5_K" -> PyQ5_K(i) [] t = "Q6_K" -> PyQ6_K(i)
    [] t = "TQ1_0" -> PyTQ1_0(i) [] t = "TQ2_0" -> PyTQ2_0(i) [] t = "MXFP4" -> PyMXFP4(i)
    [] t = "NVFP4" -> PyNVFP4(i) [] t = "IQ2_XXS" -> PyIQ2_XXS(i) [] t = "IQ2_XS" -> PyIQ2_XS(i)
    [] t = "IQ2_S" -> PyIQ2_S(i) [] t = "IQ3_XXS" -> PyIQ3_XXS(i) [] t = "IQ3_S" -> PyIQ3_S(i)
    [] t = "IQ1_S" -> PyIQ1_S(i) [] t = "IQ1_M" -> PyIQ1_M(i) [] t = "IQ4_NL" -> PyIQ4_NL(i)
    [] t = "IQ4_XS" -> PyIQ4_XS(i)
-----------------------------------------------------------------------------
(* sb_host_dequant: element i of a block, by the loops that reach it.       *)
HostScaleMin(j, r) ==                              \* sb_host_scale_min_k4, q at byte 4
  IF j < 4
  THEN [r EXCEPT !.scale = F(4 + j, 0, 6), !.min = F(8 + j, 0, 6)]
  ELSE [r EXCEPT !.scale = F(8 + j, 0, 4) \o F(j, 6, 2), !.min = F(8 + j, 4, 4) \o F(4 + j, 6, 2)]

(* Two 32-element halves a pass: is + 0 and is + 1, u1 and u2 move two bits.*)
HostK(base, i, highs) ==
  LET j    == i \div 64
      half == (i % 64) \div 32
      l    == i % 32
  IN  HostScaleMin(2 * j + half,
        [Factor(Half(0), Nib(base + 32 * j + l, half)
                           \o (IF highs THEN F(16 + l, 2 * j + half, 1) ELSE <<>>))
           EXCEPT !.dmin = Half(2)])

HostQ5_1(i) ==
  LET j == i % 16
  IN  [Factor(Half(0), IF i < 16 THEN Nib(8 + j, 0) \o F(4, j, 1)
                       ELSE Nib(8 + j, 1) \o F(4, j + 12 + 4, 1)) EXCEPT !.dmin = Half(2)]

HostIQ2_S(i) ==
  LET ib32 == i \div 32
      l    == (i % 32) \div 8
      j    == i % 8
  IN  [Factor(Half(0), F(2 + 4 * ib32 + l, 0, 8) \o Shl(66 + ib32, 8 - 2 * l, 8, 2)) EXCEPT
         !.at = j, !.scale = Nib(74 + ib32, IF l < 2 THEN 0 ELSE 1),
         !.sign = <<F(34 + 4 * ib32 + l, j, 1), 0>>]

HostIQ3_XXS(i) ==
  LET ib32 == i \div 32
      l    == (i % 32) \div 8
      j    == i % 8
  IN  [Factor(Half(0), F(2 + 8 * ib32 + 2 * l + j \div 4, 0, 8)) EXCEPT
         !.at = j % 4, !.scale = F(66 + 4 * ib32, 28, 4),
         !.sign = <<F(66 + 4 * ib32, 7 * l, 7), j>>]

(* qs and signs move on after each half, qh and the scale after both.       *)
HostIQ3_S(i) ==
  LET pair == i \div 64
      h    == (i \div 32) % 2
      l    == (i % 32) \div 8
      j    == i % 8
      second == j \div 4
  IN  [Factor(Half(0), F(2 + 8 * (2 * pair + h) + 2 * l + second, 0, 8)
                         \o Shl(66 + 2 * pair + h, 8 - second - 2 * l, 8, 1)) EXCEPT
         !.at = j % 4, !.scale = Nib(106 + pair, h),
         !.sign = <<F(74 + 4 * (2 * pair + h) + l, j, 1), 0>>]

HostIQ4(base, i) == Factor(Half(0), Nib(base + 16 * (i \div 32) + (i % 16), (i % 32) \div 16))
HostIQ4_XS(i) ==
  LET ib == i \div 32
  IN  [HostIQ4(8, i) EXCEPT !.scale = F(4 + ib \div 2, 4 * (ib % 2), 4) \o F(2, 2 * ib, 2)]

HostReads(t, i) ==
  CASE t = "Q8_0" -> Factor(Half(0), F(2 + i, 0, 8))
    [] t = "Q5_1" -> HostQ5_1(i)
    [] t = "Q4_K" -> HostK(16, i, FALSE)
    [] t = "Q5_K" -> HostK(48, i, TRUE)
    [] t = "IQ2_S" -> HostIQ2_S(i)
    [] t = "IQ3_XXS" -> HostIQ3_XXS(i)
    [] t = "IQ3_S" -> HostIQ3_S(i)
    [] t = "IQ4_NL" -> HostIQ4(2, i)
    [] t = "IQ4_XS" -> HostIQ4_XS(i)
    [] t = "Q2_0" -> Factor(Half(0), F(2 + i \div 4, (i % 4) * 2, 2))
-----------------------------------------------------------------------------
(* The sub32 kernels: element l of the row's sub-block n, which is the j-th *)
(* of its block.                                                            *)
KernelScaleMin(j, r) ==                            \* get_scale_min_k4, q at byte 4
  IF j < 4
  THEN [r EXCEPT !.scale = F(4 + j, 0, 6), !.min = F(8 + j, 0, 6)]
  ELSE [r EXCEPT !.scale = F(8 + j, 0, 4) \o F(j, 6, 2), !.min = F(8 + j, 4, 4) \o F(4 + j, 6, 2)]

KernelQ4_K(j, l) ==
  KernelScaleMin(j,
    [Factor(Half(0), Nib(16 + 32 * (j \div 2) + l, j % 2)) EXCEPT !.dmin = Half(2)])

KernelQ5_K(j, l) ==
  LET k     == j \div 2
      umask == (j % 2) + 2 * k
  IN  KernelScaleMin(j,
        [Factor(Half(0), Nib(48 + 32 * k + l, j % 2) \o F(16 + l, umask, 1))
           EXCEPT !.dmin = Half(2)])

KernelQ5_1(l) ==
  [Factor(Half(0), IF l < 16 THEN Nib(8 + l, 0) \o F(4, l, 1)
                   ELSE Nib(8 + l - 16, 1) \o F(4, l - 16 + 12 + 4, 1)) EXCEPT !.dmin = Half(2)]

KernelQ2_0(n, l) == Factor(Half(0), F(2 + 8 * (n % 2) + l \div 4, 2 * (l % 4), 2))

KernelIQ2_S(j, e) ==
  LET l == e \div 8
      m == e % 8
  IN  [Factor(Half(0), F(2 + 4 * j + l, 0, 8) \o Shl(66 + j, 8 - 2 * l, 8, 2)) EXCEPT
         !.at = m, !.scale = Nib(74 + j, IF l < 2 THEN 0 ELSE 1),
         !.sign = <<F(34 + 4 * j + l, m, 1), 0>>]

KernelIQ3_XXS(j, e) ==
  LET l == e \div 8
      m == e % 8
  IN  [Factor(Half(0), F(2 + 8 * j + 2 * l + m \div 4, 0, 8)) EXCEPT
         !.at = m % 4, !.scale = F(66 + 4 * j, 28, 4), !.sign = <<F(66 + 4 * j, 7 * l, 7), m>>]

(* Mutant of KernelIQ3_S: both halves of an octet take the same high bit.   *)
KernelIQ3_SOneBit(j, e) ==
  LET l == e \div 8
      m == e % 8
  IN  [Factor(Half(0), F(2 + 8 * j + 2 * l + m \div 4, 0, 8) \o Shl(66 + j, 8 - 2 * l, 8, 1)) EXCEPT
         !.at = m % 4, !.scale = Nib(106 + j \div 2, j % 2),
         !.sign = <<F(74 + 4 * j + l, m, 1), 0>>]

KernelIQ3_S(j, e) ==
  LET l == e \div 8
      m == e % 8
      second == m \div 4
  IN  [Factor(Half(0), F(2 + 8 * j + 2 * l + second, 0, 8)
                         \o Shl(66 + j, 8 - second - 2 * l, 8, 1)) EXCEPT
         !.at = m % 4, !.scale = Nib(106 + j \div 2, j % 2),
         !.sign = <<F(74 + 4 * j + l, m, 1), 0>>]

KernelIQ4_NL(l) == Factor(Half(0), Nib(2 + (l % 16), l \div 16))
KernelIQ4_XS(j, l) ==
  [Factor(Half(0), Nib(8 + 16 * j + (l % 16), l \div 16)) EXCEPT
     !.scale = F(4 + j \div 2, 4 * (j % 2), 4) \o F(2, 2 * j, 2)]

KernelReads(t, n, l) ==                            \* sub32
  LET j == n % 8
  IN  CASE t = "Q4_K" -> KernelQ4_K(j, l)
        [] t = "Q5_K" -> KernelQ5_K(j, l)
        [] t = "Q5_1" -> KernelQ5_1(l)
        [] t = "Q8_0" -> Factor(Half(0), F(2 + l, 0, 8))
        [] t = "IQ3_XXS" -> KernelIQ3_XXS(j, l)
        [] t = "IQ4_NL" -> KernelIQ4_NL(l)
        [] t = "IQ3_S" -> KernelIQ3_S(j, l)
        [] t = "IQ2_S" -> KernelIQ2_S(j, l)
        [] t = "IQ4_XS" -> KernelIQ4_XS(j, l)
        [] t = "Q2_0" -> KernelQ2_0(n, l)
-----------------------------------------------------------------------------
(* Elements and bytes of a block, as each side says them: ggml's table that *)
(* gguf-py reads, QBLOCK of rt.py, sb_block_elems and sb_block_bytes, and   *)
(* the steps of sb_host_dequant and of the kernels.                         *)
QuantSizes ==
  [Q1_0 |-> <<128, 18>>, Q2_0 |-> <<64, 18>>, Q4_0 |-> <<32, 18>>, Q4_1 |-> <<32, 20>>,
   Q5_0 |-> <<32, 22>>, Q5_1 |-> <<32, 24>>, Q8_0 |-> <<32, 34>>, Q2_K |-> <<256, 84>>,
   Q3_K |-> <<256, 110>>, Q4_K |-> <<256, 144>>, Q5_K |-> <<256, 176>>, Q6_K |-> <<256, 210>>,
   TQ1_0 |-> <<256, 54>>, TQ2_0 |-> <<256, 66>>, MXFP4 |-> <<32, 17>>, NVFP4 |-> <<64, 36>>,
   IQ2_XXS |-> <<256, 66>>, IQ2_XS |-> <<256, 74>>, IQ2_S |-> <<256, 82>>,
   IQ3_XXS |-> <<256, 98>>, IQ3_S |-> <<256, 110>>, IQ1_S |-> <<256, 50>>,
   IQ1_M |-> <<256, 56>>, IQ4_NL |-> <<32, 18>>, IQ4_XS |-> <<256, 136>>]

QBLOCK ==
  [Q5_1 |-> <<32, 24>>, Q8_0 |-> <<32, 34>>, Q4_K |-> <<256, 144>>, Q5_K |-> <<256, 176>>,
   IQ3_XXS |-> <<256, 98>>, IQ4_NL |-> <<32, 18>>, IQ3_S |-> <<256, 110>>,
   IQ2_S |-> <<256, 82>>, IQ4_XS |-> <<256, 136>>, Q2_0 |-> <<64, 18>>]

SbBlockElems(t) ==
  IF t \in {"Q5_1", "Q8_0", "IQ4_NL"} THEN 32 ELSE IF t = "Q2_0" THEN 64 ELSE 256
SbBlockBytes(t) ==
  [Q4_K |-> 144, Q5_K |-> 176, Q5_1 |-> 24, Q8_0 |-> 34, IQ3_XXS |-> 98, IQ4_NL |-> 18,
   IQ3_S |-> 110, IQ2_S |-> 82, IQ4_XS |-> 136, Q2_0 |-> 18][t]

HostBlock ==
  [Q8_0 |-> <<32, 34>>, Q5_1 |-> <<32, 24>>, Q4_K |-> <<256, 144>>, Q5_K |-> <<256, 176>>,
   IQ2_S |-> <<256, 82>>, IQ3_XXS |-> <<256, 98>>, IQ3_S |-> <<256, 110>>,
   IQ4_NL |-> <<32, 18>>, IQ4_XS |-> <<256, 136>>, Q2_0 |-> <<64, 18>>]

(* Sub-blocks of a block (s >> 3, s >> 1 or s) and the bytes between blocks.*)
KernelBlock ==
  [Q4_K |-> <<8, 144>>, Q5_K |-> <<8, 176>>, Q5_1 |-> <<1, 24>>, Q8_0 |-> <<1, 34>>,
   Q2_0 |-> <<2, 18>>, IQ2_S |-> <<8, 82>>, IQ3_XXS |-> <<8, 98>>, IQ3_S |-> <<8, 110>>,
   IQ4_NL |-> <<1, 18>>, IQ4_XS |-> <<8, 136>>]

Types   == DOMAIN QuantSizes
Runtime == DOMAIN QBLOCK

Elements(t) == QuantSizes[t][1]
Bytes(t)    == QuantSizes[t][2]

(* Shapes: a row that is not a whole number of blocks is an error, and      *)
(* sb_row_bytes alone rounds it down.                                       *)
Raised == -1
ToBytes(t, n)   == IF n % Elements(t) # 0 THEN Raised ELSE (n \div Elements(t)) * Bytes(t)
FromBytes(t, n) == IF n % Bytes(t) # 0 THEN Raised ELSE (n \div Bytes(t)) * Elements(t)
RowBytes(t, n)  == IF n % QBLOCK[t][1] # 0 THEN Raised ELSE (n \div QBLOCK[t][1]) * QBLOCK[t][2]
SbRowBytes(t, n) == (n \div SbBlockElems(t)) * SbBlockBytes(t)

(* Rows go to a type's code in about n / 16 groups of rows that follow each *)
(* other (np.array_split): the sizes of the groups.                         *)
GroupSizes(n) ==
  LET groups == IF n < 16 THEN 1 ELSE n \div 16
  IN  [g \in 1..groups |-> n \div groups + (IF g <= (n % groups) THEN 1 ELSE 0)]

(* Tables of the index types: rows, and hexadecimal digits of the packed    *)
(* table, whose entries take 2, or 3 in a nibble, bits of a byte.           *)
GridIQ2_XXS == [rows |-> 256, width |-> 8, values |-> 3, hex |-> 1024]
GridIQ2_XS  == [rows |-> 512, width |-> 8, values |-> 3, hex |-> 2048]
GridIQ2_S   == [rows |-> 1024, width |-> 8, values |-> 3, hex |-> 4096]
GridIQ3_XXS == [rows |-> 256, width |-> 4, values |-> 8, hex |-> 1024]
GridIQ3_S   == [rows |-> 512, width |-> 4, values |-> 8, hex |-> 2048]
GridIQ1_S   == [rows |-> 2048, width |-> 8, values |-> 3, hex |-> 8192]

Grid(t) ==
  [IQ2_XXS |-> GridIQ2_XXS, IQ2_XS |-> GridIQ2_XS, IQ2_S |-> GridIQ2_S,
   IQ3_XXS |-> GridIQ3_XXS, IQ3_S |-> GridIQ3_S, IQ1_S |-> GridIQ1_S, IQ1_M |-> GridIQ1_S][t]
GridTypes == {"IQ2_XXS", "IQ2_XS", "IQ2_S", "IQ3_XXS", "IQ3_S", "IQ1_S", "IQ1_M"}

(* init_grid: ceil(log2(values)) bits an entry, 8 // bits entries a byte.   *)
EntryBits(t) == IF Grid(t).values <= 4 THEN 2 ELSE 3
GridEntries(t) == (Grid(t).hex \div 2) * (8 \div EntryBits(t))
-----------------------------------------------------------------------------
(* quantize_blocks: the bits the code of element i is stored in.            *)
PackQ4_0(i)  == Nib(2 + (i % 16), i \div 16)
PackQ4_1(i)  == Nib(4 + (i % 16), i \div 16)
PackQ5_0(i)  == Nib(6 + (i % 16), i \div 16) \o F(2, i, 1)
PackQ5_1(i)  == Nib(8 + (i % 16), i \div 16) \o F(4, i, 1)
PackQ8_0(i)  == F(2 + i, 0, 8)
PackTQ2_0(i) == F(32 * (i \div 128) + (i % 32), 2 * ((i \div 32) % 4), 2)
PackMXFP4(i) == Nib(1 + (i % 16), i \div 16)

Packs(t, i) ==
  CASE t = "Q4_0" -> PackQ4_0(i) [] t = "Q4_1" -> PackQ4_1(i) [] t = "Q5_0" -> PackQ5_0(i)
    [] t = "Q5_1" -> PackQ5_1(i) [] t = "Q8_0" -> PackQ8_0(i) [] t = "TQ2_0" -> PackTQ2_0(i)
    [] t = "MXFP4" -> PackMXFP4(i)
PackTypes == {"Q4_0", "Q4_1", "Q5_0", "Q5_1", "Q8_0", "TQ2_0", "MXFP4"}

(* Q4_0 and Q5_0 (n = 8, 16): the element of the largest magnitude, m, is   *)
(* -n steps; trunc(x / d + n + 1/2) as a byte, then at most 2n - 1.         *)
Clip(c, top) == IF c > top THEN top ELSE c
Signed(n, m, x) ==
  IF m = 0 THEN n
  ELSE LET sg == IF m < 0 THEN -1 ELSE 1
       IN  Clip(((((2 * n + 1) * m - 2 * n * x) * sg) \div (2 * m * sg)) % 256, 2 * n - 1)

(* Q4_1 and Q5_1 (n = 15, 31): steps from the smallest element.             *)
Ranged(n, low, high, x) ==
  IF high = low THEN 0
  ELSE Clip(((2 * n * (x - low) + (high - low)) \div (2 * (high - low))) % 256, n)

(* np_roundf(p / q): half away from zero.                                   *)
Roundf(p, q) ==
  LET a  == IF p < 0 THEN -p ELSE p
      up == a \div q + (2 * (a % q)) \div q
  IN  IF p < 0 THEN -up ELSE up

(* TQ1_0: five trits as a base 3 number n, stored as ceil(n * 256 / 243);   *)
(* a digit comes back by a byte's product that wraps and its top third.     *)
TritByte(ts) ==
  ((81 * ts[1] + 27 * ts[2] + 9 * ts[3] + 3 * ts[4] + ts[5]) * 256 + 242) \div 243
TritAt(byte, k) == (((byte * <<1, 3, 9, 27, 81>>[k]) % 256) * 3) \div 256

(* BF16 of a float's two halves of 16 bits: a NaN is made quiet, the rest   *)
(* is rounded to nearest even by a sum whose low 16 bits are the result.    *)
IsNan(hi, lo) ==
  LET magnitude == hi % 32768
  IN  magnitude > 32640 \/ (magnitude = 32640 /\ lo > 0)
Quiet(hi) == IF (hi \div 64) % 2 = 1 THEN hi ELSE hi + 64
ToBf16(hi, lo) ==
  IF IsNan(hi, lo)
  THEN Quiet(hi)
  ELSE (hi + (lo + 32767 + (hi % 2)) \div 65536) % 65536

(* MXFP4's factor, e8m0: the float bits as an exponent and the top bits of  *)
(* the mantissa in quarters; its value is 2^(Log2 of it).                   *)
E8m0(x) == IF x < 2 THEN [exp |-> 0, quarters |-> 2^x] ELSE [exp |-> x - 1, quarters |-> 0]
Log2Of(f) ==
  IF f.exp = 0 THEN -126 - (IF f.quarters = 1 THEN 2 ELSE 1) ELSE f.exp - 127

(* NVFP4's factor, ue4m3, in units of 2^-10 (half of 2^-9), and its code    *)
(* from a float of n units of 2^-12: the float's own exponent and three     *)
(* mantissa bits, the fourth rounding up.                                   *)
Ue4m3(x) ==
  LET exp == (x \div 8) % 16
      man == x % 8
  IN  IF x \in {0, 127} THEN 0 ELSE IF exp = 0 THEN man ELSE (8 + man) * 2^(exp - 1)

Floor2(n) == CHOOSE e \in 0..30 : 2^e <= n /\ n < 2 * 2^e
ToUe4m3(n) ==
  LET x    == Clip(n, 448 * 4096)
      e    == Floor2(x)
      top  == IF e >= 4 THEN x \div 2^(e - 4) ELSE x * 2^(4 - e)   \* 1mmmr
      man  == ((top \div 2) % 8) + (top % 2)
      exp  == (e - 12 + 7) + (IF man > 7 THEN 1 ELSE 0)
  IN  IF x <= 0 THEN 0
      ELSE IF e - 12 + 7 <= 0 THEN Clip((x * 512 + 2048) \div 4096, 7)
      ELSE IF e - 12 + 7 >= 15 \/ exp >= 15 THEN 126
      ELSE exp * 8 + (IF man > 7 THEN 0 ELSE man)
-----------------------------------------------------------------------------
Located(r, offset) ==
  LET At(f) == [k \in DOMAIN f |-> 8 * offset + f[k]]
  IN  [d |-> At(r.d), dmin |-> At(r.dmin), scale |-> At(r.scale), min |-> At(r.min),
       code |-> At(r.code), at |-> r.at,
       sign |-> IF r.sign = <<>> THEN <<>> ELSE <<At(r.sign[1]), r.sign[2]>>]

(* Element l of sub-block n of a row, by each of the three.                 *)
PyElement(t, n, l) ==
  LET e == 32 * n + l
  IN  Located(PyReads(t, e % Elements(t)), Bytes(t) * (e \div Elements(t)))
HostElement(t, n, l) ==
  LET e == 32 * n + l
      b == HostBlock[t]
  IN  Located(HostReads(t, e % b[1]), b[2] * (e \div b[1]))
KernelElement(t, n, l) ==
  Located(KernelReads(t, n, l), KernelBlock[t][2] * (n \div KernelBlock[t][1]))

BitsOf(r) ==
  UNION {ToSet(f) : f \in {r.d, r.dmin, r.scale, r.min, r.code,
                           IF r.sign = <<>> THEN <<>> ELSE r.sign[1]}}

RowElements(t) == RowBlocks * Elements(t)
Subs(t) == RowElements(t) \div 32

QuantInit == qt \in Types /\ s = 0 /\ seen = {}

(* The next 32 elements of the row.                                         *)
Dequantize ==
  /\ s < Subs(qt)
  /\ s' = s + 1
  /\ seen' = seen \cup UNION {BitsOf(PyElement(qt, s, l)) : l \in 0..31}
  /\ UNCHANGED qt

QuantNext == Dequantize
QuantSpec == QuantInit /\ [][QuantNext]_quantVars
-----------------------------------------------------------------------------
QuantTypeOK ==
  /\ qt \in Types /\ s \in 0..Subs(qt)
  /\ seen \subseteq 0..8 * Bytes(qt) * RowBlocks - 1

(* The self-check's dequantizer and the kernel make every element of every  *)
(* block from the fields gguf-py makes it from.                             *)
FieldsAgree ==
  qt \in Runtime /\ s < Subs(qt) =>
    \A l \in 0..31 :
      /\ HostElement(qt, s, l) = PyElement(qt, s, l)
      /\ KernelElement(qt, s, l) = PyElement(qt, s, l)

(* A row is read whole: no bit of it is beside every field, none outside.   *)
RowIsReadWhole == s = Subs(qt) => seen = 0..8 * ToBytes(qt, RowElements(qt)) - 1

(* Two elements are never made from one code: where codes share a bit they  *)
(* are one table row or one byte of trits, and the elements are different   *)
(* entries of it.                                                           *)
CodesAreOwn ==
  s < Subs(qt) =>
    \A l \in 0..31, m \in 0..31 :
      LET a == PyElement(qt, s, l)
          b == PyElement(qt, s, m)
      IN  l < m /\ ToSet(a.code) \cap ToSet(b.code) # {} => a.code = b.code /\ a.at # b.at

(* Every index a type's bits can hold has its row in the table, which is    *)
(* unpacked to exactly its rows.                                            *)
IndexesAreInTheTable ==
  \A t \in GridTypes :
    LET r == PyReads(t, 0)
    IN  2^Len(r.code) = Grid(t).rows /\ GridEntries(t) = Grid(t).rows * Grid(t).width

(* One geometry, whoever computes it; a row comes back from its bytes.      *)
GeometryAgrees ==
  \A t \in Types :
    /\ FromBytes(t, ToBytes(t, RowElements(t))) = RowElements(t)
    /\ t \in Runtime =>
         /\ QBLOCK[t] = QuantSizes[t] /\ HostBlock[t] = QuantSizes[t]
         /\ KernelBlock[t] = <<Elements(t) \div 32, Bytes(t)>>
         /\ \A n \in {32, 64, 256, 512} :
              RowBytes(t, n) # Raised =>
                RowBytes(t, n) = ToBytes(t, n) /\ SbRowBytes(t, n) = ToBytes(t, n)

(* What gguf-py packs it unpacks: a code is read from where it was stored,  *)
(* no byte of trits loses a digit, an exponent byte is one power of two, a  *)
(* factor of NVFP4 below its last octave has its code, a NaN stays one.     *)
PackedIsRead ==
  /\ \A t \in PackTypes : \A i \in 0..Elements(t) - 1 : Packs(t, i) = PyReads(t, i).code
  /\ \A ts \in [1..5 -> 0..2], k \in 1..5 : TritAt(TritByte(ts), k) = ts[k]
  /\ \A x \in 0..255 : Log2Of(E8m0(x)) = x - 128
  /\ \A c \in 0..119 : ToUe4m3(8 * Ue4m3(c)) = c
  /\ \A hi \in {32639, 32640, 32641, 32704, 32767, 65408, 65409, 65535}, lo \in {0, 1, 65535} :
       IsNan(ToBf16(hi, lo), 0) <=> IsNan(hi, lo)

(* An element comes back within half a step, or within one where the code   *)
(* has no level left on its side.                                           *)
Magnitude(x) == IF x < 0 THEN -x ELSE x
CodesAreNearest ==
  \A m \in -3..3, x \in -3..3 :
    /\ Magnitude(x) <= Magnitude(m) =>
         \A n \in {8, 16} :
           LET c == Signed(n, m, x)
           IN  /\ c \in 0..2 * n - 1
               /\ 2 * Magnitude(n * x + (c - n) * m) <=
                    (IF c = 2 * n - 1 THEN 2 ELSE 1) * Magnitude(m)
    /\ x <= m =>
         \A high \in m..3, n \in {15, 31} :
           LET c == Ranged(n, x, high, m)
           IN  2 * Magnitude(n * (m - x) - c * (high - x)) <= high - x
    /\ m > 0 => 2 * Magnitude(Roundf(127 * x, m) * m - 127 * x) <= m

(* Groups of rows are every row once, none larger than two groups' worth.   *)
GroupsAreTheRows ==
  \A n \in 0..70 :
    LET g == GroupSizes(n)
    IN  FoldSeq(+, 0, g) = n /\ \A k \in DOMAIN g : g[k] <= 31

QuantsAreRead ==
  /\ QuantTypeOK /\ FieldsAgree /\ RowIsReadWhole /\ CodesAreOwn
  /\ s = 0 => /\ IndexesAreInTheTable /\ GeometryAgrees /\ PackedIsRead /\ CodesAreNearest
              /\ GroupsAreTheRows
=============================================================================
