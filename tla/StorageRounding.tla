--------------------------- MODULE StorageRounding ---------------------------
(***************************************************************************)
(* DTypePolicy::round_f32 of src/dtype.rs: an f32 is rounded to what a     *)
(* bf16 or f16 store would hold and expanded again.                        *)
(*                                                                         *)
(* The widths of the formats are constants, so that every value of a small *)
(* format can be checked; the code has WideMant = 23, HalfMant = 10,       *)
(* WideExpMax = 255, HalfExpMax = 31, WideBias = 127, HalfBias = 15 and    *)
(* Dropped = 16.  A float is the natural number of its bits without the    *)
(* sign, which every path copies.                                          *)
(***************************************************************************)
EXTENDS Integers

CONSTANTS
  WideMant, WideExpMax, WideBias,   (* f32: mantissa bits, last exponent, bias *)
  HalfMant, HalfExpMax, HalfBias,   (* f16                                     *)
  Dropped                           (* the low bits that bf16 does not keep    *)

ASSUME RoundingAssumption ==
  /\ {WideMant, WideExpMax, WideBias, HalfMant, HalfExpMax, HalfBias} \subseteq Nat \ {0}
  /\ HalfMant < WideMant /\ HalfBias < WideBias
  /\ HalfExpMax + WideBias - HalfBias < WideExpMax
  /\ HalfMant < WideBias - HalfBias
  /\ Dropped \in 1 .. WideMant - 1

StorageDType == {"F32", "Bf16", "F16"}

WideInf == WideExpMax * 2 ^ WideMant
HalfInf == HalfExpMax * 2 ^ HalfMant
Floats == 0 .. (WideExpMax + 1) * 2 ^ WideMant - 1

(* What finite bits stand for, in units of the smallest wide number.       *)
WideUnits(b) ==
  LET exp == b \div 2 ^ WideMant
      mant == b % 2 ^ WideMant
  IN  IF exp = 0 THEN mant ELSE (2 ^ WideMant + mant) * 2 ^ (exp - 1)

HalfUnit == 2 ^ (WideBias - HalfBias + WideMant - HalfMant)

HalfUnits(h) ==
  LET exp == h \div 2 ^ HalfMant
      mant == h % 2 ^ HalfMant
  IN  HalfUnit * (IF exp = 0 THEN mant ELSE (2 ^ HalfMant + mant) * 2 ^ (exp - 1))

-----------------------------------------------------------------------------
(* round_to_bf16.                                                          *)
RoundToBf16(b) ==
  LET lsb == (b \div 2 ^ Dropped) % 2
      sum == b + 2 ^ (Dropped - 1) - 1 + lsb
  IN  IF b >= WideInf THEN b ELSE sum - (sum % 2 ^ Dropped)

(* f32_to_f16_bits: subnormal and normal halves.                           *)
HalfSubnormal(half_exp, mant) ==
  LET mantissa == 2 ^ WideMant + mant
      shift == WideMant - HalfMant + 1 - half_exp
      half_mant == mantissa \div 2 ^ shift
      round_bit == (mantissa \div 2 ^ (shift - 1)) % 2
      sticky == mantissa % 2 ^ (shift - 1)
  IN  IF round_bit # 0 /\ (sticky # 0 \/ half_mant % 2 # 0) THEN half_mant + 1 ELSE half_mant

(* Mutant: a tie is rounded away from zero.                                *)
HalfNormalTiesUp(half_exp, mant) ==
  LET cut == 2 ^ (WideMant - HalfMant)
      half == half_exp * 2 ^ HalfMant + mant \div cut
  IN  IF mant % cut >= cut \div 2 THEN half + 1 ELSE half

HalfNormal(half_exp, mant) ==
  LET cut == 2 ^ (WideMant - HalfMant)
      half == half_exp * 2 ^ HalfMant + mant \div cut
      round == mant % cut
  IN  IF round > cut \div 2 \/ (round = cut \div 2 /\ half % 2 # 0) THEN half + 1 ELSE half

HalfBits(b) ==
  LET exp == b \div 2 ^ WideMant
      mant == b % 2 ^ WideMant
      half_exp == exp - WideBias + HalfBias
  IN  CASE exp = WideExpMax -> IF mant = 0 THEN HalfInf ELSE HalfInf + 2 ^ (HalfMant - 1)
        [] exp # WideExpMax /\ half_exp >= HalfExpMax -> HalfInf
        [] half_exp < -HalfMant -> 0
        [] half_exp \in -HalfMant .. 0 -> HalfSubnormal(half_exp, mant)
        [] half_exp \in 1 .. HalfExpMax - 1 -> HalfNormal(half_exp, mant)

(* f16_bits_to_f32.  The product that expands a subnormal is exact.        *)
ExpandSubnormal(mant) == CHOOSE b \in 0 .. WideInf - 1 : WideUnits(b) = mant * HalfUnit

ExpandHalf(h) ==
  LET exp == h \div 2 ^ HalfMant
      mant == h % 2 ^ HalfMant
  IN  CASE exp = 0 -> IF mant = 0 THEN 0 ELSE ExpandSubnormal(mant)
        [] exp = HalfExpMax -> IF mant = 0 THEN WideInf ELSE WideInf + 2 ^ (WideMant - 1)
        [] OTHER -> (exp + WideBias - HalfBias) * 2 ^ WideMant + mant * 2 ^ (WideMant - HalfMant)

Rounded(dtype, b) ==
  CASE dtype = "F32" -> b
    [] dtype = "Bf16" -> RoundToBf16(b)
    [] dtype = "F16" -> ExpandHalf(HalfBits(b))

-----------------------------------------------------------------------------
(* What the rows of a store are, and what rounding to it promises.         *)
Distance(x, y) == IF x >= y THEN x - y ELSE y - x

(* The numbers of a store in ascending order, infinity being the number    *)
(* after the last.                                                         *)
LastCode(dtype) ==
  CASE dtype = "F32" -> WideInf
    [] dtype = "Bf16" -> WideInf \div 2 ^ Dropped
    [] dtype = "F16" -> HalfInf
Number(dtype, code) ==
  CASE dtype = "F32" -> WideUnits(code)
    [] dtype = "Bf16" -> WideUnits(code * 2 ^ Dropped)
    [] dtype = "F16" -> HalfUnits(code)

(* "Rounded to nearest even" (the comments on StorageDType): finite bits   *)
(* become a number of the store that none is closer to, the even one of    *)
(* two that are as close.  What is not finite stays so.                    *)
IsNearestEven(dtype, bits, stored) ==
  IF bits < WideInf
    THEN \E code \in 0 .. LastCode(dtype) :
           /\ IF code = LastCode(dtype) THEN stored = WideInf
                                       ELSE Number(dtype, code) = WideUnits(stored)
           /\ \A other \in (0 .. LastCode(dtype)) \ {code} :
                LET mine == Distance(Number(dtype, code), WideUnits(bits))
                    its == Distance(Number(dtype, other), WideUnits(bits))
                IN  mine < its \/ (mine = its /\ code % 2 = 0)
    ELSE (stored = WideInf) = (bits = WideInf) /\ stored >= WideInf

=============================================================================
