-------------------------- MODULE PureFunctionsProofs --------------------------
(***************************************************************************)
(* Theorems about the functions that keep no state, for every argument a   *)
(* caller may give: the widths of the floats, the integers, the heads, the *)
(* texts and the rows are the constants of PureFunctions.                  *)
(*                                                                         *)
(* Most of them are loops.  A loop that the model writes as a fold or as a *)
(* recursive function is unfolded once, then followed by induction on its  *)
(* turns, with NatSetInduction.                                            *)
(***************************************************************************)
EXTENDS PureFunctions, FiniteSetTheorems, SequenceTheorems, NaturalsInduction,
        WellFoundedInduction, TLAPS

-----------------------------------------------------------------------------
(* The library's induction takes an operator; this one takes the set of    *)
(* the numbers for which something holds.                                  *)
LEMMA NatSetInduction ==
  ASSUME NEW S, 0 \in S, \A n \in Nat : n \in S => n + 1 \in S
  PROVE  Nat \subseteq S
<1> DEFINE T == Nat \ S
<1> SUFFICES ASSUME T # {} PROVE FALSE
  OBVIOUS
<1>1. PICK x \in T : \A y \in T : ~ (<<y, x>> \in OpToRel(<, Nat))
  <2>1. T \subseteq Nat
    OBVIOUS
  <2> HIDE DEF T
  <2>2. QED
    BY <2>1, WFMin, NatLessThanWellFounded
<1>2. \A y \in T : ~(y < x)
  BY <1>1 DEF OpToRel
<1>3. x # 0 /\ x \in Nat
  OBVIOUS
<1>4. x - 1 \in Nat /\ x - 1 < x
  BY <1>3
<1>5. x - 1 \in S
  BY <1>2, <1>4
<1>6. (x - 1) + 1 = x
  BY <1>3
<1> QED
  BY <1>4, <1>5, <1>6

-----------------------------------------------------------------------------
(* Euclidean division and powers of two.                                   *)

(* Euclidean division brackets its quotient, and only its quotient.        *)
LEMMA Division ==
  ASSUME NEW a \in Nat, NEW b \in Nat \ {0}
  PROVE  /\ a \div b \in Nat /\ a % b \in 0 .. b - 1
         /\ a = b * (a \div b) + (a % b)
<1>1. a \div b \in Nat
  BY SMT
<1>2. a = b * (a \div b) + (a % b) /\ a % b \in 0 .. b - 1
  BY SMT
<1> QED
  BY <1>1, <1>2

(* A number has one quotient and one remainder.                            *)
LEMMA QuotientUnique ==
  ASSUME NEW b \in Nat \ {0}, NEW q \in Nat, NEW r \in 0 .. b - 1
  PROVE  (b * q + r) \div b = q /\ (b * q + r) % b = r
<1> DEFINE a == b * q + r
           d == a \div b
<1>1. a \in Nat /\ b * q <= a /\ a < b * q + b
  BY SMT
<1>2. d \in Nat /\ b * d <= a /\ a < b * d + b /\ a = b * d + (a % b)
  <2> HIDE DEF a
  <2>1. a \in Nat
    BY <1>1
  <2>2. d \in Nat /\ a % b \in 0 .. b - 1 /\ a = b * d + (a % b)
    BY <2>1, Division
  <2> QED
    BY <2>2
<1>3. ~(d < q)
  <2> SUFFICES ASSUME d < q PROVE FALSE
    OBVIOUS
  <2> HIDE DEF a, d
  <2>1. b * (d + 1) <= b * q
    BY <1>2, SMT
  <2> QED
    BY <1>1, <1>2, <2>1, SMT
<1>4. ~(q < d)
  <2> SUFFICES ASSUME q < d PROVE FALSE
    OBVIOUS
  <2> HIDE DEF a, d
  <2>1. b * (q + 1) <= b * d
    BY <1>2, SMT
  <2> QED
    BY <1>1, <1>2, <2>1, SMT
<1>5. d = q
  BY <1>2, <1>3, <1>4
<1>6. a % b = r
  <2>1. a = b * q + (a % b) /\ a % b \in Nat
    <3>1. a % b \in 0 .. b - 1
      BY <1>1, Division
    <3> QED
      BY <1>2, <1>5, <3>1
  <2> QED
    BY <2>1
<1> QED
  BY <1>5, <1>6

(* Powers of two, which the library counts subsets with.                   *)

(* 2 ^ n is the number of the subsets of 1 .. n, which is where what is    *)
(* known of powers comes from.                                             *)
LEMMA PowerCounts ==
  ASSUME NEW n \in Nat
  PROVE  /\ IsFiniteSet(SUBSET (1 .. n)) /\ Cardinality(SUBSET (1 .. n)) = 2 ^ n
         /\ 2 ^ n \in Nat
<1>1. IsFiniteSet(1 .. n) /\ Cardinality(1 .. n) = n
  BY FS_Interval
<1>2. IsFiniteSet(SUBSET (1 .. n)) /\ Cardinality(SUBSET (1 .. n)) = 2 ^ Cardinality(1 .. n)
  BY <1>1, FS_SUBSET, Zenon
<1>3. Cardinality(SUBSET (1 .. n)) \in Nat
  BY <1>2, FS_CardinalityType
<1>4. QED
  BY <1>1, <1>2, <1>3

(* One more in the exponent doubles the power.                             *)
LEMMA PowerNext ==
  ASSUME NEW n \in Nat
  PROVE  2 ^ (n + 1) = 2 * 2 ^ n
<1> DEFINE A == SUBSET (1 .. n)
           B == {s \in SUBSET (1 .. n + 1) : n + 1 \in s}
           with == [s \in A |-> s \cup {n + 1}]
<1>1. IsFiniteSet(A) /\ Cardinality(A) = 2 ^ n /\ 2 ^ n \in Nat
  BY PowerCounts
<1>2. n + 1 \in Nat /\ Cardinality(SUBSET (1 .. n + 1)) = 2 ^ (n + 1) /\ 2 ^ (n + 1) \in Nat
  <2>1. n + 1 \in Nat
    OBVIOUS
  <2>2. QED
    BY <2>1, PowerCounts
<1>3. with \in Bijection(A, B)
  <2>1. n + 1 \notin 1 .. n /\ 1 .. n + 1 = (1 .. n) \cup {n + 1}
    OBVIOUS
  <2>2. with \in [A -> B]
    BY <2>1
  <2>3. \A s, t \in A : with[s] = with[t] => s = t
    <3> SUFFICES ASSUME NEW s \in A, NEW t \in A, s \cup {n + 1} = t \cup {n + 1}
                 PROVE  s = t
      OBVIOUS
    <3>1. n + 1 \notin s /\ n + 1 \notin t
      BY <2>1
    <3>2. s = (s \cup {n + 1}) \ {n + 1} /\ t = (t \cup {n + 1}) \ {n + 1}
      BY <3>1
    <3>3. QED
      BY <3>2
  <2>4. \A t \in B : \E s \in A : with[s] = t
    <3> SUFFICES ASSUME NEW t \in B PROVE \E s \in A : with[s] = t
      OBVIOUS
    <3>1. t \ {n + 1} \in A /\ with[t \ {n + 1}] = t
      BY <2>1
    <3>2. QED
      BY <3>1
  <2>5. DOMAIN with = A
    OBVIOUS
  <2> HIDE DEF with, A, B
  <2>6. QED
    BY <2>2, <2>3, <2>4, <2>5 DEF Bijection, Injection, Surjection, IsInjective
<1>4. IsFiniteSet(B) /\ Cardinality(B) = Cardinality(A)
  <2> HIDE DEF with, A, B
  <2>1. QED
    BY <1>1, <1>3, FS_Bijection DEF ExistsBijection
<1>5. A \cup B = SUBSET (1 .. n + 1) /\ A \cap B = {}
  <2>1. n + 1 \notin 1 .. n /\ 1 .. n + 1 = (1 .. n) \cup {n + 1}
    OBVIOUS
  <2>2. QED
    BY <2>1
<1> HIDE DEF with, A, B
<1>6. Cardinality(A \cup B) = Cardinality(A) + Cardinality(B) - Cardinality(A \cap B)
  BY <1>1, <1>4, FS_Union
<1>7. Cardinality(A \cap B) = 0
  BY <1>5, FS_EmptySet
<1>8. 2 ^ (n + 1) = 2 ^ n + 2 ^ n - 0
  BY <1>1, <1>2, <1>4, <1>5, <1>6, <1>7, Zenon
<1>9. \A a \in Nat : a + a - 0 = 2 * a
  OBVIOUS
<1>10. QED
  BY <1>1, <1>8, <1>9, Zenon

(* Powers multiply where exponents add up.                                 *)
LEMMA PowerSum ==
  ASSUME NEW m \in Nat, NEW n \in Nat
  PROVE  2 ^ (m + n) = 2 ^ m * 2 ^ n
<1> DEFINE S == {k \in Nat : 2 ^ (m + k) = 2 ^ m * 2 ^ k}
<1>1. 0 \in S
  <2>1. 2 ^ 0 = 1
    BY SMT
  <2>2. 2 ^ m \in Nat /\ m + 0 = m
    <3>1. 2 ^ m \in Nat
      BY PowerCounts
    <3>2. m + 0 = m
      OBVIOUS
    <3>3. QED
      BY <3>1, <3>2
  <2>3. \A a \in Nat : a = a * 1
    OBVIOUS
  <2>4. 2 ^ (m + 0) = 2 ^ m * 2 ^ 0
    BY <2>1, <2>2, <2>3, Zenon
  <2>5. QED
    BY <2>4
<1>2. ASSUME NEW k \in Nat, k \in S
      PROVE  k + 1 \in S
  <2>1. 2 ^ (m + k) = 2 ^ m * 2 ^ k
    BY <1>2
  <2>2. 2 ^ (k + 1) = 2 * 2 ^ k
    BY PowerNext
  <2>3. 2 ^ ((m + k) + 1) = 2 * 2 ^ (m + k)
    <3>1. m + k \in Nat
      OBVIOUS
    <3>2. QED
      BY <3>1, PowerNext
  <2>4. 2 ^ m \in Nat /\ 2 ^ k \in Nat
    BY PowerCounts
  <2>5. \A a, b \in Nat : 2 * (a * b) = a * (2 * b)
    BY SMT
  <2>6. (m + k) + 1 = m + (k + 1)
    OBVIOUS
  <2>7. 2 ^ (m + (k + 1)) = 2 ^ m * 2 ^ (k + 1)
    BY <2>1, <2>2, <2>3, <2>4, <2>5, <2>6
  <2>8. QED
    BY <2>7
<1>3. n \in S
  <2> HIDE DEF S
  <2>1. QED
    BY <1>1, <1>2, NatSetInduction
<1>4. QED
  BY <1>3

(* A power of two is a positive natural number.                            *)
LEMMA PowerPositive ==
  ASSUME NEW n \in Nat
  PROVE  2 ^ n \in Nat \ {0}
<1>1. {} \in SUBSET (1 .. n)
  OBVIOUS
<1>2. Cardinality(SUBSET (1 .. n)) # 0
  BY <1>1, PowerCounts, FS_EmptySet
<1> QED
  BY <1>2, PowerCounts

-----------------------------------------------------------------------------
(* Floats as numbers.                                                      *)

(* WideUnits and HalfUnits for any number of mantissa bits.                *)
Units(bits, code) ==
  LET expo == code \div 2 ^ bits
      low  == code % 2 ^ bits
  IN  IF expo = 0 THEN low ELSE (2 ^ bits + low) * 2 ^ (expo - 1)

(* What a code counts, from its exponent and its mantissa.                 *)
LEMMA UnitsInside ==
  ASSUME NEW bits \in Nat, NEW e \in Nat, NEW mant \in 0 .. 2 ^ bits - 1
  PROVE  Units(bits, e * 2 ^ bits + mant)
           = IF e = 0 THEN mant ELSE (2 ^ bits + mant) * 2 ^ (e - 1)
<1> DEFINE p == 2 ^ bits
<1>1. p \in Nat \ {0} /\ mant \in 0 .. p - 1
  BY PowerPositive
<1> HIDE DEF p
<1>2. (e * p + mant) \div p = e /\ (e * p + mant) % p = mant
  <2>1. (p * e + mant) \div p = e /\ (p * e + mant) % p = mant
    BY <1>1, QuotientUnique
  <2>2. p * e = e * p
    BY <1>1, SMT
  <2> QED
    BY <2>1, <2>2, Zenon
<1> QED
  BY <1>2, Zenon DEF Units, p

(* The numbers of one exponent, and the first of the next, lie on a line.  *)
LEMMA UnitsAt ==
  ASSUME NEW bits \in Nat, NEW e \in Nat, NEW mant \in 0 .. 2 ^ bits
  PROVE  Units(bits, e * 2 ^ bits + mant)
           = IF e = 0 THEN mant ELSE (2 ^ bits + mant) * 2 ^ (e - 1)
<1> DEFINE p == 2 ^ bits
<1>1. p \in Nat \ {0} /\ mant \in 0 .. p
  BY PowerPositive
<1>2. \A f \in Nat : \A m \in 0 .. p - 1 :
        Units(bits, f * p + m) = IF f = 0 THEN m ELSE (p + m) * 2 ^ (f - 1)
  BY UnitsInside
<1>3. SUFFICES Units(bits, e * p + mant) = IF e = 0 THEN mant ELSE (p + mant) * 2 ^ (e - 1)
  OBVIOUS
<1> HIDE DEF p
<1>4. CASE mant # p
  <2>1. mant \in 0 .. p - 1
    BY <1>1, <1>4
  <2> QED
    BY <1>2, <2>1, Zenon
<1>5. CASE mant = p
  <2>1. e * p + p = (e + 1) * p + 0
    BY <1>1, SMT
  <2>2. 0 \in 0 .. p - 1 /\ e + 1 \in Nat /\ e + 1 # 0 /\ (e + 1) - 1 = e
    BY <1>1
  <2>3. Units(bits, (e + 1) * p + 0) = (p + 0) * 2 ^ e
    BY <1>2, <2>2, Zenon
  <2>4. CASE e = 0
    <3>1. 2 ^ 0 = 1
      BY SMT
    <3>2. (p + 0) * 1 = p
      BY <1>1
    <3> QED
      BY <1>5, <2>1, <2>3, <2>4, <3>1, <3>2, Zenon
  <2>5. CASE e # 0
    <3>1. e - 1 \in Nat /\ (e - 1) + 1 = e
      BY <2>5
    <3>2. 2 ^ e = 2 * 2 ^ (e - 1) /\ 2 ^ (e - 1) \in Nat
      BY <3>1, PowerNext, PowerPositive
    <3>3. \A a, b \in Nat : (a + 0) * (2 * b) = (a + a) * b
      BY SMT
    <3>4. (p + 0) * (2 * 2 ^ (e - 1)) = (p + p) * 2 ^ (e - 1)
      <4>1. p \in Nat
        BY <1>1
      <4> QED
        BY <3>2, <3>3, <4>1, Zenon
    <3> QED
      BY <1>5, <2>1, <2>3, <2>5, <3>2, <3>4, Zenon
  <2> QED
    BY <2>4, <2>5
<1> QED
  BY <1>4, <1>5

(* Within an exponent, and at the first code of the next one, codes are    *)
(* evenly spaced.                                                          *)
LEMMA UnitsLinear ==
  ASSUME NEW bits \in Nat, NEW e \in Nat
  PROVE  \E base \in Nat, unit \in Nat \ {0} :
           \A mant \in 0 .. 2 ^ bits : Units(bits, e * 2 ^ bits + mant) = base + mant * unit
<1> DEFINE p == 2 ^ bits
<1>1. p \in Nat \ {0}
  BY PowerPositive
<1>2. \A m \in 0 .. p :
        Units(bits, e * p + m) = IF e = 0 THEN m ELSE (p + m) * 2 ^ (e - 1)
  BY UnitsAt
<1>3. SUFFICES \E base \in Nat, unit \in Nat \ {0} :
                 \A mant \in 0 .. p : Units(bits, e * p + mant) = base + mant * unit
  OBVIOUS
<1> HIDE DEF p
<1>4. CASE e = 0
  <2>1. \A mant \in 0 .. p : Units(bits, e * p + mant) = 0 + mant * 1
    <3> TAKE mant \in 0 .. p
    <3>1. Units(bits, e * p + mant) = mant
      BY <1>2, <1>4, Zenon
    <3>2. mant = 0 + mant * 1
      BY <1>1
    <3> QED
      BY <3>1, <3>2, Zenon
  <2>2. 0 \in Nat /\ 1 \in Nat \ {0}
    OBVIOUS
  <2> QED
    BY <2>1, <2>2, Zenon
<1>5. CASE e # 0
  <2> DEFINE unit == 2 ^ (e - 1)
  <2>1. unit \in Nat \ {0}
    <3>1. e - 1 \in Nat
      BY <1>5
    <3> QED
      BY <3>1, PowerPositive
  <2>2. \A m \in 0 .. p : Units(bits, e * p + m) = (p + m) * unit
    BY <1>2, <1>5, Zenon
  <2> HIDE DEF unit
  <2>3. \A m \in 0 .. p : (p + m) * unit = p * unit + m * unit
    BY <1>1, <2>1, SMT
  <2>4. \A m \in 0 .. p : Units(bits, e * p + m) = p * unit + m * unit
    BY <2>2, <2>3, Zenon
  <2>5. p * unit \in Nat
    BY <1>1, <2>1, SMT
  <2> QED
    BY <2>1, <2>4, <2>5, Zenon
<1> QED
  BY <1>4, <1>5

(* Every code is an exponent and a mantissa.                               *)
LEMMA CodeSplits ==
  ASSUME NEW bits \in Nat, NEW code \in Nat
  PROVE  /\ code \div 2 ^ bits \in Nat /\ code % 2 ^ bits \in 0 .. 2 ^ bits - 1
         /\ code = (code \div 2 ^ bits) * 2 ^ bits + (code % 2 ^ bits)
<1> DEFINE p == 2 ^ bits
<1>1. p \in Nat \ {0}
  BY PowerPositive
<1> HIDE DEF p
<1>2. code \div p \in Nat /\ code % p \in 0 .. p - 1 /\ code = p * (code \div p) + (code % p)
  BY <1>1, Division
<1>3. \A a \in Nat : p * a = a * p
  BY <1>1, SMT
<1>4. code = (code \div p) * p + (code % p)
  BY <1>2, <1>3
<1> QED
  BY <1>2, <1>4 DEF p

(* The next code is a larger number.                                       *)
LEMMA UnitsGrow ==
  ASSUME NEW bits \in Nat, NEW code \in Nat
  PROVE  /\ Units(bits, code) \in Nat
         /\ Units(bits, code) < Units(bits, code + 1)
<1> DEFINE p == 2 ^ bits
           e == code \div p
           m == code % p
<1>1. p \in Nat \ {0} /\ e \in Nat /\ m \in 0 .. p - 1 /\ code = e * p + m
  BY PowerPositive, CodeSplits
<1>2. PICK base \in Nat, unit \in Nat \ {0} :
        \A mant \in 0 .. p : Units(bits, e * p + mant) = base + mant * unit
  BY <1>1, UnitsLinear
<1> HIDE DEF p, e, m
<1>3. m \in 0 .. p /\ m + 1 \in 0 .. p /\ code + 1 = e * p + (m + 1)
  <2>1. e * p \in Nat
    BY <1>1, SMT
  <2> QED
    BY <1>1, <2>1
<1>4. Units(bits, code) = base + m * unit /\ Units(bits, code + 1) = base + (m + 1) * unit
  BY <1>1, <1>2, <1>3
<1>5. (m + 1) * unit = m * unit + unit /\ m * unit \in Nat
  BY <1>3, SMT
<1> QED
  BY <1>4, <1>5

-----------------------------------------------------------------------------
(* The nearest of a strictly ascending sequence of numbers.                *)
Ascends(num, last) ==
  /\ num \in [0 .. last -> Nat]
  /\ \A c \in 0 .. last - 1 : num[c] < num[c + 1]

(* What grows from each code to the next grows over any distance.          *)
LEMMA AscendsFar ==
  ASSUME NEW last \in Nat, NEW num, Ascends(num, last)
  PROVE  \A i, j \in 0 .. last : i < j => num[i] < num[j]
<1> DEFINE S == {d \in Nat : \A i \in 0 .. last : i + 1 + d \in 0 .. last => num[i] < num[i + 1 + d]}
<1>1. 0 \in S
  BY DEF Ascends
<1>2. ASSUME NEW d \in Nat, d \in S
      PROVE  d + 1 \in S
  <2> SUFFICES ASSUME NEW i \in 0 .. last, i + 1 + (d + 1) \in 0 .. last
               PROVE  num[i] < num[i + 1 + (d + 1)]
    OBVIOUS
  <2>1. num[i] < num[i + 1 + d] /\ i + 1 + d \in 0 .. last - 1
    BY <1>2
  <2>2. num[i + 1 + d] < num[(i + 1 + d) + 1] /\ (i + 1 + d) + 1 = i + 1 + (d + 1)
    BY <2>1 DEF Ascends
  <2>3. num[i] \in Nat /\ num[i + 1 + d] \in Nat /\ num[i + 1 + (d + 1)] \in Nat
    BY <2>1 DEF Ascends
  <2> QED
    BY <2>1, <2>2, <2>3
<1>3. \A d \in Nat : d \in S
  <2> HIDE DEF S
  <2> QED
    BY <1>1, <1>2, NatSetInduction
<1> TAKE i, j \in 0 .. last
<1>4. i < j => j - i - 1 \in Nat /\ i + 1 + (j - i - 1) = j
  OBVIOUS
<1> QED
  BY <1>3, <1>4

Nearest(num, last, x, code) ==
  /\ code \in 0 .. last
  /\ \A other \in (0 .. last) \ {code} :
       LET mine == Distance(num[code], x)
           its == Distance(num[other], x)
       IN  mine < its \/ (mine = its /\ code % 2 = 0)

(* Of the two neighbours of x the closer one, or the even one of two.      *)
LEMMA NearestOfTwo ==
  ASSUME NEW last \in Nat, NEW num, Ascends(num, last),
         NEW x \in Nat, NEW c \in 0 .. last - 1, num[c] <= x, x <= num[c + 1],
         NEW code \in {c, c + 1},
         code = c => \/ 2 * x < num[c] + num[c + 1]
                     \/ 2 * x = num[c] + num[c + 1] /\ c % 2 = 0,
         code = c + 1 => \/ 2 * x > num[c] + num[c + 1]
                         \/ 2 * x = num[c] + num[c + 1] /\ (c + 1) % 2 = 0
  PROVE  Nearest(num, last, x, code)
<1>1. \A i \in 0 .. last : num[i] \in Nat
  BY DEF Ascends
<1>2. num[c] \in Nat /\ num[c + 1] \in Nat /\ c + 1 \in 0 .. last /\ num[c] < num[c + 1]
  BY <1>1 DEF Ascends
<1> SUFFICES ASSUME NEW other \in (0 .. last) \ {code}
             PROVE  LET mine == Distance(num[code], x)
                        its == Distance(num[other], x)
                    IN  mine < its \/ (mine = its /\ code % 2 = 0)
  BY <1>2 DEF Nearest
<1>3. num[other] \in Nat
  BY <1>1
<1>4. /\ other < c => num[other] < num[c]
      /\ other > c + 1 => num[other] > num[c + 1]
  BY <1>2, AscendsFar
<1>5. other < c \/ other = c \/ other = c + 1 \/ other > c + 1
  OBVIOUS
<1>6. CASE code = c
  BY <1>2, <1>3, <1>4, <1>5, <1>6 DEF Distance
<1>7. CASE code = c + 1
  BY <1>2, <1>3, <1>4, <1>5, <1>7 DEF Distance
<1> QED
  BY <1>6, <1>7

(* What is past the last number is nearest to the last one.                *)
LEMMA NearestIsLast ==
  ASSUME NEW last \in Nat, NEW num, Ascends(num, last), NEW x \in Nat, num[last] <= x
  PROVE  Nearest(num, last, x, last)
<1> SUFFICES ASSUME NEW other \in (0 .. last) \ {last}
             PROVE  Distance(num[last], x) < Distance(num[other], x)
  BY DEF Nearest
<1>1. num[other] < num[last]
  BY AscendsFar
<1>2. num[other] \in Nat /\ num[last] \in Nat
  BY DEF Ascends
<1> QED
  BY <1>1, <1>2 DEF Distance

(* x is r units above a number and the next number is 2 H units above it.  *)
LEMMA NearestByHalf ==
  ASSUME NEW last \in Nat, NEW num, Ascends(num, last),
         NEW c \in 0 .. last - 1, NEW unit \in Nat \ {0}, NEW H \in Nat \ {0}, NEW r \in 0 .. 2 * H - 1,
         num[c + 1] = num[c] + (2 * H) * unit
  PROVE  Nearest(num, last, num[c] + r * unit,
                 IF r > H \/ (r = H /\ c % 2 # 0) THEN c + 1 ELSE c)
<1> DEFINE low == num[c]
           high == num[c + 1]
           x == low + r * unit
           code == IF r > H \/ (r = H /\ c % 2 # 0) THEN c + 1 ELSE c
<1>1. low \in Nat /\ high \in Nat
  BY DEF Ascends
<1>2. r * unit \in Nat /\ H * unit \in Nat /\ (2 * H) * unit = 2 * (H * unit)
  BY SMT
<1>3. /\ r < H => r * unit < H * unit
      /\ r > H => r * unit > H * unit
      /\ r <= 2 * H => r * unit <= (2 * H) * unit
  <2>1. \A a, b \in Nat : a < b => a * unit < b * unit
    <3> TAKE a, b \in Nat
    <3>1. a < b => (b - a) * unit >= 1 /\ (b - a) * unit = b * unit - a * unit
      BY SMT
    <3>2. a * unit \in Nat /\ b * unit \in Nat
      BY SMT
    <3> QED
      BY <3>1, <3>2
  <2> QED
    BY <2>1
<1>4. high = low + 2 * (H * unit)
  BY <1>2
<1>5. x \in Nat /\ low <= x /\ x <= high
  BY <1>1, <1>2, <1>3, <1>4
<1>6. c % 2 \in {0, 1} /\ (c + 1) % 2 = 1 - (c % 2)
  BY SMT
<1>7. code \in {c, c + 1}
  OBVIOUS
<1>8. /\ r < H => 2 * x < low + high
      /\ r = H => 2 * x = low + high
      /\ r > H => 2 * x > low + high
  BY <1>1, <1>2, <1>3, <1>4
<1>9. /\ code = c => \/ 2 * x < low + high
                     \/ 2 * x = low + high /\ c % 2 = 0
      /\ code = c + 1 => \/ 2 * x > low + high
                         \/ 2 * x = low + high /\ (c + 1) % 2 = 0
  <2>1. CASE r > H
    <3>1. code = c + 1
      BY <2>1
    <3> HIDE DEF code, x
    <3> QED
      BY <1>8, <2>1, <3>1
  <2>2. CASE r = H /\ c % 2 # 0
    <3>1. code = c + 1 /\ (c + 1) % 2 = 0
      BY <2>2, <1>6
    <3> HIDE DEF code, x
    <3> QED
      BY <1>8, <2>2, <3>1
  <2>3. CASE r = H /\ c % 2 = 0
    <3>1. code = c
      BY <2>3
    <3> HIDE DEF code, x
    <3> QED
      BY <1>8, <2>3, <3>1
  <2>4. CASE r < H
    <3>1. code = c
      BY <2>4
    <3> HIDE DEF code, x
    <3> QED
      BY <1>8, <2>4, <3>1
  <2> QED
    BY <1>6, <2>1, <2>2, <2>3, <2>4
<1> HIDE DEF x, code
<1>10. Nearest(num, last, x, code)
  BY <1>5, <1>7, <1>9, NearestOfTwo DEF low, high
<1> QED
  BY <1>10 DEF x, code, low

(* Powers of two grow, by any factor.                                      *)
LEMMA PowerSplit ==
  ASSUME NEW m \in Nat, NEW n \in Nat, m <= n
  PROVE  2 ^ n = 2 ^ m * 2 ^ (n - m) /\ 2 ^ m <= 2 ^ n
<1>1. n - m \in Nat /\ m + (n - m) = n
  OBVIOUS
<1>2. 2 ^ n = 2 ^ m * 2 ^ (n - m)
  BY <1>1, PowerSum
<1>3. 2 ^ m \in Nat \ {0} /\ 2 ^ (n - m) \in Nat \ {0}
  BY <1>1, PowerPositive
<1>4. \A a, b \in Nat \ {0} : a <= a * b
  BY SMT
<1> QED
  BY <1>2, <1>3, <1>4

(* A greater code is a greater number.                                     *)
LEMMA UnitsAscend ==
  ASSUME NEW bits \in Nat, NEW i \in Nat, NEW j \in Nat, i < j
  PROVE  Units(bits, i) < Units(bits, j)
<1> DEFINE num == [c \in 0 .. j |-> Units(bits, c)]
<1>1. Ascends(num, j)
  <2>1. \A c \in Nat : Units(bits, c) \in Nat /\ Units(bits, c) < Units(bits, c + 1)
    BY UnitsGrow
  <2> QED
    BY <2>1 DEF Ascends
<1>2. i \in 0 .. j /\ j \in 0 .. j
  OBVIOUS
<1>3. num[i] = Units(bits, i) /\ num[j] = Units(bits, j)
  BY <1>2
<1> HIDE DEF num
<1>4. num[i] < num[j]
  BY <1>1, <1>2, AscendsFar
<1> QED
  BY <1>3, <1>4

(* A number is less than the power that follows those of its exponent.     *)
LEMMA UnitsBelow ==
  ASSUME NEW bits \in Nat, NEW e \in Nat, NEW m \in 0 .. 2 ^ bits - 1
  PROVE  Units(bits, e * 2 ^ bits + m) < 2 ^ (bits + e)
<1> DEFINE p == 2 ^ bits
<1>1. p \in Nat \ {0} /\ m \in 0 .. p - 1
  BY PowerPositive
<1>2. Units(bits, e * p + m) = IF e = 0 THEN m ELSE (p + m) * 2 ^ (e - 1)
  BY UnitsInside
<1>3. 2 ^ (bits + e) = p * 2 ^ e
  BY PowerSum
<1>4. SUFFICES Units(bits, e * p + m) < p * 2 ^ e
  BY <1>3
<1> HIDE DEF p
<1>5. CASE e = 0
  <2>1. 2 ^ 0 = 1 /\ p * 1 = p
    BY <1>1, SMT
  <2>2. p * 2 ^ e = p
    BY <1>5, <2>1, Zenon
  <2>3. Units(bits, e * p + m) = m
    BY <1>2, <1>5
  <2> QED
    BY <1>1, <2>2, <2>3
<1>6. CASE e # 0
  <2> DEFINE h == 2 ^ (e - 1)
  <2>1. e - 1 \in Nat /\ (e - 1) + 1 = e
    BY <1>6
  <2>2. 2 ^ e = 2 * h /\ h \in Nat \ {0}
    BY <2>1, PowerNext, PowerPositive
  <2>3. Units(bits, e * p + m) = (p + m) * h
    BY <1>2, <1>6
  <2> HIDE DEF h
  <2>4. \A a, b \in Nat : a < b => a * h < b * h
    <3> TAKE a, b \in Nat
    <3>1. a < b => (b - a) * h >= 1 /\ (b - a) * h = b * h - a * h
      BY <2>2, SMT
    <3>2. a * h \in Nat /\ b * h \in Nat
      BY <2>2, SMT
    <3> QED
      BY <3>1, <3>2
  <2>5. (p + m) * h < (2 * p) * h
    BY <1>1, <2>4
  <2>6. (2 * p) * h = p * (2 * h)
    BY <1>1, <2>2, SMT
  <2> QED
    BY <2>2, <2>3, <2>5, <2>6
<1> QED
  BY <1>5, <1>6

-----------------------------------------------------------------------------
(* The three stores.                                                       *)

(* What the assumption on the widths comes to.                             *)
LEMMA Widths ==
  /\ WideMant \in Nat \ {0} /\ WideExpMax \in Nat \ {0} /\ WideBias \in Nat \ {0}
  /\ HalfMant \in Nat \ {0} /\ HalfExpMax \in Nat \ {0} /\ HalfBias \in Nat \ {0}
  /\ HalfMant < WideMant /\ HalfBias < WideBias
  /\ HalfExpMax + WideBias - HalfBias < WideExpMax
  /\ HalfMant < WideBias - HalfBias
  /\ Dropped \in Nat \ {0} /\ Dropped < WideMant
<1>1. /\ WideMant \in Nat \ {0} /\ WideExpMax \in Nat \ {0} /\ WideBias \in Nat \ {0}
      /\ HalfMant \in Nat \ {0} /\ HalfExpMax \in Nat \ {0} /\ HalfBias \in Nat \ {0}
  BY RoundingAssumption
<1> QED
  BY <1>1, RoundingAssumption

(* The codes of the f32.                                                   *)
LEMMA WideFacts ==
  /\ WideInf \in Nat \ {0}
  /\ WideInf = WideExpMax * 2 ^ WideMant
  /\ Floats = 0 .. WideInf + 2 ^ WideMant - 1
  /\ 2 ^ WideMant \in Nat \ {0}
<1> DEFINE p == 2 ^ WideMant
<1>1. p \in Nat \ {0} /\ WideExpMax \in Nat \ {0}
  BY Widths, PowerPositive
<1> HIDE DEF p
<1>2. WideExpMax * p \in Nat \ {0} /\ (WideExpMax + 1) * p = WideExpMax * p + p
  BY <1>1, SMT
<1>3. WideInf = WideExpMax * p
  BY DEF WideInf, p
<1>4. Floats = 0 .. (WideExpMax + 1) * p - 1
  BY Zenon DEF Floats, p
<1>5. Floats = 0 .. WideInf + p - 1
  <2>1. (WideExpMax + 1) * p - 1 = WideInf + p - 1
    <3> HIDE DEF WideInf
    <3> QED
      BY <1>1, <1>2, <1>3
  <2> QED
    BY <1>4, <2>1, Zenon
<1>6. WideInf \in Nat \ {0}
  BY <1>2, <1>3, Zenon
<1> QED
  BY <1>1, <1>3, <1>5, <1>6, Zenon DEF p

(* What the checks of IsNearestEven come to for finite bits.               *)
LEMMA NearestIsEven ==
  ASSUME NEW dtype, NEW bits \in 0 .. WideInf - 1, NEW stored, NEW last, LastCode(dtype) = last,
         NEW num, \A c \in 0 .. last : num[c] = Number(dtype, c),
         NEW code, Nearest(num, last, WideUnits(bits), code),
         IF code = last THEN stored = WideInf ELSE Number(dtype, code) = WideUnits(stored)
  PROVE  IsNearestEven(dtype, bits, stored)
<1>1. code \in 0 .. last
  BY DEF Nearest
<1>2. ASSUME NEW other \in (0 .. last) \ {code}
      PROVE  LET mine == Distance(Number(dtype, code), WideUnits(bits))
                 its == Distance(Number(dtype, other), WideUnits(bits))
             IN  mine < its \/ (mine = its /\ code % 2 = 0)
  <2>1. num[code] = Number(dtype, code) /\ num[other] = Number(dtype, other)
    BY <1>1
  <2> QED
    BY <2>1, Zenon DEF Nearest
<1>3. bits < WideInf
  BY WideFacts
<1> QED
  BY <1>1, <1>2, <1>3, Zenon DEF IsNearestEven

(* An f32 in an f32 store is itself.                                       *)
LEMMA RoundedWide ==
  ASSUME NEW bits \in Floats
  PROVE  IsNearestEven("F32", bits, Rounded("F32", bits)) /\ Rounded("F32", bits) \in Floats
<1>1. Rounded("F32", bits) = bits
  BY Zenon DEF Rounded
<1>2. CASE bits < WideInf
  <2> DEFINE num == [c \in 0 .. WideInf |-> WideUnits(c)]
  <2>1. \A c : WideUnits(c) = Units(WideMant, c) /\ Number("F32", c) = WideUnits(c)
    BY Zenon DEF WideUnits, Units, Number
  <2>2. LastCode("F32") = WideInf /\ WideInf \in Nat
    BY WideFacts DEF LastCode
  <2>3. \A c \in Nat : WideUnits(c) \in Nat /\ WideUnits(c) < WideUnits(c + 1)
    BY <2>1, UnitsGrow, Widths
  <2>4. bits \in 0 .. WideInf - 1 /\ bits \in Nat /\ bits \in {bits, bits + 1}
    BY <1>2, WideFacts
  <2>5. num[bits] = WideUnits(bits) /\ num[bits + 1] = WideUnits(bits + 1)
    BY <2>2, <2>4
  <2>6. Ascends(num, WideInf)
    <3>1. num \in [0 .. WideInf -> Nat]
      BY <2>3
    <3>2. ASSUME NEW c \in 0 .. WideInf - 1 PROVE num[c] < num[c + 1]
      <4>1. c \in Nat /\ c \in 0 .. WideInf /\ c + 1 \in 0 .. WideInf
        BY <2>2
      <4>2. num[c] = WideUnits(c) /\ num[c + 1] = WideUnits(c + 1)
        BY <4>1
      <4> HIDE DEF num
      <4> QED
        BY <2>3, <4>1, <4>2
    <3> QED
      BY <3>1, <3>2, Zenon DEF Ascends
  <2>7. \A c \in 0 .. WideInf : num[c] = Number("F32", c)
    BY <2>1
  <2> HIDE DEF num
  <2>8. Nearest(num, WideInf, WideUnits(bits), bits)
    <3>1. WideUnits(bits) \in Nat /\ WideUnits(bits + 1) \in Nat /\ WideUnits(bits) < WideUnits(bits + 1)
      BY <2>3, <2>4
    <3>2. 2 * WideUnits(bits) < num[bits] + num[bits + 1] /\ num[bits] <= WideUnits(bits)
          /\ WideUnits(bits) <= num[bits + 1] /\ bits # bits + 1
      BY <2>4, <2>5, <3>1
    <3> QED
      BY <2>2, <2>4, <2>6, <3>1, <3>2, NearestOfTwo
  <2>9. bits # WideInf
    BY <1>2, <2>2
  <2> QED
    BY <1>1, <2>1, <2>2, <2>4, <2>7, <2>8, <2>9, NearestIsEven
<1>3. CASE ~(bits < WideInf)
  <2>1. bits >= WideInf
    BY <1>3, WideFacts
  <2> QED
    BY <1>1, <1>3, <2>1 DEF IsNearestEven
<1> QED
  BY <1>2, <1>3

(* The sum that rounds is exact about the half: its carry says which of    *)
(* the two neighbours is taken.                                            *)
LEMMA CarryRounds ==
  ASSUME NEW H \in Nat \ {0}, NEW c \in Nat, NEW r \in 0 .. 2 * H - 1
  PROVE  LET sum == (c * (2 * H) + r) + H - 1 + (c % 2)
         IN  sum - (sum % (2 * H)) =
               (IF r > H \/ (r = H /\ c % 2 # 0) THEN c + 1 ELSE c) * (2 * H)
<1> DEFINE P == 2 * H
           t == r + H - 1 + (c % 2)
           sum == (c * P + r) + H - 1 + (c % 2)
<1>1. c % 2 \in {0, 1} /\ P \in Nat \ {0} /\ c * P \in Nat /\ P * c = c * P
  BY SMT
<1>2. t \in 0 .. 2 * P - 1 /\ sum = c * P + t
  BY <1>1
<1>3. CASE r > H \/ (r = H /\ c % 2 # 0)
  <2>1. t - P \in 0 .. P - 1
    BY <1>1, <1>3
  <2>2. P * (c + 1) = c * P + P /\ (c + 1) * P = c * P + P
    BY <1>1, SMT
  <2> HIDE DEF P, t, sum
  <2>3. (P * (c + 1) + (t - P)) % P = t - P
    <3>1. c + 1 \in Nat
      OBVIOUS
    <3> QED
      BY <1>1, <2>1, <3>1, QuotientUnique, Zenon
  <2>4. sum = P * (c + 1) + (t - P)
    BY <1>1, <1>2, <2>2
  <2>5. sum % P = t - P
    BY <2>3, <2>4, Zenon
  <2>6. sum - (sum % P) = (c + 1) * P
    BY <1>1, <1>2, <2>1, <2>2, <2>5
  <2> QED
    BY <1>3, <2>6, Zenon DEF P, sum
<1>4. CASE ~(r > H \/ (r = H /\ c % 2 # 0))
  <2>1. t \in 0 .. P - 1
    BY <1>1, <1>4
  <2> HIDE DEF P, t, sum
  <2>3. (P * c + t) % P = t
    BY <1>1, <2>1, QuotientUnique
  <2>4. sum = P * c + t
    BY <1>1, <1>2
  <2>5. sum % P = t
    BY <2>3, <2>4, Zenon
  <2>6. sum - (sum % P) = c * P
    <3>1. \A a, b \in Nat : (a + b) - b = a
      OBVIOUS
    <3>2. c * P \in Nat /\ t \in Nat
      BY <1>1, <2>1
    <3> QED
      BY <1>2, <2>5, <3>1, <3>2, Zenon
  <2> QED
    BY <1>4, <2>6, Zenon DEF P, sum
<1> QED
  BY <1>3, <1>4

(* The codes of bf16 are those of f32 without the low bits.                *)
LEMMA Bf16Codes ==
  LET P == 2 ^ Dropped
      H == 2 ^ (Dropped - 1)
      K == 2 ^ (WideMant - Dropped)
  IN  /\ P = 2 * H /\ H \in Nat \ {0} /\ P \in Nat \ {0} /\ K \in Nat \ {0}
      /\ 2 ^ WideMant = K * P
      /\ LastCode("Bf16") = WideExpMax * K /\ WideInf = (WideExpMax * K) * P
<1> DEFINE P == 2 ^ Dropped
           H == 2 ^ (Dropped - 1)
           K == 2 ^ (WideMant - Dropped)
<1>1. /\ Dropped - 1 \in Nat /\ (Dropped - 1) + 1 = Dropped
      /\ WideMant - Dropped \in Nat /\ (WideMant - Dropped) + Dropped = WideMant
      /\ WideExpMax \in Nat /\ Dropped \in Nat
  BY Widths
<1>2. P = 2 * H
  BY <1>1, PowerNext
<1>3. H \in Nat \ {0} /\ P \in Nat \ {0} /\ K \in Nat \ {0}
  BY <1>1, PowerPositive
<1>4. 2 ^ WideMant = K * P
  BY <1>1, PowerSum
<1>5. WideInf = WideExpMax * (K * P)
  BY <1>4, WideFacts
<1> HIDE DEF P, H, K
<1>6. WideExpMax * (K * P) = (WideExpMax * K) * P /\ WideExpMax * K \in Nat
      /\ P * (WideExpMax * K) + 0 = (WideExpMax * K) * P /\ 0 \in 0 .. P - 1
  BY <1>1, <1>3, SMT
<1>7. (P * (WideExpMax * K) + 0) \div P = WideExpMax * K
  BY <1>3, <1>6, QuotientUnique
<1>8. LastCode("Bf16") = WideInf \div P
  BY DEF LastCode, P
<1>9. LastCode("Bf16") = WideExpMax * K /\ WideInf = (WideExpMax * K) * P
  BY <1>5, <1>6, <1>7, <1>8, Zenon
<1> QED
  BY <1>2, <1>3, <1>4, <1>9, Zenon DEF P, H, K

(* The carry of the bf16 conversion rounds to even, into infinity too.     *)
LEMMA RoundedBf16 ==
  ASSUME NEW bits \in Floats
  PROVE  IsNearestEven("Bf16", bits, Rounded("Bf16", bits)) /\ Rounded("Bf16", bits) \in Floats
<1> DEFINE P == 2 ^ Dropped
           H == 2 ^ (Dropped - 1)
           K == 2 ^ (WideMant - Dropped)
           last == WideExpMax * K
           stored == RoundToBf16(bits)
<1>1. Rounded("Bf16", bits) = stored
  BY Zenon DEF Rounded
<1>2. bits \in Nat /\ WideInf \in Nat \ {0} /\ WideInf <= WideInf + 2 ^ WideMant - 1
  BY WideFacts
<1>3. CASE ~(bits < WideInf)
  <2>1. bits >= WideInf
    BY <1>2, <1>3
  <2>2. stored = bits
    BY <2>1, Zenon DEF RoundToBf16
  <2> QED
    BY <1>1, <1>3, <2>1, <2>2 DEF IsNearestEven
<1>4. CASE bits < WideInf
  <2>1. /\ P = 2 * H /\ H \in Nat \ {0} /\ P \in Nat \ {0} /\ K \in Nat \ {0}
        /\ 2 ^ WideMant = K * P /\ LastCode("Bf16") = last /\ WideInf = last * P
    BY Bf16Codes
  <2> DEFINE e == bits \div 2 ^ WideMant
             m == bits % 2 ^ WideMant
  <2>2. e \in Nat /\ m \in 0 .. 2 ^ WideMant - 1 /\ bits = e * 2 ^ WideMant + m
    BY <1>2, CodeSplits, Widths
  <2> DEFINE q == m \div P
             r == m % P
  <2>3. q \in Nat /\ r \in 0 .. P - 1 /\ m = P * q + r
    <3> HIDE DEF P, m
    <3>1. m \in Nat
      BY <2>2
    <3> QED
      BY <2>1, <3>1, Division
  <2>4. m \in 0 .. K * P - 1 /\ bits = e * (K * P) + m /\ WideExpMax \in Nat
    BY <2>1, <2>2, Widths
  <2> DEFINE c == e * K + q
  <2> HIDE DEF P, H, K, e, m, q, r
  <2>5. /\ q < K /\ c \in Nat /\ bits = c * P + r
        /\ c * P = e * (K * P) + q * P /\ (c + 1) * P = e * (K * P) + (q + 1) * P
    <3>1. q < K
      <4> SUFFICES ASSUME K <= q PROVE FALSE
        BY <2>1, <2>3
      <4>1. P * K <= P * q /\ P * K = K * P
        BY <2>1, <2>3, SMT
      <4>2. P * K \in Nat /\ P * q \in Nat
        BY <2>1, <2>3, SMT
      <4> QED
        BY <2>3, <2>4, <4>1, <4>2
    <3>2. c \in Nat
      BY <2>1, <2>2, <2>3, SMT
    <3>3. c * P = e * (K * P) + q * P /\ (c + 1) * P = e * (K * P) + (q + 1) * P
      BY <2>1, <2>2, <2>3, SMT
    <3>4. P * q = q * P /\ q * P \in Nat /\ e * (K * P) \in Nat
      BY <2>1, <2>2, <2>3, SMT
    <3> QED
      BY <2>3, <2>4, <3>1, <3>2, <3>3, <3>4
  <2>6. c \in 0 .. last - 1 /\ last \in Nat
    <3>1. e < WideExpMax
      <4> SUFFICES ASSUME WideExpMax <= e PROVE FALSE
        BY <2>2, <2>4
      <4>1. WideExpMax * (K * P) <= e * (K * P)
        BY <2>1, <2>2, <2>4, SMT
      <4>2. last * P = WideExpMax * (K * P) /\ WideExpMax * (K * P) \in Nat /\ e * (K * P) \in Nat
        BY <2>1, <2>2, <2>4, SMT
      <4> HIDE DEF last
      <4> QED
        BY <1>2, <1>4, <2>1, <2>4, <4>1, <4>2
    <3>2. (e + 1) * K <= WideExpMax * K /\ (e + 1) * K = e * K + K
      BY <2>1, <2>2, <2>4, <3>1, SMT
    <3>3. e * K \in Nat /\ last \in Nat
      BY <2>1, <2>2, <2>4, SMT
    <3> QED
      BY <2>1, <2>3, <2>5, <3>2, <3>3
  <2> DEFINE code == IF r > H \/ (r = H /\ c % 2 # 0) THEN c + 1 ELSE c
  <2>7. stored = code * P
    <3>1. bits \div P = c
      <4>1. (P * c + r) \div P = c /\ P * c = c * P
        <5>1. (P * c + r) \div P = c
          BY <2>1, <2>3, <2>5, QuotientUnique
        <5>2. P * c = c * P
          BY <2>1, <2>5, SMT
        <5> QED
          BY <5>1, <5>2
      <4> QED
        BY <2>5, <4>1
    <3>2. stored = (bits + H - 1 + (c % 2)) - ((bits + H - 1 + (c % 2)) % P)
      <4>1. ~(bits >= WideInf)
        BY <1>2, <1>4
      <4> QED
        BY <3>1, <4>1, Zenon DEF RoundToBf16, P, H
    <3>3. r \in 0 .. 2 * H - 1
      BY <2>1, <2>3
    <3>4. LET sum == (c * (2 * H) + r) + H - 1 + (c % 2)
          IN  sum - (sum % (2 * H)) = code * (2 * H)
      BY <2>1, <2>5, <3>3, CarryRounds
    <3> HIDE DEF c, code
    <3> QED
      BY <2>1, <2>5, <3>2, <3>4, Zenon
  <2> DEFINE num == [k \in 0 .. last |-> WideUnits(k * P)]
  <2>8. \A k : WideUnits(k) = Units(WideMant, k) /\ Number("Bf16", k) = WideUnits(k * P)
    BY Zenon DEF WideUnits, Units, Number, P
  <2>9. Ascends(num, last)
    <3>1. ASSUME NEW k \in Nat
          PROVE  WideUnits(k * P) \in Nat /\ WideUnits(k * P) < WideUnits((k + 1) * P)
      <4>1. k * P \in Nat /\ (k + 1) * P \in Nat /\ k * P < (k + 1) * P
        BY <2>1, SMT
      <4>2. Units(WideMant, k * P) \in Nat /\ Units(WideMant, k * P) < Units(WideMant, (k + 1) * P)
        BY <4>1, UnitsGrow, UnitsAscend, Widths
      <4> QED
        BY <2>8, <4>2
    <3>2. num \in [0 .. last -> Nat]
      BY <3>1
    <3>3. ASSUME NEW k \in 0 .. last - 1 PROVE num[k] < num[k + 1]
      <4>1. k \in Nat /\ k \in 0 .. last /\ k + 1 \in 0 .. last
        BY <2>6
      <4>2. num[k] = WideUnits(k * P) /\ num[k + 1] = WideUnits((k + 1) * P)
        BY <4>1
      <4> HIDE DEF num
      <4> QED
        BY <3>1, <4>1, <4>2
    <3> QED
      BY <3>2, <3>3, Zenon DEF Ascends
  <2>10. PICK base \in Nat, unit \in Nat \ {0} :
           \A mant \in 0 .. 2 ^ WideMant : Units(WideMant, e * 2 ^ WideMant + mant) = base + mant * unit
    BY <2>2, UnitsLinear, Widths
  <2>11. /\ num[c] = base + (q * P) * unit
         /\ num[c + 1] = base + ((q + 1) * P) * unit
         /\ WideUnits(bits) = base + (q * P + r) * unit
    <3>1. q * P \in 0 .. K * P /\ (q + 1) * P \in 0 .. K * P /\ q * P + r \in 0 .. K * P
      <4>1. (q + 1) * P <= K * P /\ (q + 1) * P = q * P + P /\ q * P \in Nat
        BY <2>1, <2>3, <2>5, SMT
      <4> QED
        BY <2>1, <2>3, <4>1
    <3>2. bits = e * (K * P) + (q * P + r)
      <4>1. e * (K * P) \in Nat /\ q * P \in Nat
        BY <2>1, <2>2, <2>3, SMT
      <4> QED
        BY <2>3, <2>5, <4>1
    <3>3. c \in 0 .. last /\ c + 1 \in 0 .. last
      BY <2>6
    <3>4. num[c] = Units(WideMant, c * P) /\ num[c + 1] = Units(WideMant, (c + 1) * P)
      BY <2>8, <3>3
    <3> HIDE DEF c, num
    <3> QED
      BY <2>1, <2>5, <2>8, <2>10, <3>1, <3>2, <3>4, Zenon
  <2>12. WideUnits(bits) = num[c] + r * unit /\ num[c + 1] = num[c] + (2 * H) * unit
    <3>1. (q * P + r) * unit = (q * P) * unit + r * unit
          /\ ((q + 1) * P) * unit = (q * P) * unit + P * unit
      BY <2>1, <2>3, SMT
    <3>2. (q * P) * unit \in Nat /\ r * unit \in Nat /\ P * unit \in Nat
      BY <2>1, <2>3, SMT
    <3> HIDE DEF c, num
    <3> QED
      BY <2>1, <2>11, <3>1, <3>2
  <2>13. Nearest(num, last, WideUnits(bits), code)
    <3>1. r \in 0 .. 2 * H - 1
      BY <2>1, <2>3
    <3> HIDE DEF num, last, c
    <3>2. Nearest(num, last, num[c] + r * unit, code)
      BY <2>1, <2>6, <2>9, <2>10, <2>12, <3>1, NearestByHalf
    <3> QED
      BY <2>12, <3>2
  <2>14. \A k \in 0 .. last : num[k] = Number("Bf16", k)
    BY <2>8
  <2>15. bits \in 0 .. WideInf - 1
    BY <1>2, <1>4
  <2>16. IF code = last THEN stored = WideInf ELSE Number("Bf16", code) = WideUnits(stored)
    BY <2>1, <2>7, <2>8, Zenon
  <2>17. stored \in Floats
    <3>1. code \in 0 .. last
      BY <2>6
    <3> HIDE DEF code, last
    <3>2. code * P \in Nat /\ code * P <= last * P
      BY <2>1, <2>6, <3>1, SMT
    <3>3. stored \in Nat /\ stored <= WideInf
      BY <2>1, <2>7, <3>2
    <3> HIDE DEF stored
    <3> QED
      BY <3>3, WideFacts
  <2> HIDE DEF num, last, code, stored
  <2>18. IsNearestEven("Bf16", bits, stored)
    BY <2>1, <2>13, <2>14, <2>15, <2>16, NearestIsEven
  <2> QED
    BY <1>1, <2>17, <2>18 DEF stored
<1> QED
  BY <1>3, <1>4

-----------------------------------------------------------------------------
(* f16: its exponents begin Offset later, its mantissas are Cut shorter.   *)
Offset == WideBias - HalfBias
Cut == WideMant - HalfMant

(* The widths and the units of an f16.                                     *)
LEMMA HalfFacts ==
  /\ Offset \in Nat \ {0} /\ HalfMant < Offset /\ HalfExpMax + Offset < WideExpMax
  /\ Cut \in Nat \ {0} /\ HalfMant + Cut = WideMant
  /\ 2 ^ WideMant = 2 ^ HalfMant * 2 ^ Cut
  /\ HalfUnit = 2 ^ (Offset + Cut) /\ HalfUnit = 2 ^ Offset * 2 ^ Cut
  /\ HalfUnit \in Nat \ {0} /\ 2 ^ HalfMant \in Nat \ {0} /\ 2 ^ Cut \in Nat \ {0}
  /\ HalfInf = HalfExpMax * 2 ^ HalfMant /\ HalfInf \in Nat \ {0}
<1>1. /\ Offset \in Nat \ {0} /\ HalfMant < Offset /\ HalfExpMax + Offset < WideExpMax
      /\ Cut \in Nat \ {0} /\ HalfMant + Cut = WideMant /\ HalfMant \in Nat
  BY Widths DEF Offset, Cut
<1>2. 2 ^ WideMant = 2 ^ HalfMant * 2 ^ Cut
  BY <1>1, PowerSum
<1>3. WideBias - HalfBias + WideMant - HalfMant = Offset + Cut
  BY Widths DEF Offset, Cut
<1>4. HalfUnit = 2 ^ (Offset + Cut)
  BY <1>3, Zenon DEF HalfUnit
<1>5. Offset + Cut \in Nat /\ 2 ^ (Offset + Cut) = 2 ^ Offset * 2 ^ Cut
  BY <1>1, PowerSum
<1>6. HalfUnit \in Nat \ {0} /\ 2 ^ HalfMant \in Nat \ {0} /\ 2 ^ Cut \in Nat \ {0}
  BY <1>1, <1>4, <1>5, PowerPositive
<1>7. HalfInf = HalfExpMax * 2 ^ HalfMant /\ HalfInf \in Nat \ {0}
  <2> DEFINE p == 2 ^ HalfMant
  <2>1. HalfInf = HalfExpMax * p
    BY DEF HalfInf
  <2>2. p \in Nat \ {0}
    BY <1>6
  <2> HIDE DEF p
  <2>3. HalfExpMax * p \in Nat \ {0}
    BY <2>2, Widths, SMT
  <2> QED
    BY <2>1, <2>3, Zenon DEF p
<1> QED
  BY <1>1, <1>2, <1>4, <1>5, <1>6, <1>7, Zenon

HalfNumbers == [c \in 0 .. HalfInf |-> HalfUnits(c)]

(* The numbers of f16 grow with their codes, in units of the smallest one. *)
LEMMA HalfAscends ==
  /\ \A c : HalfUnits(c) = HalfUnit * Units(HalfMant, c)
  /\ Ascends(HalfNumbers, HalfInf)
<1>1. \A c : HalfUnits(c) = HalfUnit * Units(HalfMant, c)
  BY Zenon DEF HalfUnits, Units
<1>2. ASSUME NEW c \in Nat
      PROVE  HalfUnits(c) \in Nat /\ HalfUnits(c) < HalfUnits(c + 1)
  <2>1. /\ Units(HalfMant, c) \in Nat /\ Units(HalfMant, c) < Units(HalfMant, c + 1)
        /\ Units(HalfMant, c + 1) \in Nat
    <3>1. c + 1 \in Nat /\ HalfMant \in Nat
      BY Widths
    <3>2. Units(HalfMant, c) \in Nat /\ Units(HalfMant, c) < Units(HalfMant, c + 1)
      BY <3>1, UnitsGrow
    <3>3. Units(HalfMant, c + 1) \in Nat
      BY <3>1, UnitsGrow
    <3> QED
      BY <3>2, <3>3
  <2>2. \A a, b \in Nat : a < b => HalfUnit * a < HalfUnit * b /\ HalfUnit * a \in Nat
    <3> TAKE a, b \in Nat
    <3>0. HalfUnit \in Nat \ {0}
      BY HalfFacts
    <3>1. a < b => HalfUnit * (b - a) >= 1 /\ HalfUnit * (b - a) = HalfUnit * b - HalfUnit * a
      BY <3>0, SMT
    <3>2. HalfUnit * a \in Nat /\ HalfUnit * b \in Nat
      BY <3>0, SMT
    <3> QED
      BY <3>1, <3>2
  <2> QED
    BY <1>1, <2>1, <2>2
<1>3. HalfInf \in Nat
  BY HalfFacts
<1>4. HalfNumbers \in [0 .. HalfInf -> Nat]
  BY <1>2 DEF HalfNumbers
<1>5. ASSUME NEW c \in 0 .. HalfInf - 1 PROVE HalfNumbers[c] < HalfNumbers[c + 1]
  <2>1. c \in Nat /\ c \in 0 .. HalfInf /\ c + 1 \in 0 .. HalfInf
    BY <1>3
  <2>2. HalfNumbers[c] = HalfUnits(c) /\ HalfNumbers[c + 1] = HalfUnits(c + 1)
    BY <2>1 DEF HalfNumbers
  <2> QED
    BY <1>2, <2>1, <2>2
<1> QED
  BY <1>1, <1>4, <1>5, Zenon DEF Ascends

(* The leading bit of a number.                                            *)
LEMMA LeadingBit ==
  ASSUME NEW n \in Nat, NEW q \in 1 .. 2 ^ n - 1
  PROVE  \E k \in 0 .. n - 1 : 2 ^ k <= q /\ q < 2 ^ (k + 1)
<1> DEFINE S == {k \in Nat : q < 2 ^ k => \E j \in 0 .. k - 1 : 2 ^ j <= q /\ q < 2 ^ (j + 1)}
<1>0. q \in Nat \ {0} /\ q < 2 ^ n
  <2>1. 2 ^ n \in Nat
    BY PowerPositive
  <2> QED
    BY <2>1
<1>1. 0 \in S
  <2>1. 2 ^ 0 = 1
    BY SMT
  <2>2. ~(q < 2 ^ 0)
    BY <1>0, <2>1
  <2> QED
    BY <2>2
<1>2. ASSUME NEW k \in Nat, k \in S
      PROVE  k + 1 \in S
  <2> SUFFICES ASSUME q < 2 ^ (k + 1)
               PROVE  \E j \in 0 .. (k + 1) - 1 : 2 ^ j <= q /\ q < 2 ^ (j + 1)
    OBVIOUS
  <2>1. CASE q < 2 ^ k
    <3>1. PICK j \in 0 .. k - 1 : 2 ^ j <= q /\ q < 2 ^ (j + 1)
      BY <1>2, <2>1
    <3>2. j \in 0 .. (k + 1) - 1
      OBVIOUS
    <3> QED
      BY <3>1, <3>2
  <2>2. CASE ~(q < 2 ^ k)
    <3>1. 2 ^ k <= q
      <4>1. 2 ^ k \in Nat
        BY PowerPositive
      <4> QED
        BY <1>0, <2>2, <4>1
    <3>2. k \in 0 .. (k + 1) - 1
      OBVIOUS
    <3> QED
      BY <3>1, <3>2
  <2> QED
    BY <2>1, <2>2
<1>3. n \in S
  <2> HIDE DEF S
  <2> QED
    BY <1>1, <1>2, NatSetInduction
<1> QED
  BY <1>0, <1>3

(* Each subnormal half is a float.                                         *)
LEMMA SubnormalExpands ==
  ASSUME NEW q \in 1 .. 2 ^ HalfMant - 1
  PROVE  ExpandSubnormal(q) \in 0 .. WideInf - 1 /\ WideUnits(ExpandSubnormal(q)) = q * HalfUnit
<1> SUFFICES \E b \in 0 .. WideInf - 1 : WideUnits(b) = q * HalfUnit
  BY Zenon DEF ExpandSubnormal
<1>1. PICK k \in 0 .. HalfMant - 1 : 2 ^ k <= q /\ q < 2 ^ (k + 1)
  BY LeadingBit, Widths
<1> DEFINE lead == 2 ^ k
           shift == 2 ^ (WideMant - k)
           p == 2 ^ WideMant
           e == Offset - HalfMant + k + 1
           m == (q - lead) * shift
           b == e * p + m
<1>2. /\ k \in Nat /\ WideMant - k \in Nat /\ k + (WideMant - k) = WideMant
      /\ e \in Nat /\ e # 0 /\ e < WideExpMax /\ e - 1 \in Nat
      /\ (WideMant - k) + (e - 1) = Offset + Cut
  BY HalfFacts, Widths DEF Cut
<1>3. p = lead * shift /\ lead \in Nat \ {0} /\ shift \in Nat \ {0} /\ 2 ^ (k + 1) = 2 * lead
  <2>1. 2 ^ (k + (WideMant - k)) = lead * shift
    BY <1>2, PowerSum, Zenon
  <2>2. 2 ^ (k + (WideMant - k)) = p
    BY <1>2, Zenon
  <2>3. lead \in Nat \ {0} /\ shift \in Nat \ {0} /\ 2 ^ (k + 1) = 2 * lead
    BY <1>2, PowerNext, PowerPositive, Zenon
  <2> QED
    BY <2>1, <2>2, <2>3, Zenon
<1>4. q \in Nat /\ lead <= q /\ q < 2 * lead
  <2>1. 2 ^ HalfMant \in Nat
    BY HalfFacts
  <2> QED
    BY <1>1, <1>3, <2>1
<1>5. shift * 2 ^ (e - 1) = HalfUnit /\ 2 ^ (e - 1) \in Nat
  <2>1. 2 ^ ((WideMant - k) + (e - 1)) = shift * 2 ^ (e - 1)
    BY <1>2, PowerSum, Zenon
  <2>2. 2 ^ ((WideMant - k) + (e - 1)) = HalfUnit
    BY <1>2, HalfFacts, Zenon
  <2>3. 2 ^ (e - 1) \in Nat \ {0}
    BY <1>2, PowerPositive, Zenon
  <2> QED
    BY <2>1, <2>2, <2>3, Zenon
<1>6. m \in 0 .. p - 1 /\ p + m = q * shift
  <2> HIDE DEF lead, shift, p
  <2>1. (q - lead) * shift = q * shift - lead * shift /\ (q - lead) * shift >= 0
    BY <1>3, <1>4, SMT
  <2>2. q * shift < (2 * lead) * shift
    <3>1. (2 * lead - q) * shift >= 1 /\ (2 * lead - q) * shift = (2 * lead) * shift - q * shift
      BY <1>3, <1>4, SMT
    <3>2. (2 * lead) * shift \in Nat /\ q * shift \in Nat
      BY <1>3, <1>4, SMT
    <3> QED
      BY <3>1, <3>2
  <2>3. (2 * lead) * shift = 2 * (lead * shift) /\ lead * shift \in Nat /\ q * shift \in Nat
    BY <1>3, <1>4, SMT
  <2> QED
    BY <1>3, <2>1, <2>2, <2>3
<1>7. WideUnits(b) = (p + m) * 2 ^ (e - 1)
  <2>1. m \in 0 .. 2 ^ WideMant - 1
    BY <1>6
  <2>2. WideUnits(b) = Units(WideMant, b)
    BY Zenon DEF WideUnits, Units
  <2> HIDE DEF m, e
  <2>3. Units(WideMant, e * 2 ^ WideMant + m) = (2 ^ WideMant + m) * 2 ^ (e - 1)
    BY <1>2, <2>1, UnitsInside, Widths
  <2> QED
    BY <2>2, <2>3
<1>8. (p + m) * 2 ^ (e - 1) = q * HalfUnit
  <2> DEFINE u == 2 ^ (e - 1)
  <2> HIDE DEF p, m, shift, u
  <2>1. (q * shift) * u = q * (shift * u)
    <3>1. u \in Nat
      BY <1>5 DEF u
    <3> QED
      BY <1>3, <1>4, <3>1, SMT
  <2> QED
    BY <1>5, <1>6, <2>1, Zenon DEF u
<1>9. b \in 0 .. WideInf - 1
  <2> HIDE DEF p, m, e
  <2>1. p \in Nat \ {0} /\ WideInf = WideExpMax * p /\ WideExpMax \in Nat
    BY WideFacts, Widths DEF p
  <2>2. (e + 1) * p <= WideExpMax * p /\ (e + 1) * p = e * p + p /\ e * p \in Nat
        /\ WideExpMax * p \in Nat
    BY <1>2, <2>1, SMT
  <2> QED
    BY <1>6, <2>1, <2>2
<1> QED
  BY <1>7, <1>8, <1>9, Zenon

-----------------------------------------------------------------------------
(* Every finite half becomes the float that stands for the same number.    *)
LEMMA HalfExpands ==
  ASSUME NEW h \in 0 .. HalfInf - 1
  PROVE  ExpandHalf(h) \in 0 .. WideInf - 1 /\ WideUnits(ExpandHalf(h)) = HalfUnits(h)
<1> DEFINE hp == 2 ^ HalfMant
           e == h \div hp
           m == h % hp
           wide == (e + WideBias - HalfBias) * 2 ^ WideMant + m * 2 ^ (WideMant - HalfMant)
<1>1. h \in Nat /\ hp \in Nat \ {0} /\ HalfInf = HalfExpMax * hp /\ HalfExpMax \in Nat /\ HalfMant \in Nat
  BY HalfFacts, Widths
<1>2. e \in Nat /\ m \in 0 .. hp - 1 /\ h = e * hp + m
  BY <1>1, CodeSplits
<1>3. e < HalfExpMax
  <2> HIDE DEF hp, e, m
  <2> SUFFICES ASSUME HalfExpMax <= e PROVE FALSE
    BY <1>1, <1>2
  <2>1. HalfExpMax * hp <= e * hp /\ e * hp \in Nat /\ HalfExpMax * hp \in Nat
    BY <1>1, <1>2, SMT
  <2> QED
    BY <1>1, <1>2, <2>1
<1>4. HalfUnits(h) = HalfUnit * (IF e = 0 THEN m ELSE (hp + m) * 2 ^ (e - 1))
  BY Zenon DEF HalfUnits
<1>5. /\ e = 0 => ExpandHalf(h) = IF m = 0 THEN 0 ELSE ExpandSubnormal(m)
      /\ e # 0 => ExpandHalf(h) = wide
  <2>1. ExpandHalf(h) = CASE e = 0 -> IF m = 0 THEN 0 ELSE ExpandSubnormal(m)
                          [] e = HalfExpMax -> IF m = 0 THEN WideInf ELSE WideInf + 2 ^ (WideMant - 1)
                          [] OTHER -> wide
    BY Zenon DEF ExpandHalf
  <2>2. e # HalfExpMax /\ HalfExpMax # 0
    BY <1>1, <1>2, <1>3, Widths
  <2> HIDE DEF wide, e, m
  <2> QED
    BY <2>1, <2>2
<1>6. CASE e = 0 /\ m = 0
  <2>1. ExpandHalf(h) = 0 /\ HalfUnits(h) = HalfUnit * 0
    BY <1>4, <1>5, <1>6, Zenon
  <2>2. HalfUnit * 0 = 0 /\ 0 \in 0 .. WideInf - 1
    BY HalfFacts, WideFacts
  <2>3. WideUnits(0) = 0
    <3>1. WideUnits(0) = Units(WideMant, 0)
      BY Zenon DEF WideUnits, Units
    <3>2. Units(WideMant, 0 * 2 ^ WideMant + 0) = 0 /\ 0 * 2 ^ WideMant + 0 = 0
      <4>1. 0 \in 0 .. 2 ^ WideMant /\ 0 * 2 ^ WideMant + 0 = 0 /\ WideMant \in Nat /\ 0 \in Nat
        BY WideFacts, Widths
      <4> QED
        BY <4>1, UnitsAt, Zenon
    <3> QED
      BY <3>1, <3>2, Zenon
  <2> QED
    BY <2>1, <2>2, <2>3, Zenon
<1>7. CASE e = 0 /\ m # 0
  <2>1. ExpandHalf(h) = ExpandSubnormal(m) /\ HalfUnits(h) = HalfUnit * m
    BY <1>4, <1>5, <1>7, Zenon
  <2>2. m \in 1 .. 2 ^ HalfMant - 1
    BY <1>2, <1>7
  <2>3. HalfUnit * m = m * HalfUnit
    <3>1. m \in Nat /\ HalfUnit \in Nat
      BY <1>2, HalfFacts
    <3> HIDE DEF m
    <3> QED
      BY <3>1, SMT
  <2> QED
    BY <2>1, <2>2, <2>3, SubnormalExpands, Zenon
<1>8. CASE e # 0
  <2> DEFINE wp == 2 ^ WideMant
             cut == 2 ^ Cut
             f == e + Offset
             unit == 2 ^ (e - 1)
             far == 2 ^ Offset
  <2> HIDE DEF e, m
  <2>1. /\ ExpandHalf(h) = f * wp + m * cut
        /\ HalfUnits(h) = HalfUnit * ((hp + m) * unit)
    <3>1. e + WideBias - HalfBias = f
      BY <1>2, Widths DEF Offset
    <3>2. WideMant - HalfMant = Cut
      BY DEF Cut
    <3> QED
      BY <1>4, <1>5, <1>8, <3>1, <3>2, Zenon
  <2>2. /\ e - 1 \in Nat /\ f \in Nat /\ f # 0 /\ f - 1 = (e - 1) + Offset /\ f < WideExpMax
        /\ Offset \in Nat /\ WideExpMax \in Nat
    BY <1>2, <1>3, <1>8, HalfFacts, Widths
  <2>3. /\ wp = hp * cut /\ HalfUnit = far * cut /\ 2 ^ (f - 1) = unit * far
        /\ unit \in Nat /\ far \in Nat /\ cut \in Nat \ {0} /\ wp \in Nat \ {0}
        /\ WideInf = WideExpMax * wp
    <3>1. 2 ^ ((e - 1) + Offset) = unit * far /\ unit \in Nat /\ far \in Nat
      BY <2>2, PowerSum, PowerPositive
    <3>2. 2 ^ (f - 1) = unit * far
      BY <2>2, <3>1, Zenon
    <3> QED
      BY <3>1, <3>2, HalfFacts, WideFacts, Zenon
  <2>4. m * cut \in 0 .. wp - 1
    <3> HIDE DEF hp, cut, wp
    <3>1. (hp - m) * cut >= 1 /\ (hp - m) * cut = hp * cut - m * cut
      BY <1>1, <1>2, <2>3, SMT
    <3>2. m * cut \in Nat /\ hp * cut \in Nat
      BY <1>1, <1>2, <2>3, SMT
    <3> QED
      BY <2>3, <3>1, <3>2
  <2>5. WideUnits(f * wp + m * cut) = (wp + m * cut) * 2 ^ (f - 1)
    <3>1. \A b : WideUnits(b) = Units(WideMant, b)
      BY Zenon DEF WideUnits, Units
    <3>2. WideMant \in Nat
      BY Widths
    <3> DEFINE mant == m * cut
    <3> HIDE DEF f, mant
    <3>3. mant \in 0 .. 2 ^ WideMant - 1
      BY <2>4 DEF mant
    <3>4. Units(WideMant, f * 2 ^ WideMant + mant) = (2 ^ WideMant + mant) * 2 ^ (f - 1)
      BY <2>2, <3>2, <3>3, UnitsInside
    <3> QED
      BY <3>1, <3>4, Zenon DEF mant
  <2>6. (wp + m * cut) * 2 ^ (f - 1) = HalfUnit * ((hp + m) * unit)
    <3>1. \A a, b, c, d, g \in Nat : (a * c + b * c) * (d * g) = (g * c) * ((a + b) * d)
      BY SMT
    <3>2. hp \in Nat /\ m \in Nat /\ cut \in Nat /\ unit \in Nat /\ far \in Nat
      BY <1>1, <1>2, <2>3
    <3> HIDE DEF hp, cut, unit, far, wp, f
    <3>3. (hp * cut + m * cut) * (unit * far) = (far * cut) * ((hp + m) * unit)
      BY <3>1, <3>2
    <3> QED
      BY <2>3, <3>3, Zenon
  <2>7. f * wp + m * cut \in 0 .. WideInf - 1
    <3> DEFINE mant == m * cut
    <3> HIDE DEF wp, mant, f
    <3>1. (f + 1) * wp <= WideExpMax * wp /\ (f + 1) * wp = f * wp + wp /\ f * wp \in Nat
          /\ WideExpMax * wp \in Nat
      BY <2>2, <2>3, SMT
    <3>2. mant \in 0 .. wp - 1
      BY <2>4 DEF mant
    <3>3. f * wp + mant \in 0 .. WideInf - 1
      BY <2>3, <3>1, <3>2
    <3> QED
      BY <3>3 DEF mant
  <2> QED
    BY <2>1, <2>5, <2>6, <2>7, Zenon
<1> QED
  BY <1>6, <1>7, <1>8

(* What is not finite.                                                     *)
LEMMA SpecialsExpand ==
  /\ ExpandHalf(HalfInf) = WideInf
  /\ ExpandHalf(HalfInf + 2 ^ (HalfMant - 1)) = WideInf + 2 ^ (WideMant - 1)
<1> DEFINE hp == 2 ^ HalfMant
           nan == 2 ^ (HalfMant - 1)
<1>1. HalfMant - 1 \in Nat /\ (HalfMant - 1) + 1 = HalfMant /\ HalfExpMax \in Nat \ {0}
  BY Widths
<1>2. nan \in Nat \ {0} /\ hp = 2 * nan /\ hp \in Nat \ {0} /\ HalfInf = HalfExpMax * hp
  BY <1>1, PowerNext, PowerPositive, HalfFacts
<1> HIDE DEF hp, nan
<1>3. \A r \in 0 .. hp - 1 : (HalfInf + r) \div hp = HalfExpMax /\ (HalfInf + r) % hp = r
  <2> TAKE r \in 0 .. hp - 1
  <2>1. (hp * HalfExpMax + r) \div hp = HalfExpMax /\ (hp * HalfExpMax + r) % hp = r
    BY <1>1, <1>2, QuotientUnique
  <2>2. hp * HalfExpMax = HalfExpMax * hp
    BY <1>1, <1>2, SMT
  <2> QED
    BY <1>2, <2>1, <2>2, Zenon
<1>4. 0 \in 0 .. hp - 1 /\ nan \in 0 .. hp - 1 /\ HalfInf + 0 = HalfInf /\ nan # 0 /\ HalfExpMax # 0
  BY <1>1, <1>2, HalfFacts
<1>5. HalfInf \div hp = HalfExpMax /\ HalfInf % hp = 0
  BY <1>3, <1>4, Zenon
<1>6. (HalfInf + nan) \div hp = HalfExpMax /\ (HalfInf + nan) % hp = nan
  BY <1>3, <1>4, Zenon
<1>7. \A h : h \div hp = HalfExpMax =>
        ExpandHalf(h) = IF h % hp = 0 THEN WideInf ELSE WideInf + 2 ^ (WideMant - 1)
  <2> TAKE h
  <2> HAVE h \div hp = HalfExpMax
  <2> DEFINE wide == (h \div hp + WideBias - HalfBias) * 2 ^ WideMant
                       + (h % hp) * 2 ^ (WideMant - HalfMant)
             inf == IF h % hp = 0 THEN WideInf ELSE WideInf + 2 ^ (WideMant - 1)
             sub == IF h % hp = 0 THEN 0 ELSE ExpandSubnormal(h % hp)
  <2>1. ExpandHalf(h) = CASE h \div hp = 0 -> sub [] h \div hp = HalfExpMax -> inf [] OTHER -> wide
    BY Zenon DEF ExpandHalf, hp
  <2> HIDE DEF wide, inf, sub
  <2>2. ExpandHalf(h) = inf
    BY <1>4, <2>1
  <2> QED
    BY <2>2, Zenon DEF inf
<1> QED
  BY <1>4, <1>5, <1>6, <1>7, Zenon DEF nan

(* The cases of f32_to_f16_bits, for finite bits.                          *)
LEMMA HalfCases ==
  ASSUME NEW e \in Nat, NEW m \in 0 .. 2 ^ WideMant - 1, e < WideExpMax
  PROVE  LET bits == e * 2 ^ WideMant + m
         IN  /\ e >= HalfExpMax + Offset => HalfBits(bits) = HalfInf
             /\ e + HalfMant < Offset => HalfBits(bits) = 0
             /\ Offset <= e + HalfMant /\ e <= Offset => HalfBits(bits) = HalfSubnormal(e - Offset, m)
             /\ Offset < e /\ e < HalfExpMax + Offset => HalfBits(bits) = HalfNormal(e - Offset, m)
<1> DEFINE p == 2 ^ WideMant
           bits == e * p + m
           nan == IF m = 0 THEN HalfInf ELSE HalfInf + 2 ^ (HalfMant - 1)
           he == e - WideBias + HalfBias
           sub == HalfSubnormal(he, m)
           norm == HalfNormal(he, m)
<1>1. bits \div p = e /\ bits % p = m
  <2>1. p \in Nat \ {0} /\ m \in 0 .. p - 1
    BY WideFacts
  <2> HIDE DEF p
  <2>2. (p * e + m) \div p = e /\ (p * e + m) % p = m
    BY <2>1, QuotientUnique
  <2>3. p * e = e * p
    BY <2>1, SMT
  <2> QED
    BY <2>2, <2>3, Zenon
<1>2. HalfBits(bits) = CASE e = WideExpMax -> nan
                         [] e # WideExpMax /\ he >= HalfExpMax -> HalfInf
                         [] he < -HalfMant -> 0
                         [] he \in -HalfMant .. 0 -> sub
                         [] he \in 1 .. HalfExpMax - 1 -> norm
  <2> HIDE DEF bits
  <2> QED
    BY <1>1, Zenon DEF HalfBits
<1>3. e # WideExpMax /\ he = e - Offset
  BY Widths DEF Offset
<1> HIDE DEF bits, nan, sub, norm
<1>4. /\ he >= HalfExpMax => HalfBits(bits) = HalfInf
      /\ he < -HalfMant => HalfBits(bits) = 0
      /\ he \in -HalfMant .. 0 => HalfBits(bits) = sub
      /\ he \in 1 .. HalfExpMax - 1 => HalfBits(bits) = norm
  <2>1. he \in Int /\ HalfMant \in Nat \ {0} /\ HalfExpMax \in Nat \ {0}
    BY Widths
  <2> HIDE DEF he
  <2> QED
    BY <1>2, <1>3, <2>1
<1>5. /\ e >= HalfExpMax + Offset => he >= HalfExpMax
      /\ e + HalfMant < Offset => he < -HalfMant
      /\ Offset <= e + HalfMant /\ e <= Offset => he \in -HalfMant .. 0
      /\ Offset < e /\ e < HalfExpMax + Offset => he \in 1 .. HalfExpMax - 1
  BY <1>3, Widths, HalfFacts
<1> QED
  BY <1>3, <1>4, <1>5, Zenon DEF bits, sub, norm

(* Too large for a half.                                                   *)
LEMMA HalfOverflows ==
  ASSUME NEW e \in Nat, NEW m \in 0 .. 2 ^ WideMant - 1, e >= HalfExpMax + Offset
  PROVE  Nearest(HalfNumbers, HalfInf, WideUnits(e * 2 ^ WideMant + m), HalfInf)
<1> DEFINE p == 2 ^ WideMant
           hp == 2 ^ HalfMant
           cut == 2 ^ Cut
           top == HalfExpMax + Offset - 1
           x == WideUnits(e * p + m)
<1>1. /\ top \in Nat /\ top <= e - 1 /\ e - 1 \in Nat /\ e # 0
      /\ HalfExpMax - 1 \in Nat /\ top = (HalfExpMax - 1) + Offset
  BY HalfFacts, Widths
<1>2. x = (p + m) * 2 ^ (e - 1)
  <2>1. WideUnits(e * p + m) = Units(WideMant, e * p + m)
    BY Zenon DEF WideUnits, Units
  <2> QED
    BY <1>1, <2>1, UnitsInside, Widths
<1>3. HalfUnits(HalfInf) = HalfUnit * ((hp + 0) * 2 ^ (HalfExpMax - 1))
  <2>1. HalfUnits(HalfInf) = HalfUnit * Units(HalfMant, HalfInf)
    BY HalfAscends
  <2>2. 0 \in 0 .. 2 ^ HalfMant /\ HalfExpMax \in Nat \ {0} /\ HalfMant \in Nat /\ HalfExpMax # 0
    BY HalfFacts, Widths
  <2>3. Units(HalfMant, HalfExpMax * hp + 0) = (hp + 0) * 2 ^ (HalfExpMax - 1)
    BY <2>2, UnitsAt
  <2>4. HalfExpMax * hp + 0 = HalfInf
    BY HalfFacts
  <2> QED
    BY <2>1, <2>3, <2>4, Zenon
<1>4. /\ 2 ^ top = 2 ^ (HalfExpMax - 1) * 2 ^ Offset
      /\ 2 ^ top <= 2 ^ (e - 1) /\ 2 ^ top \in Nat /\ 2 ^ (e - 1) \in Nat
      /\ 2 ^ (HalfExpMax - 1) \in Nat /\ 2 ^ Offset \in Nat
  <2>1. Offset \in Nat
    BY HalfFacts
  <2>2. 2 ^ ((HalfExpMax - 1) + Offset) = 2 ^ (HalfExpMax - 1) * 2 ^ Offset
    BY <1>1, <2>1, PowerSum
  <2>3. 2 ^ top = 2 ^ (HalfExpMax - 1) * 2 ^ Offset
    BY <1>1, <2>2, Zenon
  <2> HIDE DEF top
  <2>4. 2 ^ top <= 2 ^ (e - 1)
    BY <1>1, PowerSplit
  <2>5. 2 ^ top \in Nat /\ 2 ^ (e - 1) \in Nat /\ 2 ^ (HalfExpMax - 1) \in Nat /\ 2 ^ Offset \in Nat
    BY <1>1, <2>1, PowerPositive
  <2> QED
    BY <2>3, <2>4, <2>5
<1>5. p = hp * cut /\ HalfUnit = 2 ^ Offset * cut /\ hp \in Nat /\ cut \in Nat /\ p \in Nat /\ m \in Nat
  BY HalfFacts, WideFacts
<1>6. HalfUnit * ((hp + 0) * 2 ^ (HalfExpMax - 1)) = p * 2 ^ top
  <2>1. \A a, b, c, d \in Nat : (a * b) * ((c + 0) * d) = (c * b) * (d * a)
    BY SMT
  <2> HIDE DEF hp, cut, p, top
  <2> QED
    BY <1>4, <1>5, <2>1
<1>7. p * 2 ^ top <= (p + m) * 2 ^ (e - 1)
  <2>1. \A a, b, c, d \in Nat : a <= b => c * a <= (c + d) * b
    <3> TAKE a, b, c, d \in Nat
    <3>1. (c + d) * b = c * b + d * b /\ d * b \in Nat /\ c * b \in Nat /\ c * a \in Nat
      BY SMT
    <3>2. a <= b => c * (b - a) >= 0 /\ c * (b - a) = c * b - c * a
      BY SMT
    <3> QED
      BY <3>1, <3>2
  <2> HIDE DEF p, top
  <2> QED
    BY <1>4, <1>5, <2>1
<1>8. x \in Nat
  <2> HIDE DEF p, top
  <2> QED
    BY <1>2, <1>4, <1>5, SMT
<1>9. HalfNumbers[HalfInf] <= x
  <2>1. HalfNumbers[HalfInf] = HalfUnits(HalfInf)
    BY HalfFacts DEF HalfNumbers
  <2> HIDE DEF x
  <2> QED
    BY <1>2, <1>3, <1>6, <1>7, <2>1
<1> HIDE DEF x
<1>10. Nearest(HalfNumbers, HalfInf, x, HalfInf)
  BY <1>8, <1>9, HalfAscends, HalfFacts, NearestIsLast
<1> QED
  BY <1>10 DEF x

(* Too small.                                                              *)
LEMMA HalfUnderflows ==
  ASSUME NEW e \in Nat, NEW m \in 0 .. 2 ^ WideMant - 1, e + HalfMant < Offset
  PROVE  Nearest(HalfNumbers, HalfInf, WideUnits(e * 2 ^ WideMant + m), 0)
<1> DEFINE x == WideUnits(e * 2 ^ WideMant + m)
           U == 2 ^ (Offset + Cut - 1)
<1>1. x < 2 ^ (WideMant + e) /\ x \in Nat
  <2>1. x = Units(WideMant, e * 2 ^ WideMant + m)
    BY Zenon DEF WideUnits, Units
  <2>2. Units(WideMant, e * 2 ^ WideMant + m) < 2 ^ (WideMant + e)
    BY UnitsBelow, Widths
  <2>3. e * 2 ^ WideMant + m \in Nat
    <3> DEFINE p == 2 ^ WideMant
    <3>1. p \in Nat /\ m \in Nat
      BY WideFacts
    <3> HIDE DEF p
    <3>2. e * p \in Nat
      BY <3>1, SMT
    <3>3. e * p + m \in Nat
      BY <3>1, <3>2
    <3> QED
      BY <3>3 DEF p
  <2>4. Units(WideMant, e * 2 ^ WideMant + m) \in Nat
    BY <2>3, UnitsGrow, Widths
  <2> QED
    BY <2>1, <2>2, <2>4
<1>2. /\ Offset + Cut - 1 \in Nat /\ (Offset + Cut - 1) + 1 = Offset + Cut
      /\ WideMant + e \in Nat /\ WideMant + e <= Offset + Cut - 1
  BY HalfFacts, Widths
<1>3. U \in Nat \ {0} /\ HalfUnit = 2 * U
  <2>1. 2 ^ ((Offset + Cut - 1) + 1) = 2 * U
    BY <1>2, PowerNext
  <2> QED
    BY <1>2, <2>1, HalfFacts, PowerPositive
<1>4. 2 ^ (WideMant + e) <= U /\ 2 ^ (WideMant + e) \in Nat
  BY <1>2, PowerSplit, PowerPositive
<1> HIDE DEF x, U
<1>5. x < U
  BY <1>1, <1>3, <1>4
<1>6. HalfNumbers[0] = 0 /\ HalfNumbers[1] = HalfUnit
  <2> DEFINE hp == 2 ^ HalfMant
  <2>1. hp \in Nat \ {0} /\ HalfMant \in Nat /\ 0 \in 0 .. hp /\ 1 \in 0 .. hp
    BY HalfFacts, Widths
  <2>2. Units(HalfMant, 0 * hp + 0) = 0 /\ Units(HalfMant, 0 * hp + 1) = 1
    BY <2>1, UnitsAt
  <2>3. 0 * hp + 0 = 0 /\ 0 * hp + 1 = 1
    BY <2>1
  <2>4. HalfUnits(0) = HalfUnit * 0 /\ HalfUnits(1) = HalfUnit * 1
    BY <2>2, <2>3, HalfAscends, Zenon
  <2>5. HalfUnit * 0 = 0 /\ HalfUnit * 1 = HalfUnit
    BY HalfFacts
  <2>6. 0 \in 0 .. HalfInf /\ 1 \in 0 .. HalfInf
    BY HalfFacts
  <2> QED
    BY <2>4, <2>5, <2>6 DEF HalfNumbers
<1>7. Nearest(HalfNumbers, HalfInf, x, 0)
  <2>1. HalfInf \in Nat /\ 0 \in 0 .. HalfInf - 1 /\ 0 \in {0, 0 + 1} /\ 0 # 0 + 1 /\ 0 + 1 = 1
    BY HalfFacts
  <2>2. HalfNumbers[0] <= x /\ x <= HalfNumbers[0 + 1] /\ 2 * x < HalfNumbers[0] + HalfNumbers[0 + 1]
    BY <1>1, <1>3, <1>5, <1>6
  <2> QED
    BY <1>1, <2>1, <2>2, HalfAscends, NearestOfTwo
<1> QED
  BY <1>7 DEF x

(* The bit that is tested and the bits below it say which half r is in.    *)
LEMMA RoundBit ==
  ASSUME NEW M \in Nat, NEW H \in Nat \ {0}, NEW c \in Nat, NEW r \in 0 .. 2 * H - 1,
         M = c * (2 * H) + r
  PROVE  ((M \div H) % 2 # 0 /\ (M % H # 0 \/ c % 2 # 0)) <=> (r > H \/ (r = H /\ c % 2 # 0))
<1>1. c * (2 * H) = H * (2 * c) /\ H * (2 * c + 1) = H * (2 * c) + H /\ H * (2 * c) \in Nat
  BY SMT
<1>2. CASE r < H
  <2>1. M = H * (2 * c) + r /\ r \in 0 .. H - 1 /\ 2 * c \in Nat
    BY <1>1, <1>2
  <2>2. M \div H = 2 * c
    BY <2>1, QuotientUnique
  <2>3. (2 * c) % 2 = 0
    OBVIOUS
  <2> QED
    BY <1>2, <2>2, <2>3
<1>3. CASE r >= H
  <2>1. M = H * (2 * c + 1) + (r - H) /\ r - H \in 0 .. H - 1 /\ 2 * c + 1 \in Nat
    BY <1>1, <1>3
  <2>2. M \div H = 2 * c + 1 /\ M % H = r - H
    <3> DEFINE d == 2 * c + 1
               s == r - H
    <3>1. d \in Nat /\ s \in 0 .. H - 1 /\ M = H * d + s
      BY <2>1
    <3> HIDE DEF d, s
    <3>2. (H * d + s) \div H = d /\ (H * d + s) % H = s
      BY <3>1, QuotientUnique
    <3> QED
      BY <3>1, <3>2, Zenon DEF d, s
  <2>3. (2 * c + 1) % 2 = 1
    OBVIOUS
  <2>4. (M \div H) % 2 # 0
    BY <2>2, <2>3
  <2>5. M % H # 0 <=> r > H
    BY <1>3, <2>2
  <2> QED
    BY <1>3, <2>4, <2>5
<1> QED
  BY <1>2, <1>3

(* The halves next to a float lie r and S - r units from it, where S bits  *)
(* are cut off.                                                            *)
LEMMA SubnormalRounds ==
  ASSUME NEW e \in Nat, NEW m \in 0 .. 2 ^ WideMant - 1,
         Offset <= e + HalfMant, e <= Offset
  PROVE  Nearest(HalfNumbers, HalfInf, WideUnits(e * 2 ^ WideMant + m), HalfSubnormal(e - Offset, m))
<1> DEFINE p == 2 ^ WideMant
           hp == 2 ^ HalfMant
           cut == 2 ^ Cut
           shift == WideMant - HalfMant + 1 - (e - Offset)
           S == 2 ^ shift
           H == 2 ^ (shift - 1)
           u == 2 ^ (e - 1)
           M == p + m
           c == M \div S
           r == M % S
           code == IF r > H \/ (r = H /\ c % 2 # 0) THEN c + 1 ELSE c
<1>1. /\ e # 0 /\ e - 1 \in Nat /\ shift \in Nat /\ shift - 1 \in Nat /\ (shift - 1) + 1 = shift
      /\ shift + (e - 1) = Offset + Cut /\ Cut + 1 \in Nat /\ Cut + 1 <= shift /\ Cut \in Nat
  BY HalfFacts, Widths DEF Cut
<1>2. /\ S = 2 * H /\ H \in Nat \ {0} /\ S \in Nat \ {0} /\ u \in Nat \ {0}
      /\ HalfUnit = S * u /\ 2 ^ (Cut + 1) = 2 * cut /\ 2 ^ (Cut + 1) <= S
      /\ p = hp * cut /\ hp \in Nat \ {0} /\ cut \in Nat \ {0}
  <2>1. 2 ^ ((shift - 1) + 1) = 2 * H /\ H \in Nat \ {0}
    BY <1>1, PowerNext, PowerPositive
  <2>2. S = 2 * H
    BY <1>1, <2>1, Zenon
  <2>3. 2 ^ (shift + (e - 1)) = S * u
    BY <1>1, PowerSum
  <2>4. HalfUnit = S * u
    BY <1>1, <2>3, HalfFacts, Zenon
  <2>5. S \in Nat \ {0} /\ u \in Nat \ {0} /\ 2 ^ (Cut + 1) = 2 * cut /\ 2 ^ (Cut + 1) <= S
    BY <1>1, PowerNext, PowerPositive, PowerSplit
  <2> QED
    BY <2>1, <2>2, <2>4, <2>5, HalfFacts, Zenon
<1>3. p \in Nat \ {0} /\ m \in 0 .. p - 1 /\ M \in Nat /\ M < 2 * p
  BY WideFacts
<1>4. WideUnits(e * p + m) = M * u
  <2>1. WideUnits(e * p + m) = Units(WideMant, e * p + m)
    BY Zenon DEF WideUnits, Units
  <2>2. WideMant \in Nat /\ e \in Nat /\ m \in 0 .. 2 ^ WideMant - 1
    BY Widths
  <2>3. Units(WideMant, e * 2 ^ WideMant + m)
          = IF e = 0 THEN m ELSE (2 ^ WideMant + m) * 2 ^ (e - 1)
    BY <2>2, UnitsInside, Zenon
  <2> QED
    BY <1>1, <2>1, <2>3, Zenon
<1>5. HalfSubnormal(e - Offset, m)
        = IF (M \div H) % 2 # 0 /\ (M % H # 0 \/ c % 2 # 0) THEN c + 1 ELSE c
  BY Zenon DEF HalfSubnormal
<1> HIDE DEF p, hp, cut, shift, S, H, u, M
<1>6. c \in Nat /\ r \in 0 .. S - 1 /\ M = S * c + r
  BY <1>2, <1>3, Division
<1> HIDE DEF c, r
<1>7. M = c * (2 * H) + r /\ r \in 0 .. 2 * H - 1
  <2>1. S * c = c * S
    BY <1>2, <1>6, SMT
  <2> QED
    BY <1>2, <1>6, <2>1
<1>8. HalfSubnormal(e - Offset, m) = code
  <2>1. ((M \div H) % 2 # 0 /\ (M % H # 0 \/ c % 2 # 0)) <=> (r > H \/ (r = H /\ c % 2 # 0))
    BY <1>2, <1>3, <1>6, <1>7, RoundBit
  <2> QED
    BY <1>5, <2>1, Zenon
<1>9. c < hp
  <2> SUFFICES ASSUME hp <= c PROVE FALSE
    BY <1>2, <1>6
  <2>1. hp * (2 * cut) <= c * S
    <3>1. \A a1, b1, a2, b2 \in Nat : a1 <= b1 /\ a2 <= b2 => a1 * a2 <= b1 * b2
      <4> TAKE a1, b1, a2, b2 \in Nat
      <4>1. a1 <= b1 /\ a2 <= b2 => (b1 - a1) * b2 >= 0 /\ a1 * (b2 - a2) >= 0
        BY SMT
      <4>2. (b1 - a1) * b2 = b1 * b2 - a1 * b2 /\ a1 * (b2 - a2) = a1 * b2 - a1 * a2
        BY SMT
      <4>3. b1 * b2 \in Nat /\ a1 * b2 \in Nat /\ a1 * a2 \in Nat
        BY SMT
      <4> QED
        BY <4>1, <4>2, <4>3
    <3>2. 2 * cut \in Nat /\ 2 * cut <= S
      BY <1>2
    <3>3. hp \in Nat /\ S \in Nat
      BY <1>2
    <3> QED
      BY <1>6, <3>1, <3>2, <3>3
  <2>2. hp * (2 * cut) = 2 * (hp * cut) /\ S * c = c * S /\ S * c \in Nat
    BY <1>2, <1>6, SMT
  <2> QED
    BY <1>2, <1>3, <1>6, <2>1, <2>2
<1>10. hp <= HalfInf /\ HalfInf \in Nat
  <2>1. \A a \in Nat \ {0} : hp <= a * hp
    BY <1>2, SMT
  <2>2. HalfInf = HalfExpMax * hp
    BY HalfFacts DEF hp
  <2> QED
    BY <2>1, <2>2, HalfFacts, Widths
<1>11. c \in 0 .. HalfInf - 1
  BY <1>2, <1>6, <1>9, <1>10
<1>12. \A k \in 0 .. hp : HalfNumbers[k] = HalfUnit * k
  <2> TAKE k \in 0 .. hp
  <2>1. k \in 0 .. 2 ^ HalfMant /\ 0 \in Nat /\ HalfMant \in Nat /\ k \in 0 .. HalfInf
    BY <1>2, <1>10, Widths DEF hp
  <2>2. Units(HalfMant, 0 * 2 ^ HalfMant + k) = k
    BY <2>1, UnitsAt
  <2>3. 0 * hp + k = k
    BY <1>2
  <2>4. HalfUnits(k) = HalfUnit * k
    BY <2>2, <2>3, HalfAscends, Zenon DEF hp
  <2> QED
    BY <2>1, <2>4 DEF HalfNumbers
<1>13. HalfNumbers[c] = (S * u) * c /\ HalfNumbers[c + 1] = (S * u) * (c + 1)
  <2>1. c \in 0 .. hp /\ c + 1 \in 0 .. hp
    BY <1>2, <1>6, <1>9
  <2> QED
    BY <1>2, <1>12, <2>1
<1>14. HalfNumbers[c + 1] = HalfNumbers[c] + (2 * H) * u /\ M * u = HalfNumbers[c] + r * u
  <2>1. \A a, b, k, t \in Nat : (a * b) * (k + 1) = (a * b) * k + a * b /\ (a * k + t) * b = (a * b) * k + t * b
    BY SMT
  <2>2. S \in Nat /\ u \in Nat /\ r \in Nat
    BY <1>2, <1>6
  <2> QED
    BY <1>2, <1>6, <1>13, <2>1, <2>2
<1>15. Nearest(HalfNumbers, HalfInf, HalfNumbers[c] + r * u, code)
  BY <1>2, <1>7, <1>10, <1>11, <1>14, HalfAscends, NearestByHalf
<1> QED
  BY <1>4, <1>8, <1>14, <1>15, Zenon DEF p

(* In the range of the normal f16 numbers, the conversion takes the        *)
(* nearest.                                                                *)
LEMMA NormalRounds ==
  ASSUME NEW e \in Nat, NEW m \in 0 .. 2 ^ WideMant - 1,
         Offset < e, e < HalfExpMax + Offset
  PROVE  Nearest(HalfNumbers, HalfInf, WideUnits(e * 2 ^ WideMant + m), HalfNormal(e - Offset, m))
<1> DEFINE p == 2 ^ WideMant
           hp == 2 ^ HalfMant
           cut == 2 ^ Cut
           H == 2 ^ (Cut - 1)
           he == e - Offset
           u == 2 ^ (e - 1)
           v == 2 ^ (he - 1)
           far == 2 ^ Offset
           q == m \div cut
           r == m % cut
           c == he * hp + q
           code == IF r > H \/ (r = H /\ c % 2 # 0) THEN c + 1 ELSE c
<1>1. /\ e # 0 /\ e - 1 \in Nat /\ he \in Nat /\ he # 0 /\ he - 1 \in Nat /\ e - 1 = (he - 1) + Offset
      /\ Cut - 1 \in Nat /\ (Cut - 1) + 1 = Cut /\ he < HalfExpMax /\ Offset \in Nat
      /\ HalfExpMax \in Nat
  BY HalfFacts, Widths
<1>2. /\ cut = 2 * H /\ H \in Nat \ {0} /\ u = v * far /\ v \in Nat \ {0} /\ far \in Nat \ {0}
      /\ u \in Nat \ {0} /\ HalfUnit = far * cut
      /\ p = hp * cut /\ hp \in Nat \ {0} /\ cut \in Nat \ {0} /\ HalfInf = HalfExpMax * hp
  <2>1. 2 ^ ((Cut - 1) + 1) = 2 * H /\ H \in Nat \ {0}
    BY <1>1, PowerNext, PowerPositive
  <2>2. cut = 2 * H
    BY <1>1, <2>1, Zenon
  <2>3. 2 ^ ((he - 1) + Offset) = v * far /\ v \in Nat \ {0} /\ far \in Nat \ {0} /\ u \in Nat \ {0}
    BY <1>1, PowerSum, PowerPositive
  <2>4. u = v * far
    BY <1>1, <2>3, Zenon
  <2> QED
    BY <2>1, <2>2, <2>3, <2>4, HalfFacts, Zenon
<1>3. p \in Nat \ {0} /\ m \in 0 .. p - 1 /\ m \in Nat
  BY WideFacts
<1>4. WideUnits(e * p + m) = (p + m) * u
  <2>1. WideUnits(e * p + m) = Units(WideMant, e * p + m)
    BY Zenon DEF WideUnits, Units
  <2> QED
    BY <1>1, <2>1, UnitsInside, Widths
<1>5. HalfNormal(e - Offset, m)
        = IF r > cut \div 2 \/ (r = cut \div 2 /\ c % 2 # 0) THEN c + 1 ELSE c
  BY Zenon DEF HalfNormal, Cut
<1> HIDE DEF p, hp, cut, H, he, u, v, far
<1>6. q \in Nat /\ r \in 0 .. cut - 1 /\ m = cut * q + r
  BY <1>2, <1>3, Division
<1> HIDE DEF q, r
<1>7. cut \div 2 = H
  BY <1>2
<1>8. HalfNormal(e - Offset, m) = code
  BY <1>5, <1>7, Zenon
<1>9. q < hp
  <2> SUFFICES ASSUME hp <= q PROVE FALSE
    BY <1>2, <1>6
  <2>1. (q - hp) * cut >= 0 /\ (q - hp) * cut = cut * q - hp * cut
    BY <1>2, <1>6, SMT
  <2>2. cut * q \in Nat /\ hp * cut \in Nat
    BY <1>2, <1>6, SMT
  <2> QED
    BY <1>2, <1>3, <1>6, <2>1, <2>2
<1>10. c \in 0 .. HalfInf - 1 /\ HalfInf \in Nat
  <2>1. (he + 1) * hp <= HalfExpMax * hp /\ (he + 1) * hp = he * hp + hp
        /\ he * hp \in Nat /\ HalfExpMax * hp \in Nat
    BY <1>1, <1>2, SMT
  <2> QED
    BY <1>2, <1>6, <1>9, <2>1
<1>11. \A k \in 0 .. hp : he * hp + k \in 0 .. HalfInf =>
                           HalfNumbers[he * hp + k] = (far * cut) * ((hp + k) * v)
  <2> TAKE k \in 0 .. hp
  <2> HAVE he * hp + k \in 0 .. HalfInf
  <2>1. k \in 0 .. 2 ^ HalfMant /\ HalfMant \in Nat
    BY Widths DEF hp
  <2>2. Units(HalfMant, he * 2 ^ HalfMant + k) = (2 ^ HalfMant + k) * 2 ^ (he - 1)
    BY <1>1, <2>1, UnitsAt
  <2>3. HalfUnits(he * hp + k) = HalfUnit * ((hp + k) * v)
    BY <2>2, HalfAscends, Zenon DEF hp, v
  <2> QED
    BY <1>2, <2>3 DEF HalfNumbers
<1>12. /\ HalfNumbers[c] = (far * cut) * ((hp + q) * v)
       /\ HalfNumbers[c + 1] = (far * cut) * ((hp + (q + 1)) * v)
  <2>1. q \in 0 .. hp /\ q + 1 \in 0 .. hp /\ he * hp \in Nat
    <3>1. he * hp \in Nat
      BY <1>1, <1>2, SMT
    <3> QED
      BY <1>2, <1>6, <1>9, <3>1
  <2>2. he * hp + q \in 0 .. HalfInf /\ he * hp + (q + 1) \in 0 .. HalfInf /\ c + 1 = he * hp + (q + 1)
    BY <1>2, <1>6, <1>10, <2>1
  <2> QED
    BY <1>11, <2>1, <2>2, Zenon
<1>13. HalfNumbers[c + 1] = HalfNumbers[c] + (2 * H) * u /\ (p + m) * u = HalfNumbers[c] + r * u
  <2>1. \A a, b, k, t, w, f \in Nat :
          /\ (f * a) * ((b + (k + 1)) * w) = (f * a) * ((b + k) * w) + a * (w * f)
          /\ (b * a + (a * k + t)) * (w * f) = (f * a) * ((b + k) * w) + t * (w * f)
    BY SMT
  <2>2. cut \in Nat /\ hp \in Nat /\ q \in Nat /\ r \in Nat /\ v \in Nat /\ far \in Nat
    BY <1>2, <1>6
  <2>3. (far * cut) * ((hp + (q + 1)) * v) = (far * cut) * ((hp + q) * v) + cut * (v * far)
    BY <2>1, <2>2
  <2>4. (hp * cut + (cut * q + r)) * (v * far) = (far * cut) * ((hp + q) * v) + r * (v * far)
    BY <2>1, <2>2
  <2> HIDE DEF c
  <2> QED
    BY <1>2, <1>6, <1>12, <2>3, <2>4, Zenon
<1> HIDE DEF c
<1>14. Nearest(HalfNumbers, HalfInf, HalfNumbers[c] + r * u, code)
  <2>1. r \in 0 .. 2 * H - 1
    BY <1>2, <1>6
  <2> QED
    BY <1>2, <1>10, <1>13, <2>1, HalfAscends, NearestByHalf
<1> QED
  BY <1>4, <1>8, <1>13, <1>14, Zenon DEF p

(* And so it does below them, past them, and where the ranges meet.        *)
LEMMA HalfIsNearest ==
  ASSUME NEW bits \in 0 .. WideInf - 1
  PROVE  Nearest(HalfNumbers, HalfInf, WideUnits(bits), HalfBits(bits))
<1> DEFINE p == 2 ^ WideMant
           e == bits \div p
           m == bits % p
<1>1. bits \in Nat /\ p \in Nat \ {0} /\ WideInf = WideExpMax * p /\ WideExpMax \in Nat /\ WideMant \in Nat
  BY WideFacts, Widths
<1>2. e \in Nat /\ m \in 0 .. 2 ^ WideMant - 1 /\ bits = e * p + m
  BY <1>1, CodeSplits
<1>3. e < WideExpMax
  <2> SUFFICES ASSUME WideExpMax <= e PROVE FALSE
    BY <1>1, <1>2
  <2>1. m \in Nat
    BY <1>1, <1>2
  <2> HIDE DEF p, e, m
  <2>2. WideExpMax * p <= e * p /\ e * p \in Nat /\ WideExpMax * p \in Nat
    BY <1>1, <1>2, SMT
  <2> QED
    BY <1>1, <1>2, <2>1, <2>2
<1> HIDE DEF e, m
<1>4. /\ e >= HalfExpMax + Offset => HalfBits(bits) = HalfInf
      /\ e + HalfMant < Offset => HalfBits(bits) = 0
      /\ Offset <= e + HalfMant /\ e <= Offset => HalfBits(bits) = HalfSubnormal(e - Offset, m)
      /\ Offset < e /\ e < HalfExpMax + Offset => HalfBits(bits) = HalfNormal(e - Offset, m)
  BY <1>2, <1>3, HalfCases
<1>5. \/ e >= HalfExpMax + Offset
      \/ e + HalfMant < Offset
      \/ Offset <= e + HalfMant /\ e <= Offset
      \/ Offset < e /\ e < HalfExpMax + Offset
  BY <1>2, HalfFacts, Widths
<1>6. CASE e >= HalfExpMax + Offset
  BY <1>2, <1>4, <1>6, HalfOverflows
<1>7. CASE e + HalfMant < Offset
  BY <1>2, <1>4, <1>7, HalfUnderflows
<1>8. CASE Offset <= e + HalfMant /\ e <= Offset
  BY <1>2, <1>4, <1>8, SubnormalRounds
<1>9. CASE Offset < e /\ e < HalfExpMax + Offset
  BY <1>2, <1>4, <1>9, NormalRounds
<1> QED
  BY <1>5, <1>6, <1>7, <1>8, <1>9

(* What f16 stores and gives back is the nearest number, infinity and NaN  *)
(* apart.                                                                  *)
LEMMA RoundedF16 ==
  ASSUME NEW bits \in Floats
  PROVE  IsNearestEven("F16", bits, Rounded("F16", bits)) /\ Rounded("F16", bits) \in Floats
<1> DEFINE code == HalfBits(bits)
           stored == ExpandHalf(code)
<1>1. Rounded("F16", bits) = stored
  BY Zenon DEF Rounded
<1>2. bits \in Nat /\ WideInf \in Nat /\ WideInf \in Floats
  BY WideFacts
<1>3. CASE bits < WideInf
  <2>1. bits \in 0 .. WideInf - 1
    BY <1>2, <1>3
  <2>2. Nearest(HalfNumbers, HalfInf, WideUnits(bits), code)
    BY <2>1, HalfIsNearest
  <2>3. code \in 0 .. HalfInf
    BY <2>2 DEF Nearest
  <2>4. LastCode("F16") = HalfInf /\ \A c : Number("F16", c) = HalfUnits(c)
    BY Zenon DEF LastCode, Number
  <2>5. \A c \in 0 .. HalfInf : HalfNumbers[c] = Number("F16", c)
    BY <2>4 DEF HalfNumbers
  <2> HIDE DEF code
  <2>6. /\ IF code = HalfInf THEN stored = WideInf ELSE Number("F16", code) = WideUnits(stored)
        /\ stored \in Floats
    <3>1. CASE code = HalfInf
      BY <1>2, <3>1, SpecialsExpand, Zenon
    <3>2. CASE code # HalfInf
      <4>1. code \in 0 .. HalfInf - 1
        BY <2>3, <3>2, HalfFacts
      <4>2. stored \in 0 .. WideInf - 1 /\ WideUnits(stored) = HalfUnits(code)
        BY <4>1, HalfExpands
      <4>3. 0 .. WideInf - 1 \subseteq Floats
        BY WideFacts
      <4> QED
        BY <2>4, <3>2, <4>2, <4>3, Zenon
    <3> QED
      BY <3>1, <3>2
  <2> HIDE DEF stored
  <2>7. IsNearestEven("F16", bits, stored)
    BY <2>1, <2>2, <2>4, <2>5, <2>6, NearestIsEven
  <2> QED
    BY <1>1, <2>6, <2>7, Zenon DEF stored
<1>4. CASE ~(bits < WideInf)
  <2> DEFINE p == 2 ^ WideMant
             m == bits - WideInf
             quiet == 2 ^ (WideMant - 1)
  <2>1. WideInf = WideExpMax * p /\ p \in Nat \ {0} /\ m \in 0 .. p - 1 /\ WideExpMax \in Nat
        /\ bits = WideExpMax * p + m
    <3>1. WideInf = WideExpMax * p /\ p \in Nat \ {0} /\ WideExpMax \in Nat
          /\ bits \in 0 .. WideInf + p - 1
      BY WideFacts, Widths
    <3> HIDE DEF p
    <3>2. m \in 0 .. p - 1 /\ bits = WideInf + m
      BY <1>2, <1>4, <3>1
    <3> QED
      BY <3>1, <3>2, Zenon
  <2>2. bits \div p = WideExpMax /\ bits % p = m
    <3> HIDE DEF p, m
    <3>1. (p * WideExpMax + m) \div p = WideExpMax /\ (p * WideExpMax + m) % p = m
      BY <2>1, QuotientUnique
    <3>2. p * WideExpMax = WideExpMax * p
      BY <2>1, SMT
    <3> QED
      BY <2>1, <3>1, <3>2, Zenon
  <2>3. code = IF m = 0 THEN HalfInf ELSE HalfInf + 2 ^ (HalfMant - 1)
    <3> DEFINE he == (bits \div p) - WideBias + HalfBias
               nan == IF bits % p = 0 THEN HalfInf ELSE HalfInf + 2 ^ (HalfMant - 1)
               sub == HalfSubnormal(he, bits % p)
               norm == HalfNormal(he, bits % p)
    <3>1. code = CASE bits \div p = WideExpMax -> nan
                   [] bits \div p # WideExpMax /\ he >= HalfExpMax -> HalfInf
                   [] he < -HalfMant -> 0
                   [] he \in -HalfMant .. 0 -> sub
                   [] he \in 1 .. HalfExpMax - 1 -> norm
      BY Zenon DEF HalfBits
    <3>2. he = WideExpMax - WideBias + HalfBias
      BY <2>2, Zenon
    <3>3. he \in Int /\ he >= HalfExpMax /\ HalfMant \in Nat \ {0} /\ HalfExpMax \in Nat \ {0}
      BY <3>2, Widths
    <3> HIDE DEF he, nan, sub, norm, p, m, code
    <3>4. code = nan
      BY <2>2, <3>1, <3>3
    <3> QED
      BY <2>2, <3>4, Zenon DEF nan
  <2>4. quiet \in Nat \ {0} /\ p = 2 * quiet
    <3>1. WideMant - 1 \in Nat /\ (WideMant - 1) + 1 = WideMant
      BY Widths
    <3>2. 2 ^ ((WideMant - 1) + 1) = 2 * quiet
      BY <3>1, PowerNext
    <3> QED
      BY <3>1, <3>2, PowerPositive
  <2> HIDE DEF code, m
  <2>5. stored = IF m = 0 THEN WideInf ELSE WideInf + quiet
    BY <2>3, SpecialsExpand, Zenon
  <2>6. m = 0 <=> bits = WideInf
    <3>1. m = bits - WideInf
      BY DEF m
    <3> QED
      BY <1>2, <3>1
  <2>7. /\ (stored = WideInf) = (bits = WideInf) /\ stored >= WideInf
        /\ stored \in 0 .. WideInf + p - 1
    <3> HIDE DEF p, quiet, stored
    <3> QED
      BY <1>2, <2>1, <2>4, <2>5, <2>6
  <2>8. stored \in Floats
    BY <2>7, WideFacts
  <2> QED
    BY <1>1, <1>4, <2>7, <2>8 DEF IsNearestEven
<1> QED
  BY <1>3, <1>4

(* Whatever the store, a float is rounded to a float.                      *)
LEMMA RoundedFloats ==
  ASSUME NEW dtype \in StorageDType, NEW bits \in Floats
  PROVE  IsNearestEven(dtype, bits, Rounded(dtype, bits)) /\ Rounded(dtype, bits) \in Floats
<1>1. dtype \in {"F32", "Bf16", "F16"}
  BY DEF StorageDType
<1> QED
  BY <1>1, RoundedWide, RoundedBf16, RoundedF16, Zenon

-----------------------------------------------------------------------------
(* The mapping of heads.                                                   *)
TopologyFields == [kind : Kinds, query_heads : Nat, kv_heads : Nat]

(* A quotient times its divisor is the last multiple that is not past the  *)
(* number.                                                                 *)
LEMMA Brackets ==
  ASSUME NEW a \in Nat, NEW b \in Nat \ {0}
  PROVE  a \div b \in Nat /\ b * (a \div b) <= a /\ a < b * (a \div b) + b
<1>1. a \div b \in Nat /\ a % b \in 0 .. b - 1 /\ a = b * (a \div b) + (a % b)
  BY Division
<1>2. b * (a \div b) \in Nat
  BY <1>1, SMT
<1> QED
  BY <1>1, <1>2

(* There is only one such multiple.                                        *)
LEMMA Bracketed ==
  ASSUME NEW a \in Nat, NEW b \in Nat \ {0}, NEW k \in Nat, b * k <= a, a < b * k + b
  PROVE  a \div b = k
<1> DEFINE r == a - b * k
<1>1. b * k \in Nat
  BY SMT
<1>2. r \in 0 .. b - 1 /\ b * k + r = a
  BY <1>1
<1> HIDE DEF r
<1>3. (b * k + r) \div b = k
  BY <1>2, QuotientUnique
<1> QED
  BY <1>2, <1>3, Zenon

(* The groups of an accepted topology tile its query heads, and whatever   *)
(* its kind, a head is served by the number of its group.                  *)
LEMMA GroupsTile ==
  ASSUME NEW t \in TopologyFields, Accepted(t)
  PROVE  /\ GroupSize(t) \in Nat \ {0}
         /\ GroupSize(t) * t.kv_heads = t.query_heads
         /\ \A h \in 0 .. t.query_heads - 1 : KvHead(t, h) = h \div GroupSize(t)
<1> DEFINE q == t.query_heads
           v == t.kv_heads
<1>1. q \in Nat \ {0} /\ v \in Nat \ {0} /\ v <= q
  BY SMT DEF TopologyFields, Accepted
<1>2. CASE t.kind = "Mha"
  <2>1. q = v
    BY <1>2 DEF Accepted
  <2>2. q \div v = 1
    BY <1>1, <2>1, Bracketed, SMT
  <2>3. \A h \in 0 .. q - 1 : h \div 1 = h
    BY <1>1, SMT
  <2> QED
    BY <1>1, <1>2, <2>1, <2>2, <2>3, SMT DEF GroupSize, KvHead
<1>3. CASE t.kind = "Mqa"
  <2>1. v = 1
    BY <1>3 DEF Accepted
  <2>2. q \div v = q
    BY <1>1, <2>1, SMT
  <2>3. \A h \in 0 .. q - 1 : h \div q = 0
    <3> TAKE h \in 0 .. q - 1
    <3>1. h \in Nat /\ q * 0 <= h /\ h < q * 0 + q
      BY <1>1, SMT
    <3> QED
      BY <1>1, <3>1, Bracketed
  <2> QED
    BY <1>1, <1>3, <2>1, <2>2, <2>3, SMT DEF GroupSize, KvHead
<1>4. CASE t.kind = "Gqa"
  <2>1. q % v = 0
    BY <1>4 DEF Accepted
  <2>2. q = v * (q \div v) /\ q \div v \in Nat
    <3>1. q \div v \in Nat /\ q = v * (q \div v) + (q % v)
      BY <1>1, Division
    <3> HIDE DEF q, v
    <3> QED
      BY <1>1, <2>1, <3>1, SMT
  <2>3. q \div v # 0
    BY <1>1, <2>2, SMT
  <2>4. GroupSize(t) \in Nat \ {0} /\ GroupSize(t) * v = q
    BY <1>1, <2>2, <2>3, SMT DEF GroupSize
  <2> QED
    BY <1>4, <2>4 DEF KvHead
<1> QED
  BY <1>2, <1>3, <1>4 DEF TopologyFields, Kinds

(* Every query head of every accepted topology is mapped to a KV head that *)
(* exists, in the group that holds it, and without wrap-around.            *)
LEMMA MappingIsSound ==
  ASSUME NEW t \in TopologyFields, Accepted(t), NEW h \in 0 .. t.query_heads - 1
  PROVE  MappingSound(t, h)
<1> DEFINE g == GroupSize(t)
           q == t.query_heads
           v == t.kv_heads
           k == KvHead(t, h)
<1>1. g \in Nat \ {0} /\ g * v = q /\ k = h \div g
  BY GroupsTile
<1>2. q \in Nat /\ v \in Nat /\ h \in Nat /\ h < q
  BY SMT DEF TopologyFields
<1>3. k \in Nat /\ g * k <= h /\ h < g * k + g
  BY <1>1, <1>2, Brackets
<1>4. k < v
  <2> SUFFICES ASSUME ~ (k < v) PROVE FALSE
    OBVIOUS
  <2>1. g * v <= g * k
    BY <1>1, <1>2, <1>3, SMT
  <2> QED
    BY <1>1, <1>2, <1>3, <2>1, SMT
<1>5. g * k + g <= q
  <2>1. g * (k + 1) <= g * v
    BY <1>1, <1>2, <1>3, <1>4, SMT
  <2> QED
    BY <1>1, <1>3, <2>1, SMT
<1>6. k * g = g * k
  BY <1>1, <1>3, SMT
<1> HIDE DEF g, q, v, k
<1>7. k < v /\ k * g <= h /\ h < k * g + g /\ k * g + g <= q
  BY <1>3, <1>4, <1>5, <1>6
<1> QED
  BY <1>7 DEF MappingSound, Mapping, g, q, v, k

(* The group that a mapping names is exactly the set of the heads that     *)
(* share its KV head.                                                      *)
LEMMA GroupsAreShared ==
  ASSUME NEW t \in TopologyFields, Accepted(t), NEW h \in 0 .. t.query_heads - 1
  PROVE  GroupIsShared(t, h)
<1> DEFINE g == GroupSize(t)
           q == t.query_heads
           k == KvHead(t, h)
<1>1. g \in Nat \ {0} /\ \A i \in 0 .. q - 1 : KvHead(t, i) = i \div g
  BY GroupsTile
<1>2. q \in Nat /\ h \in Nat
  BY SMT DEF TopologyFields
<1>3. k \in Nat
  BY <1>1, <1>2, Brackets
<1>4. ASSUME NEW i \in 0 .. q - 1
      PROVE  KvHead(t, i) = k <=> k * g <= i /\ i < k * g + g
  <2>1. i \in Nat /\ k * g = g * k
    BY <1>1, <1>2, <1>3, SMT
  <2>2. ASSUME i \div g = k PROVE g * k <= i /\ i < g * k + g
    BY <1>1, <2>1, <2>2, Brackets
  <2>3. ASSUME g * k <= i, i < g * k + g PROVE i \div g = k
    BY <1>1, <1>3, <2>1, <2>3, Bracketed
  <2>4. KvHead(t, i) = i \div g
    BY <1>1
  <2> HIDE DEF g, k
  <2> QED
    BY <2>1, <2>2, <2>3, <2>4
<1> QED
  BY <1>4 DEF GroupIsShared, Mapping

-----------------------------------------------------------------------------
(* Folds.                                                                  *)

(* pick takes an element out of every subset of D, and it is the iteration *)
(* that MapThenFoldSet chooses.                                            *)
Picks(pick, D) == DOMAIN pick = SUBSET D /\ \A s \in SUBSET D : s # {} => pick[s] \in s

Folds(it, D, base, step, pick) ==
  \A s \in SUBSET D : it[s] = IF s = {} THEN base ELSE step[<<pick[s], it[s \ {pick[s]}]>>]

(* A fold over a finite set is defined, whatever order its elements are    *)
(* picked in.                                                              *)
LEMMA FoldExists ==
  ASSUME NEW D, IsFiniteSet(D), NEW V, NEW base \in V, NEW step \in [D \X V -> V],
         NEW pick, Picks(pick, D)
  PROVE  \E it \in [SUBSET D -> V] : Folds(it, D, base, step, pick)
<1> DEFINE OK(it, s) == it[s] = IF s = {} THEN base ELSE step[<<pick[s], it[s \ {pick[s]}]>>]
<1> DEFINE Upto(it, n) == \A s \in SUBSET D : Cardinality(s) <= n => OK(it, s)
<1> DEFINE S == {n \in Nat : \E it \in [SUBSET D -> V] : Upto(it, n)}
<1>0. \A s \in SUBSET D : /\ IsFiniteSet(s) /\ Cardinality(s) \in Nat
                          /\ Cardinality(s) <= 0 => s = {}
                          /\ s # {} => /\ s \ {pick[s]} \in SUBSET D
                                       /\ Cardinality(s \ {pick[s]}) = Cardinality(s) - 1
  <2> SUFFICES ASSUME NEW s \in SUBSET D
               PROVE  /\ IsFiniteSet(s) /\ Cardinality(s) \in Nat
                      /\ Cardinality(s) <= 0 => s = {}
                      /\ s # {} => /\ s \ {pick[s]} \in SUBSET D
                                   /\ Cardinality(s \ {pick[s]}) = Cardinality(s) - 1
    OBVIOUS
  <2>1. IsFiniteSet(s) /\ Cardinality(s) \in Nat
    BY FS_Subset, FS_CardinalityType
  <2>2. Cardinality(s) = 0 <=> s = {}
    BY <2>1, FS_EmptySet
  <2>3. s # {} => Cardinality(s \ {pick[s]}) = Cardinality(s) - 1
    BY <2>1, FS_RemoveElement DEF Picks
  <2>4. QED
    BY <2>1, <2>2, <2>3
<1>1. 0 \in S
  <2> DEFINE g == [s \in SUBSET D |-> base]
  <2>1. g \in [SUBSET D -> V] /\ Upto(g, 0)
    BY <1>0
  <2>2. QED
    BY <2>1
<1>2. ASSUME NEW n \in Nat, n \in S
      PROVE  n + 1 \in S
  <2>1. PICK f \in [SUBSET D -> V] : Upto(f, n)
    BY <1>2
  <2> DEFINE g == [s \in SUBSET D |-> IF s = {} THEN base ELSE step[<<pick[s], f[s \ {pick[s]}]>>]]
  <2>2. g \in [SUBSET D -> V]
    BY DEF Picks
  <2>3. \A s \in SUBSET D : Cardinality(s) <= n => f[s] = g[s]
    BY <2>1
  <2>4. \A s \in SUBSET D : s # {} /\ Cardinality(s) <= n + 1 => f[s \ {pick[s]}] = g[s \ {pick[s]}]
    <3> HIDE DEF g
    <3> SUFFICES ASSUME NEW s \in SUBSET D, s # {}, Cardinality(s) <= n + 1
                 PROVE  f[s \ {pick[s]}] = g[s \ {pick[s]}]
      OBVIOUS
    <3>0. /\ s \ {pick[s]} \in SUBSET D /\ Cardinality(s) \in Nat
          /\ Cardinality(s \ {pick[s]}) = Cardinality(s) - 1
      BY <1>0, Zenon
    <3>1. s \ {pick[s]} \in SUBSET D /\ Cardinality(s \ {pick[s]}) <= n
      BY <3>0
    <3>2. QED
      BY <2>3, <3>1, Zenon
  <2>5. Upto(g, n + 1)
    <3> SUFFICES ASSUME NEW s \in SUBSET D, Cardinality(s) <= n + 1
                 PROVE  OK(g, s)
      OBVIOUS
    <3>1. g[s] = IF s = {} THEN base ELSE step[<<pick[s], f[s \ {pick[s]}]>>]
      OBVIOUS
    <3> HIDE DEF g
    <3>2. s # {} => f[s \ {pick[s]}] = g[s \ {pick[s]}]
      BY <2>4, Zenon
    <3>3. QED
      BY <3>1, <3>2, Zenon
  <2> HIDE DEF g
  <2> HIDE DEF Upto
  <2>6. n + 1 \in Nat
    OBVIOUS
  <2>7. QED
    BY <2>2, <2>5, <2>6
<1>3. Cardinality(D) \in S
  <2> HIDE DEF S
  <2>1. QED
    BY <1>0, <1>1, <1>2, NatSetInduction
<1>4. PICK it \in [SUBSET D -> V] : Upto(it, Cardinality(D))
  BY <1>3
<1>5. \A s \in SUBSET D : Cardinality(s) <= Cardinality(D)
  BY FS_Subset
<1>6. QED
  BY <1>4, <1>5 DEF Folds

(* The fold of a sequence picks its last element first.                    *)
LEMMA MaxOfPrefix ==
  ASSUME NEW k \in Nat \ {0}
  PROVE  Max(1 .. k) = k
<1>1. k \in 1 .. k /\ \A i \in 1 .. k : k >= i
  OBVIOUS
<1>2. \A m \in 1 .. k : (\A i \in 1 .. k : m >= i) => m = k
  BY <1>1
<1> QED
  BY <1>1, <1>2, Zenon DEF Max

(* What FoldLeft chooses over a sequence of n elements exists.             *)
LeftFold(f, n, V, base, step) ==
  /\ f \in [SUBSET (1 .. n) -> V]
  /\ \A s \in SUBSET (1 .. n) :
       /\ s # {} => Max(s) \in s
       /\ f[s] = IF s = {} THEN base ELSE step[<<Max(s), f[s \ {Max(s)}]>>]

(* The fold of a sequence is one of those folds.                           *)
LEMMA LeftExists ==
  ASSUME NEW n \in Nat, NEW V, NEW base \in V, NEW step \in [(1 .. n) \X V -> V]
  PROVE  \E f : LeftFold(f, n, V, base, step)
<1> DEFINE D == 1 .. n
           pick == [s \in SUBSET D |-> Max(s)]
<1>1. IsFiniteSet(D)
  BY FS_Interval
<1>2. ASSUME NEW s \in SUBSET D, s # {} PROVE Max(s) \in s
  <2> DEFINE S == {k \in Nat : s \cap (1 .. k) # {} => \E m \in s : \A i \in s \cap (1 .. k) : m >= i}
  <2>1. 0 \in S
    OBVIOUS
  <2>2. ASSUME NEW k \in Nat, k \in S PROVE k + 1 \in S
    <3>1. CASE k + 1 \in s
      <4>1. \A i \in s \cap (1 .. k + 1) : k + 1 >= i
        OBVIOUS
      <4> QED
        BY <3>1, <4>1
    <3>2. CASE k + 1 \notin s
      <4>1. s \cap (1 .. k + 1) = s \cap (1 .. k)
        BY <3>2
      <4> QED
        BY <2>2, <4>1
    <3> QED
      BY <3>1, <3>2
  <2>3. n \in S
    <3> HIDE DEF S
    <3> QED
      BY <2>1, <2>2, NatSetInduction
  <2>4. s \cap (1 .. n) = s
    BY <1>2
  <2>5. \E m \in s : \A i \in s : m >= i
    BY <1>2, <2>3, <2>4
  <2> QED
    BY <2>5 DEF Max
<1>3. Picks(pick, D)
  BY <1>2 DEF Picks
<1>4. \A s \in SUBSET D : pick[s] = Max(s)
  OBVIOUS
<1> HIDE DEF D, pick
<1>5. PICK f \in [SUBSET D -> V] : Folds(f, D, base, step, pick)
  BY <1>1, <1>3, FoldExists DEF D
<1>6. \A s \in SUBSET D : f[s] = IF s = {} THEN base ELSE step[<<Max(s), f[s \ {Max(s)}]>>]
  BY <1>4, <1>5, Zenon DEF Folds
<1> QED
  BY <1>2, <1>5, <1>6, Zenon DEF D, LeftFold

(* Such a fold, prefix by prefix.                                          *)
Lefts(g, n, V, base, step) ==
  g \in [0 .. n -> V] /\ g[0] = base /\ \A k \in 1 .. n : g[k] = step[<<k, g[k - 1]>>]

Unfolds(it, n, V, base, step) ==
  \A s \in SUBSET (1 .. n) :
    /\ s = {} => it[s] = base
    /\ s # {} /\ it[s \ {Max(s)}] \in V => it[s] = step[<<Max(s), it[s \ {Max(s)}]>>]

Reaches(g, n, it) == g[n] = it[1 .. n]

(* The values of a fold on the prefixes are the values of a loop, turn by  *)
(* turn.                                                                   *)
LEMMA LeftPrefixes ==
  ASSUME NEW n \in Nat, NEW V, NEW base \in V, NEW step \in [(1 .. n) \X V -> V], NEW it,
         Unfolds(it, n, V, base, step)
  PROVE  \E g : Lefts(g, n, V, base, step) /\ Reaches(g, n, it)
<1> DEFINE g == [k \in 0 .. n |-> it[1 .. k]]
           S == {k \in Nat : k <= n => it[1 .. k] \in V}
<1>1. it[1 .. 0] = base
  <2>1. 1 .. 0 = {} /\ 1 .. 0 \in SUBSET (1 .. n)
    OBVIOUS
  <2> QED
    BY <2>1, Zenon DEF Unfolds
<1>2. ASSUME NEW k \in 0 .. n - 1, it[1 .. k] \in V
      PROVE  it[1 .. k + 1] = step[<<k + 1, it[1 .. k]>>]
  <2>1. /\ 1 .. k + 1 \in SUBSET (1 .. n) /\ 1 .. k + 1 # {} /\ k + 1 \in Nat \ {0}
        /\ (1 .. k + 1) \ {k + 1} = 1 .. k
    OBVIOUS
  <2>2. Max(1 .. k + 1) = k + 1
    BY <2>1, MaxOfPrefix
  <2> QED
    BY <1>2, <2>1, <2>2, Zenon DEF Unfolds
<1>3. \A k \in Nat : k \in S
  <2>1. 0 \in S
    BY <1>1
  <2>2. ASSUME NEW k \in Nat, k \in S PROVE k + 1 \in S
    <3> SUFFICES ASSUME k + 1 <= n PROVE it[1 .. k + 1] \in V
      OBVIOUS
    <3>1. k \in 0 .. n - 1 /\ it[1 .. k] \in V /\ k + 1 \in 1 .. n
      BY <2>2
    <3>2. it[1 .. k + 1] = step[<<k + 1, it[1 .. k]>>]
      BY <1>2, <3>1
    <3> QED
      BY <3>1, <3>2
  <2> HIDE DEF S
  <2> QED
    BY <2>1, <2>2, NatSetInduction
<1>4. \A k \in 0 .. n : it[1 .. k] \in V
  BY <1>3
<1>5. g \in [0 .. n -> V] /\ g[0] = base /\ g[n] = it[1 .. n]
  <2>1. 0 \in 0 .. n /\ n \in 0 .. n
    OBVIOUS
  <2>2. g[0] = it[1 .. 0] /\ g[n] = it[1 .. n]
    BY <2>1
  <2>3. g \in [0 .. n -> V]
    BY <1>4
  <2> QED
    BY <1>1, <2>2, <2>3, Zenon
<1>6. ASSUME NEW k \in 1 .. n PROVE g[k] = step[<<k, g[k - 1]>>]
  <2>1. k - 1 \in 0 .. n - 1 /\ (k - 1) + 1 = k /\ k \in 0 .. n /\ k - 1 \in 0 .. n
    OBVIOUS
  <2>2. it[1 .. (k - 1) + 1] = step[<<(k - 1) + 1, it[1 .. k - 1]>>]
    BY <1>2, <1>4, <2>1
  <2>3. g[k] = it[1 .. k] /\ g[k - 1] = it[1 .. k - 1]
    BY <2>1
  <2> QED
    BY <2>1, <2>2, <2>3, Zenon
<1> HIDE DEF g
<1> QED
  BY <1>5, <1>6, Zenon DEF Lefts, Reaches

(* The least number of a set.                                              *)
LEMMA LeastExists ==
  ASSUME NEW n \in Nat, NEW s \in SUBSET (1 .. n), s # {}
  PROVE  Min(s) \in s /\ \A i \in s : Min(s) <= i
<1> DEFINE S == {k \in Nat : s \cap (1 .. k) # {} => \E m \in s : \A i \in s : m <= i}
<1>1. 0 \in S
  OBVIOUS
<1>2. ASSUME NEW k \in Nat, k \in S PROVE k + 1 \in S
  <2>1. CASE s \cap (1 .. k) # {}
    BY <1>2, <2>1
  <2>2. CASE s \cap (1 .. k) = {}
    <3>1. \A i \in s : k + 1 <= i
      BY <2>2
    <3> QED
      BY <2>2, <3>1
  <2> QED
    BY <2>1, <2>2
<1>3. n \in S
  <2> HIDE DEF S
  <2> QED
    BY <1>1, <1>2, NatSetInduction
<1>4. s \cap (1 .. n) = s
  OBVIOUS
<1>5. \E m \in s : \A i \in s : m <= i
  BY <1>3, <1>4
<1> QED
  BY <1>5 DEF Min

-----------------------------------------------------------------------------
(* The loop of tune.                                                       *)
InputSet == [InputFields -> 0 .. UsizeMax]

TuneStates ==
  [page_tokens : Nat, candidates : Seq(Nat), selected : Nat,
   pc : {"loop", "done", "no_fit", "overflow"}]

(* The numbers of an input, within usize.                                  *)
LEMMA InputFacts ==
  ASSUME NEW input \in InputSet
  PROVE  /\ input.head_dim \in Nat /\ input.min_page_tokens \in Nat /\ input.max_page_tokens \in Nat
         /\ input.max_page_tokens <= UsizeMax
         /\ input.context_tokens \in Nat /\ input.max_scratch_bytes \in Nat
         /\ FirstTokens(input) \in Nat /\ FirstTokens(input) <= UsizeMax
         /\ UsizeMax \in Nat /\ UsizeMax = 2 ^ UsizeBits - 1 /\ UsizeBits \in Nat \ {0}
         /\ 2 ^ UsizeBits \in Nat \ {0}
<1>1. UsizeBits \in Nat \ {0}
  BY UsizeAssumption
<1>2. 2 ^ UsizeBits \in Nat \ {0}
  BY <1>1, PowerPositive
<1>3. UsizeMax = 2 ^ UsizeBits - 1 /\ UsizeMax \in Nat
  BY <1>2 DEF UsizeMax
<1>4. \A f \in InputFields : input[f] \in 0 .. UsizeMax
  BY DEF InputSet
<1> HIDE DEF UsizeMax
<1>5. /\ input.head_dim \in 0 .. UsizeMax /\ input.min_page_tokens \in 0 .. UsizeMax
      /\ input.max_page_tokens \in 0 .. UsizeMax /\ input.context_tokens \in 0 .. UsizeMax
      /\ input.max_scratch_bytes \in 0 .. UsizeMax
  BY <1>4 DEF InputFields
<1>6. FirstTokens(input) \in 0 .. UsizeMax
  BY <1>5 DEF FirstTokens, Smaller
<1> QED
  BY <1>1, <1>2, <1>3, <1>5, <1>6

(* What the turns do to the fields.                                        *)
LEMMA TurnFields ==
  ASSUME NEW input \in InputSet, NEW s \in TuneStates
  PROVE  LET t == Turn(input, s)
             tokens == s.page_tokens
             fits == {i \in DOMAIN s.candidates : FitsScratch(input, s.candidates[i])}
         IN  /\ t \in TuneStates
             /\ s.pc # "loop" => t = s
             /\ s.pc = "loop" /\ InRange(input, tokens) /\ Overflows(input, tokens) =>
                  t.pc = "overflow" /\ t.page_tokens = tokens
             /\ s.pc = "loop" /\ InRange(input, tokens) /\ ~Overflows(input, tokens) =>
                  /\ t.pc = "loop" /\ t.page_tokens = 2 * tokens
                  /\ t.candidates = Append(s.candidates, tokens)
                  /\ t.selected = IF FitsCache(input, tokens) /\ FitsScratch(input, tokens)
                                    THEN tokens ELSE s.selected
             /\ s.pc = "loop" /\ ~InRange(input, tokens) =>
                  /\ t.page_tokens = tokens
                  /\ s.selected # 0 => t.pc = "done" /\ t.selected = s.selected
                  /\ s.selected = 0 /\ fits # {} =>
                       t.pc = "done" /\ t.selected = s.candidates[Min(fits)]
                  /\ s.selected = 0 /\ fits = {} => t.pc = "no_fit"
<1> DEFINE t == Turn(input, s)
           tokens == s.page_tokens
           fits == {i \in DOMAIN s.candidates : FitsScratch(input, s.candidates[i])}
<1>1. tokens \in Nat /\ s.candidates \in Seq(Nat) /\ s.selected \in Nat
  BY DEF TuneStates
<1>2. CASE s.pc # "loop"
  <2>1. t = s
    BY <1>2, Zenon DEF Turn
  <2> QED
    BY <1>2, <2>1
<1>3. CASE s.pc = "loop" /\ InRange(input, tokens) /\ Overflows(input, tokens)
  <2>1. t = [s EXCEPT !.pc = "overflow"]
    BY <1>3, Zenon DEF Turn, Consider
  <2>2. t \in TuneStates /\ t.pc = "overflow" /\ t.page_tokens = tokens
    BY <2>1 DEF TuneStates
  <2> QED
    BY <1>3, <2>2
<1>4. CASE s.pc = "loop" /\ InRange(input, tokens) /\ ~Overflows(input, tokens)
  <2> DEFINE sel == IF FitsCache(input, tokens) /\ FitsScratch(input, tokens)
                      THEN tokens ELSE s.selected
             cand == Append(s.candidates, tokens)
  <2>1. t = [page_tokens |-> 2 * tokens, candidates |-> cand, selected |-> sel, pc |-> "loop"]
    BY <1>4, Zenon DEF Turn, Consider
  <2>2. sel \in Nat /\ cand \in Seq(Nat) /\ 2 * tokens \in Nat
    BY <1>1
  <2> HIDE DEF sel, cand
  <2>4. t \in TuneStates /\ t.pc = "loop" /\ t.page_tokens = 2 * tokens /\ t.candidates = cand
        /\ t.selected = sel
    BY <2>1, <2>2 DEF TuneStates
  <2> QED
    BY <1>4, <2>4 DEF sel, cand
<1>5. CASE s.pc = "loop" /\ ~InRange(input, tokens)
  <2>1. t = Select(input, s)
    BY <1>5, Zenon DEF Turn
  <2>2. CASE s.selected # 0
    <3>1. t = [s EXCEPT !.pc = "done"]
      BY <2>1, <2>2, Zenon DEF Select
    <3>2. t \in TuneStates /\ t.pc = "done" /\ t.page_tokens = tokens /\ t.selected = s.selected
      BY <3>1 DEF TuneStates
    <3> QED
      BY <1>5, <2>2, <3>2
  <2>3. CASE s.selected = 0 /\ fits # {}
    <3> DEFINE sel == s.candidates[Min(fits)]
    <3>1. t = [s EXCEPT !.selected = sel, !.pc = "done"]
      BY <2>1, <2>3, Zenon DEF Select
    <3>2. sel \in Nat
      <4>1. fits \subseteq 1 .. Len(s.candidates) /\ Len(s.candidates) \in Nat
        BY <1>1
      <4>2. Min(fits) \in fits
        <5> HIDE DEF fits
        <5> QED
          BY <2>3, <4>1, LeastExists
      <4>3. \A i \in 1 .. Len(s.candidates) : s.candidates[i] \in Nat
        BY <1>1
      <4> QED
        BY <4>1, <4>2, <4>3, Zenon
    <3> HIDE DEF sel
    <3>3. t = [page_tokens |-> tokens, candidates |-> s.candidates, selected |-> sel, pc |-> "done"]
      <4>1. s = [page_tokens |-> tokens, candidates |-> s.candidates, selected |-> s.selected,
                 pc |-> "loop"]
        BY <1>5 DEF TuneStates
      <4> QED
        BY <3>1, <4>1
    <3>4. t \in TuneStates /\ t.pc = "done" /\ t.page_tokens = tokens /\ t.selected = sel
      BY <1>1, <3>2, <3>3 DEF TuneStates
    <3> QED
      BY <1>5, <2>3, <3>4 DEF sel
  <2>4. CASE s.selected = 0 /\ fits = {}
    <3>1. t = [s EXCEPT !.pc = "no_fit"]
      BY <2>1, <2>4, Zenon DEF Select
    <3>2. t \in TuneStates /\ t.pc = "no_fit" /\ t.page_tokens = tokens
      BY <3>1 DEF TuneStates
    <3> QED
      BY <1>5, <2>4, <3>2
  <2> QED
    BY <2>2, <2>3, <2>4
<1> QED
  BY <1>2, <1>3, <1>4, <1>5

(* The turns of the loop, one by one.                                      *)
TurnByTurn(g, input, n) ==
  /\ g \in [0 .. n -> TuneStates] /\ g[0] = Started(input)
  /\ \A k \in 1 .. n : g[k] = Turn(input, g[k - 1])

(* The fold of the model is the loop of tune.                              *)
LEMMA TunedByTurns ==
  ASSUME NEW input \in InputSet, NEW n \in Nat
  PROVE  \E g : TurnByTurn(g, input, n) /\ After(input, n) = g[n]
<1> DEFINE seq == [i \in 1 .. n |-> i]
           D == DOMAIN seq
           base == Started(input)
           Iterates(f) ==
             f = [s \in SUBSET D |-> IF s = {} THEN base
                                     ELSE LET x == Max(s) IN Turn(input, f[s \ {x}])]
           it == CHOOSE f : Iterates(f)
           step == [p \in (1 .. n) \X TuneStates |-> Turn(input, p[2])]
<1>1. After(input, n) = it[D]
  BY Zenon DEF After, FoldLeft, MapThenFoldSet
<1>2. D = 1 .. n
  OBVIOUS
<1>3. base \in TuneStates
  BY InputFacts DEF Started, TuneStates
<1>4. step \in [(1 .. n) \X TuneStates -> TuneStates]
  BY TurnFields, Zenon
<1>5. \A k \in 1 .. n, s \in TuneStates : step[<<k, s>>] = Turn(input, s)
  OBVIOUS
<1> HIDE DEF seq, base, step
<1>6. PICK f : LeftFold(f, n, TuneStates, base, step)
  BY <1>3, <1>4, LeftExists
<1>7. Iterates(f)
  <2>1. \A s \in SUBSET D : f[s] = IF s = {} THEN base ELSE Turn(input, f[s \ {Max(s)}])
    <3> SUFFICES ASSUME NEW s \in SUBSET D, s # {}
                 PROVE  f[s] = Turn(input, f[s \ {Max(s)}])
      BY <1>2, <1>6 DEF LeftFold
    <3>1. Max(s) \in 1 .. n /\ f[s \ {Max(s)}] \in TuneStates
      BY <1>2, <1>6 DEF LeftFold
    <3> QED
      BY <1>2, <1>5, <1>6, <3>1, Zenon DEF LeftFold
  <2>2. f = [s \in SUBSET D |-> f[s]]
    BY <1>2, <1>6 DEF LeftFold
  <2> QED
    BY <2>1, <2>2
<1>8. Iterates(it)
  <2> HIDE DEF Iterates
  <2> QED
    BY <1>7
<1> HIDE DEF it
<1>9. \A s \in SUBSET (1 .. n) : it[s] = IF s = {} THEN base ELSE Turn(input, it[s \ {Max(s)}])
  BY <1>2, <1>8
<1>10. Unfolds(it, n, TuneStates, base, step)
  <2> SUFFICES ASSUME NEW s \in SUBSET (1 .. n), s # {}, it[s \ {Max(s)}] \in TuneStates
               PROVE  it[s] = step[<<Max(s), it[s \ {Max(s)}]>>]
    BY <1>9 DEF Unfolds
  <2>1. Max(s) \in 1 .. n
    BY <1>6 DEF LeftFold
  <2> QED
    BY <1>5, <1>9, <2>1, Zenon
<1>12. PICK g : Lefts(g, n, TuneStates, base, step) /\ Reaches(g, n, it)
  BY <1>3, <1>4, <1>10, LeftPrefixes
<1>13. g \in [0 .. n -> TuneStates] /\ g[0] = base /\ \A k \in 1 .. n : g[k] = step[<<k, g[k - 1]>>]
  BY <1>12 DEF Lefts
<1>14. \A k \in 1 .. n : g[k] = Turn(input, g[k - 1])
  <2> SUFFICES ASSUME NEW k \in 1 .. n PROVE g[k] = Turn(input, g[k - 1])
    OBVIOUS
  <2>1. k - 1 \in 0 .. n
    OBVIOUS
  <2>2. g[k - 1] \in TuneStates
    BY <1>13, <2>1
  <2> QED
    BY <1>5, <1>13, <2>2, Zenon
<1> QED
  BY <1>1, <1>2, <1>12, <1>13, <1>14, Zenon DEF TurnByTurn, base, Reaches

-----------------------------------------------------------------------------
(* The page size of a turn.                                                *)
Size(input, j) == FirstTokens(input) * 2 ^ j

(* A page size is twice the one before, and so past any number after as    *)
(* many turns as that has bits.                                            *)
LEMMA SizesDouble ==
  ASSUME NEW input \in InputSet, ValidInput(input)
  PROVE  /\ \A j \in Nat : /\ Size(input, j) \in Nat \ {0} /\ Size(input, j) >= 2 ^ j
                           /\ Size(input, j + 1) = 2 * Size(input, j)
         /\ Size(input, 0) = FirstTokens(input)
         /\ \A i, j \in Nat : i <= j => Size(input, i) <= Size(input, j)
<1>1. FirstTokens(input) \in Nat \ {0}
  BY InputFacts DEF FirstTokens, Smaller, ValidInput
<1> DEFINE F == FirstTokens(input)
<1> HIDE DEF F
<1>2. ASSUME NEW j \in Nat
      PROVE  /\ F * 2 ^ j \in Nat \ {0} /\ F * 2 ^ j >= 2 ^ j
             /\ F * 2 ^ (j + 1) = 2 * (F * 2 ^ j)
  <2> DEFINE p == 2 ^ j
  <2>1. p \in Nat \ {0} /\ F \in Nat \ {0} /\ 2 ^ (j + 1) = 2 * p
    BY <1>1, PowerPositive, PowerNext DEF F
  <2> HIDE DEF p
  <2>2. F * p \in Nat \ {0} /\ F * p >= p /\ F * (2 * p) = 2 * (F * p)
    BY <2>1, SMT
  <2> QED
    BY <2>1, <2>2, Zenon DEF p
<1>3. \A j \in Nat : /\ Size(input, j) \in Nat \ {0} /\ Size(input, j) >= 2 ^ j
                     /\ Size(input, j + 1) = 2 * Size(input, j)
  BY <1>2, Zenon DEF Size, F
<1>4. Size(input, 0) = FirstTokens(input)
  <2>1. 2 ^ 0 = 1
    BY SMT
  <2> QED
    BY <1>1, <2>1 DEF Size
<1>5. ASSUME NEW i \in Nat, NEW j \in Nat, i <= j PROVE Size(input, i) <= Size(input, j)
  <2> DEFINE S == {d \in Nat : Size(input, i) <= Size(input, i + d)}
  <2>1. 0 \in S
    BY <1>3
  <2>2. ASSUME NEW d \in Nat, d \in S PROVE d + 1 \in S
    <3>1. i + d \in Nat /\ i + (d + 1) = (i + d) + 1
      OBVIOUS
    <3>2. /\ Size(input, i + d) \in Nat /\ Size(input, (i + d) + 1) = 2 * Size(input, i + d)
          /\ Size(input, i) \in Nat
      BY <1>3, <3>1
    <3> QED
      BY <2>2, <3>1, <3>2
  <2>3. j - i \in S
    <3> HIDE DEF S
    <3>1. j - i \in Nat
      BY <1>5
    <3> QED
      BY <2>1, <2>2, <3>1, NatSetInduction
  <2>4. i + (j - i) = j
    OBVIOUS
  <2> QED
    BY <2>3, <2>4
<1> QED
  BY <1>3, <1>4, <1>5

(* The loop does not outlive the bits of usize.                            *)
LEMMA LoopIsShort ==
  ASSUME NEW input \in InputSet, ValidInput(input), NEW k \in Nat, Size(input, k) <= UsizeMax
  PROVE  k < UsizeBits
<1>1. /\ UsizeMax = 2 ^ UsizeBits - 1 /\ UsizeBits \in Nat /\ 2 ^ UsizeBits \in Nat \ {0}
      /\ 2 ^ k \in Nat \ {0} /\ Size(input, k) \in Nat /\ Size(input, k) >= 2 ^ k
  BY InputFacts, SizesDouble, PowerPositive
<1> DEFINE d == k - UsizeBits
           p == 2 ^ UsizeBits
           q == 2 ^ k
           r == 2 ^ d
<1> SUFFICES ASSUME k >= UsizeBits PROVE FALSE
  BY <1>1
<1>2. d \in Nat /\ UsizeBits + d = k
  BY <1>1
<1>3. q = p * r /\ r \in Nat \ {0}
  <2> HIDE DEF d
  <2> QED
    BY <1>1, <1>2, PowerSum, PowerPositive, Zenon
<1>4. UsizeMax = p - 1 /\ p \in Nat \ {0} /\ q \in Nat /\ Size(input, k) >= q /\ Size(input, k) \in Nat
  BY <1>1
<1> HIDE DEF p, q, r
<1>5. p * r >= p
  BY <1>3, <1>4, SMT
<1> QED
  BY <1>3, <1>4, <1>5

(* Bytes that can be counted are of a page size that can be doubled.       *)
LEMMA Doubles ==
  ASSUME NEW input \in InputSet, ValidInput(input), NEW tokens \in Nat, ~Overflows(input, tokens)
  PROVE  2 * tokens <= UsizeMax
<1>1. input.head_dim \in Nat \ {0} /\ UsizeMax \in Nat
  BY InputFacts DEF ValidInput
<1> DEFINE hd == input.head_dim
<1> HIDE DEF hd
<1>2. tokens * hd * 4 * 2 <= UsizeMax
  <2>1. ~ (tokens * hd * 4 * 2 > UsizeMax)
    BY Zenon DEF Overflows, KvBytes, hd
  <2>2. tokens * hd * 4 * 2 \in Nat
    BY <1>1 DEF hd
  <2> QED
    BY <1>1, <2>1, <2>2
<1>3. tokens * hd >= tokens /\ tokens * hd \in Nat
  BY <1>1, SMT DEF hd
<1> QED
  BY <1>1, <1>2, <1>3

-----------------------------------------------------------------------------
(* The loop after k turns: the page sizes up to there have been considered,*)
(* and the last of them that fits both bounds is selected.                 *)
FitsBoth(input, tokens) == FitsCache(input, tokens) /\ FitsScratch(input, tokens)

Considered(input, k, s) ==
  /\ Len(s.candidates) = k
  /\ \A j \in 0 .. k - 1 : /\ s.candidates[j + 1] = Size(input, j)
                           /\ InRange(input, Size(input, j))

SelectedLast(input, k, s) ==
  \/ s.selected = 0 /\ \A j \in 0 .. k - 1 : ~FitsBoth(input, Size(input, j))
  \/ \E i \in 0 .. k - 1 :
       /\ s.selected = Size(input, i) /\ FitsBoth(input, Size(input, i))
       /\ \A j \in i + 1 .. k - 1 : ~FitsBoth(input, Size(input, j))

Walked(input, k, s) ==
  /\ s.page_tokens <= UsizeMax
  /\ s.pc = "loop" => /\ s.page_tokens = Size(input, k)
                      /\ Considered(input, k, s) /\ SelectedLast(input, k, s)
  /\ s.pc # "loop" => IsBestOf(input, s)

(* No turn has been taken.                                                 *)
LEMMA WalkBegins ==
  ASSUME NEW input \in InputSet, ValidInput(input)
  PROVE  Walked(input, 0, Started(input))
<1>1. FirstTokens(input) <= UsizeMax /\ Size(input, 0) = FirstTokens(input)
  BY InputFacts, SizesDouble
<1>2. \A j \in 0 .. 0 - 1 : FALSE
  OBVIOUS
<1> DEFINE s == Started(input)
<1>3. /\ s.page_tokens = FirstTokens(input) /\ s.candidates = << >> /\ s.selected = 0 /\ s.pc = "loop"
  BY DEF Started
<1> HIDE DEF s
<1>4. Considered(input, 0, s)
  BY <1>2, <1>3 DEF Considered
<1>5. SelectedLast(input, 0, s)
  BY <1>2, <1>3 DEF SelectedLast
<1> QED
  BY <1>1, <1>3, <1>4, <1>5 DEF Walked, s

(* The page sizes of a loop that has come to one out of range.             *)
LEMMA SizesOfLoop ==
  ASSUME NEW input \in InputSet, ValidInput(input), NEW k \in Nat, k < UsizeBits,
         NEW s, Considered(input, k, s), ~InRange(input, Size(input, k))
  PROVE  PageSizes(input) = {Size(input, j) : j \in 0 .. k - 1}
<1>1. \A j \in Nat : k <= j => ~InRange(input, Size(input, j))
  <2> SUFFICES ASSUME NEW j \in Nat, k <= j, InRange(input, Size(input, j)) PROVE FALSE
    OBVIOUS
  <2>1. Size(input, k) <= Size(input, j) /\ Size(input, k) \in Nat /\ Size(input, j) \in Nat
    BY SizesDouble
  <2>2. input.max_page_tokens \in Nat /\ input.context_tokens \in Nat
    BY InputFacts
  <2> QED
    BY <2>1, <2>2 DEF InRange
<1>2. \A j \in 0 .. k - 1 : InRange(input, Size(input, j))
  BY DEF Considered
<1>3. PageSizes(input) = {tokens \in {Size(input, j) : j \in 0 .. UsizeBits} : InRange(input, tokens)}
  BY Zenon DEF PageSizes, Size
<1>4. UsizeBits \in Nat /\ 0 .. k - 1 \subseteq 0 .. UsizeBits
  BY InputFacts
<1>5. \A j \in 0 .. UsizeBits : InRange(input, Size(input, j)) => j \in 0 .. k - 1
  BY <1>1, <1>4
<1> QED
  BY <1>2, <1>3, <1>4, <1>5, Zenon

(* The last size that fits is the largest one that does, and the first one *)
(* the smallest.                                                           *)
LEMMA LastIsLargest ==
  ASSUME NEW input \in InputSet, ValidInput(input), NEW k \in Nat,
         NEW i \in 0 .. k - 1, \A j \in i + 1 .. k - 1 : ~FitsBoth(input, Size(input, j))
  PROVE  \A j \in 0 .. k - 1 : FitsBoth(input, Size(input, j)) => Size(input, j) <= Size(input, i)
<1> SUFFICES ASSUME NEW j \in 0 .. k - 1, FitsBoth(input, Size(input, j))
             PROVE  Size(input, j) <= Size(input, i)
  OBVIOUS
<1>1. j <= i /\ i \in Nat /\ j \in Nat
  OBVIOUS
<1> QED
  BY <1>1, SizesDouble

(* A turn that finds the size out of range selects the best one.           *)
LEMMA SelectedIsBest ==
  ASSUME NEW input \in InputSet, ValidInput(input), NEW k \in Nat, k < UsizeBits,
         NEW s \in TuneStates, s.pc = "loop", s.page_tokens = Size(input, k),
         Considered(input, k, s), SelectedLast(input, k, s), ~InRange(input, s.page_tokens)
  PROVE  Turn(input, s).pc # "loop" /\ IsBestOf(input, Turn(input, s))
<1> DEFINE t == Turn(input, s)
           budgeted == {tokens \in PageSizes(input) : FitsScratch(input, tokens)}
           cached == {tokens \in budgeted : FitsCache(input, tokens)}
           fits == {i \in DOMAIN s.candidates : FitsScratch(input, s.candidates[i])}
<1>1. PageSizes(input) = {Size(input, j) : j \in 0 .. k - 1}
  BY SizesOfLoop
<1>2. \A j \in Nat : Size(input, j) \in Nat \ {0}
  BY SizesDouble
<1>3. /\ s.selected # 0 => t.pc = "done" /\ t.selected = s.selected
      /\ s.selected = 0 /\ fits # {} => t.pc = "done" /\ t.selected = s.candidates[Min(fits)]
      /\ s.selected = 0 /\ fits = {} => t.pc = "no_fit"
  BY TurnFields
<1>4. /\ DOMAIN s.candidates = 1 .. k
      /\ \A j \in 0 .. k - 1 : s.candidates[j + 1] = Size(input, j)
  <2>1. s.candidates \in Seq(Nat)
    BY DEF TuneStates
  <2> QED
    BY <2>1 DEF Considered
<1> HIDE DEF t, fits
<1>5. \A tokens : tokens \in cached <=>
        \E j \in 0 .. k - 1 : tokens = Size(input, j) /\ FitsBoth(input, Size(input, j))
  BY <1>1, Zenon DEF FitsBoth
<1>6. \A tokens : tokens \in budgeted <=>
        \E j \in 0 .. k - 1 : tokens = Size(input, j) /\ FitsScratch(input, Size(input, j))
  BY <1>1, Zenon
<1> HIDE DEF cached, budgeted
<1>7. CASE s.selected # 0
  <2>1. PICK i \in 0 .. k - 1 :
          /\ s.selected = Size(input, i) /\ FitsBoth(input, Size(input, i))
          /\ \A j \in i + 1 .. k - 1 : ~FitsBoth(input, Size(input, j))
    BY <1>7 DEF SelectedLast
  <2>2. \A j \in 0 .. k - 1 : FitsBoth(input, Size(input, j)) => Size(input, j) <= Size(input, i)
    BY <2>1, LastIsLargest
  <2>3. s.selected \in cached /\ \A tokens \in cached : tokens <= s.selected
    <3>1. s.selected \in cached
      BY <1>5, <2>1
    <3>2. ASSUME NEW tokens \in cached PROVE tokens <= s.selected
      <4>1. PICK j \in 0 .. k - 1 : tokens = Size(input, j) /\ FitsBoth(input, Size(input, j))
        BY <1>5, <3>2
      <4> QED
        BY <2>1, <2>2, <4>1
    <3> QED
      BY <3>1, <3>2
  <2>4. t.pc = "done" /\ t.selected = s.selected
    BY <1>3, <1>7
  <2> QED
    BY <2>3, <2>4 DEF IsBestOf, t, cached, budgeted
<1>8. CASE s.selected = 0
  <2>1. cached = {}
    <3>1. \A j \in 0 .. k - 1 : ~FitsBoth(input, Size(input, j))
      BY <1>2, <1>8 DEF SelectedLast
    <3> QED
      BY <1>5, <3>1
  <2>2. CASE fits = {}
    <3>1. budgeted = {}
      <4> SUFFICES ASSUME NEW j \in 0 .. k - 1, FitsScratch(input, Size(input, j)) PROVE FALSE
        BY <1>6
      <4>1. j + 1 \in 1 .. k
        OBVIOUS
      <4>2. j + 1 \in fits
        BY <1>4, <4>1 DEF fits
      <4> QED
        BY <2>2, <4>2
    <3>2. t.pc = "no_fit"
      BY <1>3, <1>8, <2>2
    <3> QED
      BY <3>1, <3>2 DEF IsBestOf, t, cached, budgeted
  <2>3. CASE fits # {}
    <3>1. Min(fits) \in fits /\ \A i \in fits : Min(fits) <= i
      <4>1. fits \in SUBSET (1 .. k)
        BY <1>4 DEF fits
      <4> QED
        BY <2>3, <4>1, LeastExists
    <3> DEFINE i == Min(fits) - 1
    <3>2. i \in 0 .. k - 1 /\ i + 1 = Min(fits) /\ FitsScratch(input, s.candidates[Min(fits)])
      BY <1>4, <3>1 DEF fits
    <3> HIDE DEF i
    <3>3. s.candidates[Min(fits)] = Size(input, i) /\ FitsScratch(input, Size(input, i))
      BY <1>4, <3>2
    <3>4. \A j \in 0 .. k - 1 : FitsScratch(input, Size(input, j)) => Size(input, i) <= Size(input, j)
      <4> SUFFICES ASSUME NEW j \in 0 .. k - 1, FitsScratch(input, Size(input, j))
                   PROVE  Size(input, i) <= Size(input, j)
        OBVIOUS
      <4>1. j + 1 \in 1 .. k /\ s.candidates[j + 1] = Size(input, j)
        BY <1>4
      <4>2. j + 1 \in fits
        BY <1>4, <4>1 DEF fits
      <4>3. i <= j /\ i \in Nat /\ j \in Nat
        BY <3>1, <3>2, <4>2
      <4> QED
        BY <4>3, SizesDouble
    <3>5. t.pc = "done" /\ t.selected = Size(input, i)
      BY <1>3, <1>8, <2>3, <3>3
    <3>6. Size(input, i) \in budgeted
      BY <1>6, <3>2, <3>3, Zenon
    <3>7. \A tokens \in budgeted : tokens >= Size(input, i)
      <4> SUFFICES ASSUME NEW j \in 0 .. k - 1, FitsScratch(input, Size(input, j))
                   PROVE  Size(input, j) >= Size(input, i)
        BY <1>6, Zenon
      <4>1. Size(input, i) <= Size(input, j) /\ Size(input, i) \in Nat /\ Size(input, j) \in Nat
        BY <1>2, <3>2, <3>4
      <4> QED
        BY <4>1
    <3> QED
      BY <2>1, <3>5, <3>6, <3>7 DEF IsBestOf, t, cached, budgeted
  <2> QED
    BY <2>2, <2>3
<1>9. t.pc # "loop"
  BY <1>3
<1> QED
  BY <1>7, <1>8, <1>9 DEF t, TuneStates

(* A turn of the walk.                                                     *)
LEMMA WalkOn ==
  ASSUME NEW input \in InputSet, ValidInput(input), NEW k \in Nat,
         NEW s \in TuneStates, Walked(input, k, s)
  PROVE  Walked(input, k + 1, Turn(input, s))
<1> DEFINE t == Turn(input, s)
           tokens == s.page_tokens
<1>1. CASE s.pc # "loop"
  <2>1. t = s
    BY <1>1, TurnFields, Zenon
  <2> QED
    BY <1>1, <2>1 DEF Walked
<1> SUFFICES ASSUME s.pc = "loop" PROVE Walked(input, k + 1, t)
  BY <1>1
<1>2. tokens <= UsizeMax /\ tokens = Size(input, k) /\ Considered(input, k, s) /\ SelectedLast(input, k, s)
  BY DEF Walked
<1>3. k < UsizeBits
  BY <1>2, LoopIsShort
<1>4. tokens \in Nat /\ tokens # 0 /\ Size(input, k + 1) = 2 * tokens
      /\ \A j \in Nat : Size(input, j) \in Nat \ {0}
  BY <1>2, SizesDouble
<1>5. CASE InRange(input, tokens) /\ Overflows(input, tokens)
  <2>1. t.pc = "overflow" /\ t.page_tokens = tokens
    BY <1>5, TurnFields
  <2>2. tokens \in PageSizes(input)
    <3>1. k \in 0 .. UsizeBits
      BY <1>3, InputFacts
    <3> QED
      BY <1>2, <1>5, <3>1, Zenon DEF PageSizes, Size
  <2>3. IsBestOf(input, t)
    <3> HIDE DEF t
    <3> QED
      BY <1>5, <2>1, <2>2 DEF IsBestOf
  <2> HIDE DEF t
  <2> QED
    BY <1>2, <2>1, <2>3 DEF Walked
<1>6. CASE InRange(input, tokens) /\ ~Overflows(input, tokens)
  <2>1. /\ t.pc = "loop" /\ t.page_tokens = 2 * tokens /\ t.candidates = Append(s.candidates, tokens)
        /\ t.selected = IF FitsBoth(input, tokens) THEN tokens ELSE s.selected
    BY <1>6, TurnFields, Zenon DEF FitsBoth
  <2> HIDE DEF t, tokens
  <2>2. 2 * tokens <= UsizeMax
    BY <1>4, <1>6, Doubles
  <2>3. Considered(input, k + 1, t)
    <3>1. s.candidates \in Seq(Nat) /\ Len(s.candidates) = k
      BY <1>2 DEF TuneStates, Considered
    <3>2. /\ Len(t.candidates) = k + 1 /\ t.candidates[k + 1] = tokens
          /\ \A i \in 1 .. k : t.candidates[i] = s.candidates[i]
      <4>1. \A c \in Seq(Nat), x \in Nat :
              /\ Len(Append(c, x)) = Len(c) + 1 /\ Append(c, x)[Len(c) + 1] = x
              /\ \A i \in 1 .. Len(c) : Append(c, x)[i] = c[i]
        OBVIOUS
      <4> QED
        <5> DEFINE c == s.candidates
        <5>1. c \in Seq(Nat) /\ Len(c) = k /\ tokens \in Nat /\ t.candidates = Append(c, tokens)
          BY <1>4, <2>1, <3>1
        <5> HIDE DEF c
        <5>2. /\ Len(t.candidates) = Len(c) + 1 /\ t.candidates[Len(c) + 1] = tokens
              /\ \A i \in 1 .. Len(c) : t.candidates[i] = c[i]
          <6> DEFINE d == t.candidates
          <6>1. d = Append(c, tokens)
            BY <5>1
          <6> HIDE DEF d
          <6> QED
            BY <5>1, <6>1, SMT DEF d
        <5> QED
          BY <5>1, <5>2, Zenon DEF c
    <3>3. ASSUME NEW j \in 0 .. (k + 1) - 1
          PROVE  t.candidates[j + 1] = Size(input, j) /\ InRange(input, Size(input, j))
      <4>1. CASE j = k
        BY <1>2, <1>6, <3>2, <4>1
      <4>2. CASE j # k
        <5>1. j \in 0 .. k - 1 /\ j + 1 \in 1 .. k
          BY <4>2
        <5> QED
          BY <1>2, <3>2, <5>1 DEF Considered
      <4> QED
        BY <4>1, <4>2
    <3> QED
      BY <3>2, <3>3 DEF Considered
  <2>4. SelectedLast(input, k + 1, t)
    <3>1. CASE FitsBoth(input, tokens)
      <4>1. t.selected = Size(input, k) /\ k \in 0 .. (k + 1) - 1
        BY <1>2, <2>1, <3>1
      <4>2. \A j \in k + 1 .. (k + 1) - 1 : FALSE
        OBVIOUS
      <4> QED
        BY <1>2, <3>1, <4>1, <4>2 DEF SelectedLast
    <3>2. CASE ~FitsBoth(input, tokens)
      <4>1. t.selected = s.selected /\ ~FitsBoth(input, Size(input, k))
        BY <1>2, <2>1, <3>2
      <4>2. CASE s.selected = 0 /\ \A j \in 0 .. k - 1 : ~FitsBoth(input, Size(input, j))
        <5>1. \A j \in 0 .. (k + 1) - 1 : j = k \/ j \in 0 .. k - 1
          OBVIOUS
        <5>2. \A j \in 0 .. (k + 1) - 1 : ~FitsBoth(input, Size(input, j))
          BY <4>1, <4>2, <5>1
        <5> QED
          BY <4>1, <4>2, <5>2 DEF SelectedLast
      <4>3. ASSUME NEW i \in 0 .. k - 1, s.selected = Size(input, i), FitsBoth(input, Size(input, i)),
                   \A j \in i + 1 .. k - 1 : ~FitsBoth(input, Size(input, j))
            PROVE  SelectedLast(input, k + 1, t)
        <5>1. i \in 0 .. (k + 1) - 1 /\ \A j \in i + 1 .. (k + 1) - 1 : j = k \/ j \in i + 1 .. k - 1
          OBVIOUS
        <5>2. \A j \in i + 1 .. (k + 1) - 1 : ~FitsBoth(input, Size(input, j))
          BY <4>1, <4>3, <5>1
        <5> QED
          BY <4>1, <4>3, <5>1, <5>2 DEF SelectedLast
      <4> QED
        BY <1>2, <4>2, <4>3 DEF SelectedLast
    <3> QED
      BY <3>1, <3>2
  <2> QED
    BY <1>4, <2>1, <2>2, <2>3, <2>4 DEF Walked, t
<1>7. CASE ~InRange(input, tokens)
  <2>1. t.page_tokens = tokens
    BY <1>7, TurnFields
  <2>2. t.pc # "loop" /\ IsBestOf(input, t)
    BY <1>2, <1>3, <1>7, SelectedIsBest
  <2> HIDE DEF t
  <2> QED
    BY <1>2, <2>1, <2>2 DEF Walked, t
<1> QED
  BY <1>5, <1>6, <1>7

(* The loop ends, and with the best page size.                             *)
LEMMA TunedIsBest ==
  ASSUME NEW input \in InputSet
  PROVE  LET s == Tuned(input)
         IN  /\ s.pc # "loop" /\ s.page_tokens <= UsizeMax
             /\ s.pc # "refused" => IsBestOf(input, s)
<1>1. CASE ~ValidInput(input)
  <2>1. Tuned(input) = [Started(input) EXCEPT !.pc = "refused"]
    BY <1>1 DEF Tuned
  <2>2. Tuned(input).pc = "refused" /\ Tuned(input).page_tokens = FirstTokens(input)
    BY <2>1 DEF Started
  <2> QED
    BY <2>2, InputFacts
<1>2. CASE ValidInput(input)
  <2> DEFINE n == UsizeBits + 1
  <2>1. n \in Nat /\ Tuned(input) = After(input, n)
    BY <1>2, InputFacts DEF Tuned
  <2>2. PICK g : TurnByTurn(g, input, n) /\ After(input, n) = g[n]
    BY <2>1, TunedByTurns
  <2> HIDE DEF n
  <2>3. /\ \A k \in 0 .. n : g[k] \in TuneStates
        /\ g[0] = Started(input) /\ \A k \in 1 .. n : g[k] = Turn(input, g[k - 1])
    BY <2>2 DEF TurnByTurn
  <2> DEFINE S == {k \in Nat : k <= n => Walked(input, k, g[k])}
  <2>4. 0 \in S
    BY <1>2, <2>3, WalkBegins
  <2>5. ASSUME NEW k \in Nat, k \in S PROVE k + 1 \in S
    <3> SUFFICES ASSUME k + 1 <= n PROVE Walked(input, k + 1, g[k + 1])
      OBVIOUS
    <3>1. k \in 0 .. n /\ k + 1 \in 1 .. n /\ (k + 1) - 1 = k /\ Walked(input, k, g[k])
      BY <2>1, <2>5
    <3>2. g[k] \in TuneStates /\ g[k + 1] = Turn(input, g[k])
      BY <2>3, <3>1
    <3>3. Walked(input, k + 1, Turn(input, g[k]))
      BY <1>2, <3>1, <3>2, WalkOn
    <3> QED
      BY <3>2, <3>3
  <2>6. n \in S
    <3> HIDE DEF S
    <3> QED
      BY <2>1, <2>4, <2>5, NatSetInduction
  <2> DEFINE s == g[n]
  <2>7. Walked(input, n, s) /\ Tuned(input) = s /\ s \in TuneStates
    BY <2>1, <2>2, <2>3, <2>6
  <2> HIDE DEF s
  <2>8. s.pc # "loop"
    <3> SUFFICES ASSUME s.pc = "loop" PROVE FALSE
      OBVIOUS
    <3>1. Size(input, n) <= UsizeMax
      BY <2>7 DEF Walked
    <3>2. n < UsizeBits
      BY <1>2, <2>1, <3>1, LoopIsShort
    <3> QED
      BY <3>2, InputFacts DEF n
  <2> QED
    BY <2>7, <2>8 DEF Walked
<1> QED
  BY <1>1, <1>2

-----------------------------------------------------------------------------
(* FlattenSeq of rows of one width.                                        *)
Rows(seqs, n, w, V) ==
  /\ seqs \in Seq(Seq(V)) /\ Len(seqs) = n
  /\ \A t \in 1 .. n : seqs[t] \in Seq(V) /\ Len(seqs[t]) = w

Flat(seqs, w, k) == [i \in 1 .. k * w |-> seqs[(i - 1) \div w + 1][((i - 1) % w) + 1]]

(* The closed form has an element of a row where its row begins, and past  *)
(* it.                                                                     *)
LEMMA FlatElement ==
  ASSUME NEW w \in Nat, NEW k \in Nat, NEW seqs, NEW t \in 0 .. k - 1, NEW d \in 1 .. w
  PROVE  t * w + d \in 1 .. k * w /\ Flat(seqs, w, k)[t * w + d] = seqs[t + 1][d]
<1>1. w \in Nat \ {0} /\ t \in Nat /\ d - 1 \in 0 .. w - 1 /\ d \in Nat \ {0}
  OBVIOUS
<1>2. w * t \in Nat /\ w * t = t * w /\ (t * w + d) - 1 = w * t + (d - 1)
  BY <1>1, SMT
<1>3. (w * t + (d - 1)) \div w = t /\ (w * t + (d - 1)) % w = d - 1
  BY <1>1, QuotientUnique
<1>4. t * w + d \in 1 .. k * w
  <2>1. (t + 1) * w <= k * w /\ (t + 1) * w = t * w + w /\ t * w \in Nat /\ k * w \in Nat
    BY <1>1, SMT
  <2> QED
    BY <1>1, <2>1
<1> DEFINE i == t * w + d
<1>5. i \in 1 .. k * w /\ (i - 1) \div w = t /\ (i - 1) % w = d - 1
  BY <1>2, <1>3, <1>4
<1>6. d - 1 + 1 = d
  BY <1>1
<1> HIDE DEF i
<1>7. Flat(seqs, w, k)[i] = seqs[(i - 1) \div w + 1][((i - 1) % w) + 1]
  BY <1>5 DEF Flat
<1> QED
  BY <1>4, <1>5, <1>6, <1>7, Zenon DEF i

(* Every index is that of a place in a row.                                *)
LEMMA FlatPlace ==
  ASSUME NEW w \in Nat, NEW k \in Nat, NEW i \in 1 .. k * w
  PROVE  \E t \in 0 .. k - 1, d \in 1 .. w :
           i = t * w + d /\ t = (i - 1) \div w /\ d = ((i - 1) % w) + 1
<1>1. w \in Nat \ {0} /\ i - 1 \in Nat /\ k * w \in Nat
  <2>1. w = 0 => k * w = 0
    OBVIOUS
  <2>2. k * w \in Nat
    BY SMT
  <2> QED
    BY <2>1, <2>2
<1> DEFINE a == i - 1
           t == a \div w
           r == a % w
<1>2. a \in Nat /\ i = a + 1 /\ a < k * w
  BY <1>1
<1> HIDE DEF a
<1>3. t \in Nat /\ r \in 0 .. w - 1 /\ a = w * t + r
  BY <1>1, <1>2, Division
<1> HIDE DEF t, r
<1>4. w * t \in Nat /\ w * t = t * w
  BY <1>1, <1>3, SMT
<1>5. t < k
  <2> SUFFICES ASSUME t >= k PROVE FALSE
    BY <1>3
  <2>1. k * w <= w * t
    BY <1>1, <1>3, SMT
  <2> QED
    BY <1>1, <1>2, <1>3, <1>4, <2>1
<1>6. t \in 0 .. k - 1 /\ r + 1 \in 1 .. w /\ i = t * w + (r + 1)
  BY <1>1, <1>2, <1>3, <1>4, <1>5
<1> QED
  BY <1>6, Zenon DEF t, r, a

(* The closed form is a sequence of the length of all its rows.            *)
LEMMA FlatIsSeq ==
  ASSUME NEW V, NEW w \in Nat, NEW n \in Nat, NEW seqs, Rows(seqs, n, w, V), NEW k \in 0 .. n
  PROVE  /\ Flat(seqs, w, k) \in Seq(V) /\ Len(Flat(seqs, w, k)) = k * w
         /\ DOMAIN Flat(seqs, w, k) = 1 .. k * w
<1> DEFINE f == Flat(seqs, w, k)
           m == k * w
<1>1. m \in Nat /\ k \in Nat
  BY SMT
<1>2. f = [i \in 1 .. m |-> f[i]] /\ DOMAIN f = 1 .. m
  BY DEF Flat
<1>3. \A i \in 1 .. m : f[i] \in V
  <2> SUFFICES ASSUME NEW i \in 1 .. m PROVE f[i] \in V
    OBVIOUS
  <2>1. PICK t \in 0 .. k - 1, d \in 1 .. w : i = t * w + d
    BY <1>1, FlatPlace
  <2>2. f[t * w + d] = seqs[t + 1][d]
    BY <1>1, <2>1, FlatElement
  <2>3. t + 1 \in 1 .. n
    BY <1>1
  <2>4. seqs[t + 1] \in Seq(V) /\ Len(seqs[t + 1]) = w
    BY <2>3 DEF Rows
  <2>5. seqs[t + 1][d] \in V
    BY <2>4, ElementOfSeq
  <2> QED
    BY <2>1, <2>2, <2>5
<1> HIDE DEF f, m
<1>4. f \in [1 .. m -> V]
  BY <1>2, <1>3
<1>5. f \in Seq(V) /\ Len(f) = m
  BY <1>1, <1>4
<1> QED
  BY <1>2, <1>5 DEF f, m

Filled(seqs, n, w, V) ==
  /\ Flat(seqs, w, n) \in Seq(V) /\ Len(Flat(seqs, w, n)) = n * w
  /\ DOMAIN Flat(seqs, w, n) = 1 .. n * w

(* All the rows fill a sequence of their lengths together.                 *)
LEMMA FlatIsFilled ==
  ASSUME NEW V, NEW w \in Nat, NEW n \in Nat, NEW seqs, Rows(seqs, n, w, V)
  PROVE  Filled(seqs, n, w, V)
<1>1. n \in 0 .. n
  OBVIOUS
<1> QED
  BY <1>1, FlatIsSeq DEF Filled

Grows(seqs, w, k) ==
  Flat(seqs, w, k) = IF k = 1 THEN seqs[k] ELSE Flat(seqs, w, k - 1) \o seqs[k]

(* One more row is appended to it.                                         *)
LEMMA FlatGrows ==
  ASSUME NEW V, NEW w \in Nat, NEW n \in Nat, NEW seqs, Rows(seqs, n, w, V), NEW k \in 1 .. n
  PROVE  Grows(seqs, w, k)
<1> DEFINE f == Flat(seqs, w, k)
           e == Flat(seqs, w, k - 1)
           s == seqs[k]
<1>1. k \in 0 .. n /\ k - 1 \in 0 .. n /\ k \in Nat /\ k - 1 \in Nat
  OBVIOUS
<1>2. f \in Seq(V) /\ Len(f) = k * w /\ e \in Seq(V) /\ Len(e) = (k - 1) * w
  <2>1. f \in Seq(V) /\ Len(f) = k * w
    BY <1>1, FlatIsSeq
  <2> DEFINE j == k - 1
  <2>2. j \in 0 .. n
    OBVIOUS
  <2> HIDE DEF j
  <2>3. Flat(seqs, w, j) \in Seq(V) /\ Len(Flat(seqs, w, j)) = j * w
    BY <2>2, FlatIsSeq
  <2> QED
    BY <2>1, <2>3 DEF j
<1>3. s \in Seq(V) /\ Len(s) = w
  BY DEF Rows
<1>4. k * w = (k - 1) * w + w /\ (k - 1) * w \in Nat /\ k * w \in Nat
  BY <1>1, SMT
<1> HIDE DEF f, e, s
<1>5. e \o s \in Seq(V) /\ Len(e \o s) = k * w
      /\ \A i \in 1 .. (k - 1) * w + w :
           (e \o s)[i] = IF i <= (k - 1) * w THEN e[i] ELSE s[i - (k - 1) * w]
  <2> DEFINE l == (k - 1) * w
  <2>1. e \in Seq(V) /\ s \in Seq(V) /\ Len(e) = l /\ Len(s) = w /\ k * w = l + w
    BY <1>2, <1>3, <1>4
  <2> HIDE DEF l
  <2>2. e \o s \in Seq(V) /\ Len(e \o s) = Len(e) + Len(s)
        /\ \A i \in 1 .. Len(e) + Len(s) :
             (e \o s)[i] = IF i <= Len(e) THEN e[i] ELSE s[i - Len(e)]
    BY <2>1, ConcatProperties
  <2> QED
    BY <2>1, <2>2, Zenon DEF l
<1>6. \A i \in 1 .. k * w : f[i] = (e \o s)[i]
  <2> SUFFICES ASSUME NEW i \in 1 .. k * w PROVE f[i] = (e \o s)[i]
    OBVIOUS
  <2>1. PICK t \in 0 .. k - 1, d \in 1 .. w : i = t * w + d
    BY <1>1, FlatPlace
  <2>2. f[i] = seqs[t + 1][d]
    BY <1>1, <2>1, FlatElement DEF f
  <2>3. CASE t = k - 1
    <3>1. i - (k - 1) * w = d /\ ~(i <= (k - 1) * w) /\ i \in 1 .. (k - 1) * w + w /\ t + 1 = k
      BY <1>4, <2>1, <2>3
    <3> QED
      BY <1>5, <2>2, <3>1 DEF s
  <2>4. CASE t # k - 1
    <3>1. t \in 0 .. (k - 1) - 1
      BY <2>4
    <3>2. i \in 1 .. (k - 1) * w /\ e[i] = seqs[t + 1][d]
      BY <1>1, <2>1, <3>1, FlatElement DEF e
    <3>3. i <= (k - 1) * w /\ i \in 1 .. (k - 1) * w + w
      BY <1>4, <3>2
    <3> QED
      BY <1>5, <2>2, <3>2, <3>3
  <2> QED
    BY <2>3, <2>4
<1>7. f = e \o s
  BY <1>2, <1>5, <1>6, SeqEqual
<1>8. CASE k = 1
  <2>1. (k - 1) * w = 0
    BY <1>8
  <2>2. e = << >>
    BY <1>2, <2>1, EmptySeq
  <2> QED
    BY <1>3, <1>7, <1>8, <2>2, ConcatEmptySeq DEF f, s, Grows
<1> QED
  BY <1>7, <1>8 DEF f, e, s, Grows

(* FlattenSeq, a recursive function in the library, has that closed form   *)
(* on rows of one width.                                                   *)
LEMMA FlattenRows ==
  ASSUME NEW V, NEW w \in Nat, NEW n \in Nat \ {0}, NEW seqs, Rows(seqs, n, w, V)
  PROVE  FlattenSeq(seqs) = Flat(seqs, w, n)
<1>0. n \in Nat /\ Len(seqs) = n
  BY DEF Rows
<1>9. ASSUME NEW k \in 1 .. n
      PROVE  Flat(seqs, w, k) = IF k = 1 THEN seqs[k] ELSE Flat(seqs, w, k - 1) \o seqs[k]
  <2>1. n \in Nat
    OBVIOUS
  <2>2. Grows(seqs, w, k)
    BY <2>1, FlatGrows
  <2> QED
    BY <2>2, Zenon DEF Grows
<1> DEFINE Recurs(f) == f = [i \in 1 .. Len(seqs) |-> IF i = 1 THEN seqs[i] ELSE f[i - 1] \o seqs[i]]
           flatten == CHOOSE f : Recurs(f)
           F == [k \in 1 .. n |-> Flat(seqs, w, k)]
<1>1. FlattenSeq(seqs) = flatten[Len(seqs)]
  <2>1. Len(seqs) # 0
    BY <1>0
  <2> QED
    BY <2>1, Zenon DEF FlattenSeq
<1>2. Recurs(F)
  <2>1. \A k \in 1 .. n : F[k] = Flat(seqs, w, k)
    OBVIOUS
  <2>2. \A k \in 1 .. n : Flat(seqs, w, k) = IF k = 1 THEN seqs[k] ELSE Flat(seqs, w, k - 1) \o seqs[k]
    BY <1>9, Zenon
  <2>3. \A k \in 1 .. n : k # 1 => k - 1 \in 1 .. n
    OBVIOUS
  <2>4. \A k \in 1 .. n : F[k] = IF k = 1 THEN seqs[k] ELSE F[k - 1] \o seqs[k]
    BY <2>1, <2>2, <2>3, Zenon
  <2>5. F = [k \in 1 .. n |-> F[k]]
    OBVIOUS
  <2> HIDE DEF F
  <2> QED
    BY <1>0, <2>4, <2>5
<1>3. Recurs(flatten)
  <2> HIDE DEF Recurs
  <2> QED
    BY <1>2
<1> HIDE DEF flatten
<1>4. \A k \in 1 .. n : flatten[k] = IF k = 1 THEN seqs[k] ELSE flatten[k - 1] \o seqs[k]
  BY <1>0, <1>3
<1> DEFINE S == {k \in Nat : k + 1 <= n => flatten[k + 1] = Flat(seqs, w, k + 1)}
<1>5. 0 \in S
  <2>1. 1 \in 1 .. n
    OBVIOUS
  <2>2. Flat(seqs, w, 1) = seqs[1] /\ flatten[1] = seqs[1]
    BY <1>4, <1>9, <2>1, Zenon
  <2> QED
    BY <2>2
<1>6. ASSUME NEW k \in Nat, k \in S PROVE k + 1 \in S
  <2> DEFINE m == (k + 1) + 1
  <2> SUFFICES ASSUME m <= n PROVE flatten[m] = Flat(seqs, w, m)
    OBVIOUS
  <2>1. m \in 1 .. n /\ m # 1 /\ m - 1 = k + 1 /\ flatten[k + 1] = Flat(seqs, w, k + 1)
    BY <1>6
  <2> HIDE DEF m
  <2>2. Flat(seqs, w, m) = Flat(seqs, w, m - 1) \o seqs[m]
    BY <1>9, <2>1, Zenon
  <2>3. flatten[m] = flatten[m - 1] \o seqs[m]
    BY <1>4, <2>1
  <2> QED
    BY <2>1, <2>2, <2>3
<1>7. n - 1 \in S
  <2> HIDE DEF S
  <2>1. n - 1 \in Nat
    OBVIOUS
  <2> QED
    BY <1>5, <1>6, <2>1, NatSetInduction
<1>8. n - 1 + 1 = n
  OBVIOUS
<1> QED
  BY <1>0, <1>1, <1>7, <1>8

-----------------------------------------------------------------------------
(* The loops over rows.                                                    *)
LEMMA Products ==
  ASSUME NEW a \in Nat, NEW b \in Nat
  PROVE  /\ a * b <= UsizeMax => CheckedMul(a, b) = a * b
         /\ CheckedMul(a, b) # Failed => CheckedMul(a, b) = a * b /\ a * b <= UsizeMax
         /\ a * b \in Nat
<1>1. a * b \in Nat
  BY SMT
<1>2. Failed \notin {a, b} /\ UsizeMax \in Nat
  BY PowerPositive, UsizeAssumption DEF Failed, UsizeMax
<1>3. CheckedMul(a, b) = IF a * b > UsizeMax THEN Failed ELSE a * b
  BY <1>2 DEF CheckedMul
<1>4. CASE a * b > UsizeMax
  <2>1. CheckedMul(a, b) = Failed
    BY <1>3, <1>4
  <2> QED
    BY <1>1, <1>2, <1>4, <2>1
<1>5. CASE ~(a * b > UsizeMax)
  <2>1. CheckedMul(a, b) = a * b
    BY <1>3, <1>5
  <2> QED
    BY <1>1, <1>2, <1>5, <2>1
<1> QED
  BY <1>4, <1>5

(* A row within a matrix of total_len elements, and what a row is.         *)
LEMMA RowsInside ==
  ASSUME NEW row \in Nat, NEW width \in Nat, NEW total_len \in Nat
  PROVE  LET range == CheckedRowRange(row, width, total_len)
         IN  /\ total_len <= UsizeMax /\ row * width + width <= total_len =>
                  range = Row(row * width, width)
             /\ range = << >> \/ (range = Row(row * width, width) /\ row * width + width <= total_len)
<1> DEFINE start == CheckedMul(row, width)
           stop == CheckedAdd(start, width)
           p == row * width
<1>1. p \in Nat /\ UsizeMax \in Nat /\ width # Failed /\ p # Failed /\ p + width # Failed
  <2>1. p \in Nat
    BY Products
  <2>2. UsizeMax \in Nat
    BY PowerPositive, UsizeAssumption DEF UsizeMax
  <2> HIDE DEF p
  <2> QED
    BY <2>1, <2>2 DEF Failed
<1>2. /\ p <= UsizeMax => start = p
      /\ start # Failed => start = p /\ p <= UsizeMax
  BY Products
<1>3. CheckedRowRange(row, width, total_len)
      = IF stop = Failed \/ stop > total_len THEN << >> ELSE Row(start, width)
  BY Zenon DEF CheckedRowRange
<1>4. stop = IF Failed \in {start, width} \/ start + width > UsizeMax THEN Failed ELSE start + width
  BY Zenon DEF CheckedAdd
<1> HIDE DEF start, stop, p, UsizeMax
<1>5. CASE stop = Failed \/ stop > total_len
  <2>1. CheckedRowRange(row, width, total_len) = << >>
    BY <1>3, <1>5
  <2>2. total_len <= UsizeMax /\ p + width <= total_len => FALSE
    BY <1>1, <1>2, <1>4, <1>5
  <2> QED
    BY <2>1, <2>2 DEF p
<1>6. CASE ~(stop = Failed \/ stop > total_len)
  <2>1. start = p /\ stop = p + width
    BY <1>1, <1>2, <1>4, <1>6
  <2>2. p + width <= total_len
    BY <1>1, <1>6, <2>1
  <2>3. CheckedRowRange(row, width, total_len) = Row(p, width)
    BY <1>3, <1>6, <2>1
  <2> QED
    BY <2>2, <2>3 DEF p
<1> QED
  BY <1>5, <1>6

RangeInside(row, width, total_len, range) ==
  \A i \in DOMAIN range : range[i] = row * width + i - 1 /\ range[i] < total_len

(* A row range that is given out ends within the matrix.                   *)
LEMMA RowRangeInside ==
  ASSUME NEW row \in Nat, NEW width \in Nat, NEW total_len \in Nat
  PROVE  RangeInside(row, width, total_len, CheckedRowRange(row, width, total_len))
<1> DEFINE range == CheckedRowRange(row, width, total_len)
           p == row * width
<1>1. p \in Nat
  BY Products
<1>2. range = << >> \/ (range = Row(p, width) /\ p + width <= total_len)
  BY RowsInside
<1> HIDE DEF range, p
<1>3. CASE range = << >>
  BY <1>3 DEF RangeInside, range
<1>4. CASE range = Row(p, width) /\ p + width <= total_len
  <2>1. DOMAIN range = 1 .. width /\ \A i \in 1 .. width : range[i] = p + i - 1
    BY <1>4 DEF Row
  <2>2. \A i \in 1 .. width : p + i - 1 < total_len
    BY <1>1, <1>4
  <2> QED
    BY <2>1, <2>2, Zenon DEF RangeInside, range, p
<1> QED
  BY <1>2, <1>3, <1>4

(* What a page is written with.                                            *)
Tiled(first, end, head_dim, len, writes) ==
  /\ Len(writes) = len /\ len = (end - first) * head_dim
  /\ \A i \in DOMAIN writes :
       writes[i] = <<i - 1, first + (i - 1) \div head_dim, (i - 1) % head_dim>>

(* The rows that a page loop writes tile the page it was given.            *)
LEMMA PageIsTiled ==
  ASSUME NEW first \in Nat, NEW end \in Nat, NEW head_dim \in Nat, NEW len \in Nat,
         PageWrites(first, end, head_dim, len) # << >>
  PROVE  Tiled(first, end, head_dim, len, PageWrites(first, end, head_dim, len))
<1> DEFINE tokens == CheckedRangeLen(first, end)
           expected == CheckedMul(tokens, head_dim)
           row(t) == CheckedRowRange(t, head_dim, expected)
           writes(t) == [d \in 1 .. Len(row(t)) |-> <<row(t)[d], first + t, d - 1>>]
           seqs == [t \in 1 .. tokens |-> writes(t - 1)]
           V == Nat \X Nat \X Nat
           out == PageWrites(first, end, head_dim, len)
<1>1. expected # Failed /\ expected = len /\ out = FlattenSeq(seqs)
  BY Zenon DEF PageWrites
<1>2. tokens \in Nat \ {0} /\ tokens = end - first
  <2>1. tokens # Failed
    BY <1>1, Zenon DEF CheckedMul
  <2> QED
    BY <2>1 DEF CheckedRangeLen
<1> HIDE DEF tokens
<1>3. expected = tokens * head_dim /\ expected <= UsizeMax /\ len = tokens * head_dim
  <2>1. expected = tokens * head_dim /\ tokens * head_dim <= UsizeMax
    BY <1>1, <1>2, Products
  <2> QED
    BY <1>1, <2>1
<1>4. ASSUME NEW t \in 0 .. tokens - 1
      PROVE  row(t) = Row(t * head_dim, head_dim)
  <2>1. t \in Nat /\ t * head_dim + head_dim <= tokens * head_dim /\ expected \in Nat
    <3>1. (t + 1) * head_dim <= tokens * head_dim /\ (t + 1) * head_dim = t * head_dim + head_dim
      BY <1>2, SMT
    <3>2. expected \in Nat
      BY <1>1
    <3> QED
      BY <3>1, <3>2
  <2> HIDE DEF expected
  <2>2. t * head_dim + head_dim <= expected
    BY <1>3, <2>1
  <2> QED
    BY <1>3, <2>1, <2>2, RowsInside
<1> HIDE DEF row, expected
<1>5. ASSUME NEW t \in 0 .. tokens - 1
      PROVE  /\ writes(t) \in Seq(V) /\ Len(writes(t)) = head_dim
             /\ \A d \in 1 .. head_dim : writes(t)[d] = <<t * head_dim + d - 1, first + t, d - 1>>
  <2> DEFINE p == t * head_dim
             r == row(t)
             w == writes(t)
  <2>1. p \in Nat /\ t \in Nat
    BY Products
  <2>2. r = Row(p, head_dim)
    BY <1>4
  <2> HIDE DEF p, r
  <2>3. Len(r) = head_dim /\ \A d \in 1 .. head_dim : r[d] = p + d - 1
    BY <2>2 DEF Row
  <2>4. w = [d \in 1 .. head_dim |-> <<r[d], first + t, d - 1>>]
    BY <2>3 DEF r
  <2> HIDE DEF w
  <2>5. \A d \in 1 .. head_dim : w[d] = <<p + d - 1, first + t, d - 1>> /\ w[d] \in V
    <3> SUFFICES ASSUME NEW d \in 1 .. head_dim
                 PROVE  w[d] = <<p + d - 1, first + t, d - 1>> /\ w[d] \in V
      OBVIOUS
    <3>1. w[d] = <<r[d], first + t, d - 1>> /\ r[d] = p + d - 1
      BY <2>3, <2>4
    <3>2. p + d - 1 \in Nat /\ first + t \in Nat /\ d - 1 \in Nat
      BY <2>1
    <3>3. <<p + d - 1, first + t, d - 1>> \in V
      BY <3>2
    <3> HIDE DEF V
    <3> QED
      BY <3>1, <3>3
  <2>6. w \in [1 .. head_dim -> V]
    BY <2>4, <2>5
  <2>7. w \in Seq(V) /\ Len(w) = head_dim
    <3> HIDE DEF V
    <3> QED
      BY <2>6
  <2> QED
    BY <2>5, <2>7 DEF w, p
<1> HIDE DEF writes, V
<1>6. Rows(seqs, tokens, head_dim, V)
  <2>1. \A t \in 1 .. tokens : t - 1 \in 0 .. tokens - 1 /\ seqs[t] = writes(t - 1)
    BY <1>2
  <2>2. \A t \in 1 .. tokens : seqs[t] \in Seq(V) /\ Len(seqs[t]) = head_dim
    BY <1>5, <2>1
  <2>3. seqs \in [1 .. tokens -> Seq(V)]
    BY <2>2
  <2> DEFINE U == Seq(V)
  <2>4. seqs \in [1 .. tokens -> U]
    BY <2>3
  <2> HIDE DEF U, seqs
  <2>5. seqs \in Seq(U) /\ Len(seqs) = tokens
    BY <1>2, <2>4
  <2> QED
    BY <2>2, <2>5 DEF Rows, U
<1>7. \A t \in 0 .. tokens - 1 : seqs[t + 1] = writes(t)
  <2> SUFFICES ASSUME NEW t \in 0 .. tokens - 1 PROVE seqs[t + 1] = writes(t)
    OBVIOUS
  <2>1. t + 1 \in 1 .. tokens /\ (t + 1) - 1 = t
    BY <1>2
  <2>2. seqs[t + 1] = writes((t + 1) - 1)
    BY <2>1
  <2> QED
    BY <2>1, <2>2
<1> HIDE DEF seqs
<1>8. out = Flat(seqs, head_dim, tokens) /\ Len(out) = tokens * head_dim /\ DOMAIN out = 1 .. tokens * head_dim
  <2>1. FlattenSeq(seqs) = Flat(seqs, head_dim, tokens)
    BY <1>2, <1>6, FlattenRows
  <2>2. tokens \in Nat
    BY <1>2
  <2>3. Filled(seqs, tokens, head_dim, V)
    BY <1>6, <2>2, FlatIsFilled
  <2> QED
    BY <1>1, <2>1, <2>3 DEF Filled
<1> HIDE DEF out
<1>9. ASSUME NEW i \in DOMAIN out
      PROVE  out[i] = <<i - 1, first + (i - 1) \div head_dim, (i - 1) % head_dim>>
  <2>0. tokens \in Nat /\ i \in 1 .. tokens * head_dim
    BY <1>2, <1>8
  <2>1. PICK t \in 0 .. tokens - 1, d \in 1 .. head_dim :
          i = t * head_dim + d /\ t = (i - 1) \div head_dim /\ d = ((i - 1) % head_dim) + 1
    BY <2>0, FlatPlace
  <2>2. out[t * head_dim + d] = seqs[t + 1][d]
    BY <1>8, <2>0, FlatElement
  <2>3. seqs[t + 1][d] = <<t * head_dim + d - 1, first + t, d - 1>>
    BY <1>5, <1>7
  <2>4. t * head_dim + d - 1 = i - 1 /\ d - 1 = (i - 1) % head_dim
    <3> DEFINE p == t * head_dim
               m == tokens * head_dim
               a == i - 1
               r == a % head_dim
    <3>1. head_dim \in Nat \ {0} /\ t \in Nat /\ p \in Nat /\ m \in Nat
      BY <2>0, <2>1, Products
    <3>2. i \in 1 .. m /\ i = p + d
      BY <2>0, <2>1
    <3> HIDE DEF p, m
    <3>3. a \in Nat
      BY <3>1, <3>2
    <3> HIDE DEF a
    <3>4. r \in 0 .. head_dim - 1
      BY <3>1, <3>3, Division
    <3>5. d = r + 1
      BY <2>1 DEF a
    <3> HIDE DEF r
    <3>6. p + d - 1 = i - 1 /\ d - 1 = r
      BY <3>1, <3>2, <3>4, <3>5
    <3> QED
      BY <3>6 DEF p, r, a
  <2> QED
    BY <2>1, <2>2, <2>3, <2>4
<1>10. Len(out) = len /\ len = (end - first) * head_dim
  BY <1>2, <1>3, <1>8
<1> QED
  BY <1>9, <1>10, Zenon DEF Tiled, out

(* What a page is copied from.                                             *)
LEMMA CopyIsTiled ==
  ASSUME NEW context \in Nat, NEW first \in Nat, NEW end \in Nat, NEW head_dim \in Nat,
         NEW len \in Nat, ExactWrites(context, head_dim, first, end, head_dim, len) # << >>
  PROVE  /\ Tiled(first, end, head_dim, len,
                  ExactWrites(context, head_dim, first, end, head_dim, len))
         /\ end <= context
<1> DEFINE from == CheckedMul(first, head_dim)
           to == CheckedMul(end, head_dim)
           out == ExactWrites(context, head_dim, first, end, head_dim, len)
<1>1. /\ ~(first >= end) /\ ~(end > context) /\ from # Failed /\ to # Failed /\ ~(to - from # len)
      /\ out = [i \in 1 .. len |-> <<i - 1, (from + i - 1) \div head_dim, (from + i - 1) % head_dim>>]
  <2>1. out = IF \/ head_dim # head_dim \/ first >= end \/ end > context
                 \/ Failed \in {from, to} \/ to - from # len
                THEN << >>
              ELSE [i \in 1 .. len |-> <<i - 1, (from + i - 1) \div head_dim, (from + i - 1) % head_dim>>]
    BY Zenon DEF ExactWrites
  <2> HIDE DEF out
  <2>2. ~ (\/ head_dim # head_dim \/ first >= end \/ end > context
           \/ Failed \in {from, to} \/ to - from # len)
    <3>1. out # << >>
      BY DEF out
    <3> QED
      BY <2>1, <3>1, Zenon
  <2> QED
    BY <2>1, <2>2, Zenon
<1>2. from = first * head_dim /\ to = end * head_dim /\ from \in Nat /\ to \in Nat
  BY <1>1, Products
<1>3. len = (end - first) * head_dim /\ end <= context
  <2>1. (end - first) * head_dim = end * head_dim - first * head_dim
    BY SMT
  <2> QED
    BY <1>1, <1>2, <2>1
<1> HIDE DEF from, to, out
<1>4. ASSUME NEW i \in 1 .. len
      PROVE  /\ (from + i - 1) \div head_dim = first + (i - 1) \div head_dim
             /\ (from + i - 1) % head_dim = (i - 1) % head_dim
  <2> DEFINE w == head_dim
             a == i - 1
             q == a \div w
             r == a % w
  <2>1. w \in Nat \ {0} /\ a \in Nat /\ from + i - 1 = from + a
    <3>1. head_dim = 0 => (end - first) * head_dim = 0
      BY <1>1
    <3>2. head_dim # 0
      BY <1>3, <3>1
    <3> QED
      BY <1>2, <3>2
  <2> HIDE DEF a
  <2>2. q \in Nat /\ r \in 0 .. w - 1 /\ a = w * q + r
    BY <2>1, Division
  <2> HIDE DEF q, r
  <2>3. from + a = w * (first + q) + r
    <3>1. w * (first + q) = first * w + w * q /\ first * w \in Nat /\ w * q \in Nat
      BY <2>1, <2>2, SMT
    <3> QED
      BY <1>2, <2>2, <3>1
  <2> DEFINE f == first + q
  <2>4. f \in Nat
    BY <2>2
  <2> HIDE DEF f
  <2>5. (w * f + r) \div w = f /\ (w * f + r) % w = r
    BY <2>1, <2>2, <2>4, QuotientUnique
  <2> QED
    BY <2>1, <2>3, <2>5, Zenon DEF f, q, r, a
<1>5. DOMAIN out = 1 .. len /\ Len(out) = len
  BY <1>1
<1>6. ASSUME NEW i \in 1 .. len
      PROVE  out[i] = <<i - 1, first + (i - 1) \div head_dim, (i - 1) % head_dim>>
  <2>1. out[i] = <<i - 1, (from + i - 1) \div head_dim, (from + i - 1) % head_dim>>
    BY <1>1
  <2> QED
    BY <1>4, <2>1, Zenon
<1>7. \A i \in DOMAIN out : out[i] = <<i - 1, first + (i - 1) \div head_dim, (i - 1) % head_dim>>
  BY <1>5, <1>6
<1> QED
  BY <1>3, <1>5, <1>7, Zenon DEF Tiled, out

-----------------------------------------------------------------------------
(* The dot products.                                                       *)
Paired(len, terms) == Len(terms) = len /\ ToSet(terms) = {<<i, i>> : i \in 1 .. len}

(* The scalar loop takes each index once.                                  *)
LEMMA ScalarIsPaired ==
  ASSUME NEW len \in Nat
  PROVE  Paired(len, DotScalar(len))
<1> DEFINE t == DotScalar(len)
<1>1. t = [i \in 1 .. len |-> <<i, i>>]
  BY DEF DotScalar, Pairs
<1> HIDE DEF t
<1>2. Len(t) = len /\ DOMAIN t = 1 .. len /\ \A i \in 1 .. len : t[i] = <<i, i>>
  BY <1>1
<1>3. ToSet(t) = {t[i] : i \in 1 .. len}
  BY <1>2 DEF ToSet
<1>4. ToSet(t) = {<<i, i>> : i \in 1 .. len}
  BY <1>2, <1>3
<1> QED
  BY <1>2, <1>4 DEF Paired, t

(* Every index is that of a chunk and a lane, or in the remainder.         *)
LEMMA Chunks ==
  ASSUME NEW len \in Nat
  PROVE  LET chunks == len \div Lanes
         IN  /\ chunks \in Nat /\ chunks * Lanes <= len /\ chunks * Lanes \in Nat
             /\ Lanes \in Nat \ {0} /\ Lanes * chunks = chunks * Lanes
<1>1. Lanes \in Nat \ {0}
  BY DEF Lanes
<1> DEFINE c == len \div Lanes
<1>2. c \in Nat /\ Lanes * c <= len
  BY <1>1, Brackets
<1> HIDE DEF c
<1>3. Lanes * c = c * Lanes /\ c * Lanes \in Nat
  BY <1>1, <1>2, SMT
<1> QED
  BY <1>1, <1>2, <1>3 DEF c

(* The eight lanes and the remainder together take each index once.        *)
LEMMA LanesArePaired ==
  ASSUME NEW len \in Nat
  PROVE  Paired(len, DotAutoVectorized(len))
<1> DEFINE chunks == len \div Lanes
           acc(l) == [c \in 1 .. chunks |-> (c - 1) * Lanes + l]
           remainder == [i \in 1 .. len - chunks * Lanes |-> chunks * Lanes + i]
           seqs == [l \in 1 .. Lanes |-> acc(l)]
           flat == FlattenSeq(seqs)
           indices == flat \o remainder
           t == DotAutoVectorized(len)
           whole == chunks * Lanes
           rest == len - whole
<1>1. t = Pairs(indices)
  BY Zenon DEF DotAutoVectorized
<1>2. /\ chunks \in Nat /\ whole <= len /\ whole \in Nat /\ rest \in Nat /\ len = whole + rest
      /\ Lanes \in Nat \ {0} /\ Lanes * chunks = whole
  BY Chunks
<1> HIDE DEF chunks
<1>3. ASSUME NEW l \in 1 .. Lanes, NEW c \in 1 .. chunks
      PROVE  (c - 1) * Lanes + l \in 1 .. whole /\ acc(l)[c] = (c - 1) * Lanes + l
  <2>1. c - 1 \in 0 .. chunks - 1 /\ Lanes \in Nat
    BY <1>2
  <2> DEFINE e == c - 1
  <2>2. e \in 0 .. chunks - 1 /\ acc(l)[c] = e * Lanes + l
    BY <2>1
  <2> HIDE DEF e
  <2>3. e * Lanes + l \in 1 .. chunks * Lanes
    BY <1>2, <2>1, <2>2, FlatElement
  <2> QED
    BY <2>2, <2>3 DEF e
<1>4. Rows(seqs, Lanes, chunks, Nat)
  <2>1. ASSUME NEW l \in 1 .. Lanes PROVE acc(l) \in Seq(Nat) /\ Len(acc(l)) = chunks
    <3> DEFINE a == acc(l)
    <3>1. a \in [1 .. chunks -> Nat]
      <4>1. \A c \in 1 .. chunks : (c - 1) * Lanes + l \in Nat
        BY <1>3
      <4> QED
        BY <4>1
    <3> HIDE DEF a
    <3>2. a \in Seq(Nat) /\ Len(a) = chunks
      BY <1>2, <3>1
    <3> QED
      BY <3>2 DEF a
  <2>2. \A l \in 1 .. Lanes : seqs[l] = acc(l)
    OBVIOUS
  <2> DEFINE U == Seq(Nat)
  <2>3. seqs \in [1 .. Lanes -> U]
    BY <2>1
  <2> HIDE DEF U, seqs, acc
  <2>4. seqs \in Seq(U) /\ Len(seqs) = Lanes
    BY <1>2, <2>3
  <2> QED
    BY <2>1, <2>2, <2>4 DEF Rows, U
<1>5. \A l \in 1 .. Lanes : seqs[l] = acc(l)
  OBVIOUS
<1> HIDE DEF seqs
<1>6. flat = Flat(seqs, chunks, Lanes)
  BY <1>2, <1>4, FlattenRows
<1>7. flat \in Seq(Nat) /\ Len(flat) = whole /\ DOMAIN flat = 1 .. whole
  <2>1. Lanes \in Nat /\ chunks \in Nat /\ whole = Lanes * chunks
    BY <1>2
  <2>2. Filled(seqs, Lanes, chunks, Nat)
    BY <1>4, <2>1, FlatIsFilled
  <2> QED
    BY <1>6, <2>1, <2>2 DEF Filled
<1> HIDE DEF flat
(* What the lanes add up are the indices of the whole chunks.              *)
<1>8. ASSUME NEW i \in 1 .. whole
      PROVE  flat[i] \in 1 .. whole
  <2>1. i \in 1 .. Lanes * chunks /\ Lanes \in Nat
    BY <1>2
  <2>2. PICK l \in 0 .. Lanes - 1, c \in 1 .. chunks :
          i = l * chunks + c /\ l = (i - 1) \div chunks /\ c = ((i - 1) % chunks) + 1
    BY <1>2, <2>1, FlatPlace
  <2>3. flat[l * chunks + c] = seqs[l + 1][c]
    BY <1>2, <1>6, <2>1, FlatElement
  <2>4. l + 1 \in 1 .. Lanes
    BY <1>2
  <2> HIDE DEF acc
  <2> QED
    BY <1>3, <1>5, <2>2, <2>3, <2>4
<1>9. ASSUME NEW j \in 1 .. whole
      PROVE  \E i \in 1 .. whole : flat[i] = j
  <2>1. Lanes \in Nat
    BY <1>2
  <2>0. j \in 1 .. chunks * Lanes
    OBVIOUS
  <2>2. PICK e \in 0 .. chunks - 1, l \in 1 .. Lanes :
          j = e * Lanes + l /\ e = (j - 1) \div Lanes /\ l = ((j - 1) % Lanes) + 1
    BY <1>2, <2>0, <2>1, FlatPlace
  <2> DEFINE c == e + 1
             m == l - 1
  <2>3. c \in 1 .. chunks /\ c - 1 = e /\ m \in 0 .. Lanes - 1 /\ m + 1 = l
    BY <1>2, <2>1
  <2> HIDE DEF c, m
  <2>4. acc(l)[c] = (c - 1) * Lanes + l
    BY <1>3, <2>3
  <2> HIDE DEF acc
  <2>5. m * chunks + c \in 1 .. Lanes * chunks /\ flat[m * chunks + c] = seqs[m + 1][c]
    BY <1>2, <1>6, <2>1, <2>3, FlatElement
  <2>6. flat[m * chunks + c] = j /\ m * chunks + c \in 1 .. whole
    BY <1>2, <1>5, <2>2, <2>3, <2>4, <2>5
  <2> QED
    BY <2>6
<1>10. /\ remainder \in Seq(Nat) /\ Len(remainder) = rest
       /\ \A i \in 1 .. rest : remainder[i] = whole + i
  <2>1. remainder = [i \in 1 .. rest |-> whole + i]
    OBVIOUS
  <2> HIDE DEF whole, rest, remainder
  <2> QED
    BY <1>2, <2>1
<1> HIDE DEF acc, remainder, whole, rest
<1>11. /\ indices \in Seq(Nat) /\ Len(indices) = len
       /\ \A i \in 1 .. len : indices[i] = IF i <= whole THEN flat[i] ELSE remainder[i - whole]
  <2>1. /\ indices \in Seq(Nat) /\ Len(indices) = Len(flat) + Len(remainder)
        /\ \A i \in 1 .. Len(flat) + Len(remainder) :
             indices[i] = IF i <= Len(flat) THEN flat[i] ELSE remainder[i - Len(flat)]
    BY <1>7, <1>10, ConcatProperties
  <2>2. Len(flat) = whole /\ Len(remainder) = rest /\ len = whole + rest
    BY <1>2, <1>7, <1>10
  <2> HIDE DEF indices
  <2> QED
    BY <2>1, <2>2, Zenon
<1> HIDE DEF indices
<1>12. DOMAIN t = 1 .. len /\ Len(t) = len /\ \A i \in 1 .. len : t[i] = <<indices[i], indices[i]>>
  <2>1. DOMAIN indices = 1 .. len
    BY <1>11, LenProperties
  <2>2. t = [i \in 1 .. len |-> <<indices[i], indices[i]>>]
    BY <1>1, <2>1 DEF Pairs
  <2> HIDE DEF t
  <2> QED
    BY <2>2
<1> HIDE DEF t
<1>13. ASSUME NEW i \in 1 .. len PROVE indices[i] \in 1 .. len
  <2>1. CASE i <= whole
    <3>1. i \in 1 .. whole /\ indices[i] = flat[i]
      BY <1>2, <1>11, <2>1
    <3> QED
      BY <1>2, <1>8, <3>1
  <2>2. CASE ~(i <= whole)
    <3>1. i - whole \in 1 .. rest /\ whole + (i - whole) = i
      BY <1>2, <2>2
    <3>2. indices[i] = remainder[i - whole]
      BY <1>11, <2>2, Zenon
    <3> QED
      BY <1>10, <3>1, <3>2
  <2> QED
    BY <2>1, <2>2
<1>14. ASSUME NEW j \in 1 .. len PROVE \E i \in 1 .. len : indices[i] = j
  <2>1. CASE j <= whole
    <3>1. PICK i \in 1 .. whole : flat[i] = j
      BY <1>2, <1>9, <2>1
    <3>2. i \in 1 .. len /\ i <= whole
      BY <1>2
    <3> QED
      BY <1>11, <3>1, <3>2
  <2>2. CASE ~(j <= whole)
    <3>1. j - whole \in 1 .. rest /\ whole + (j - whole) = j
      BY <1>2, <2>2
    <3> QED
      BY <1>10, <1>11, <2>2, <3>1
  <2> QED
    BY <2>1, <2>2
<1>15. ToSet(t) = {<<i, i>> : i \in 1 .. len}
  <2>1. ToSet(t) = {t[i] : i \in 1 .. len}
    BY <1>12 DEF ToSet
  <2>2. ASSUME NEW i \in 1 .. len PROVE t[i] \in {<<j, j>> : j \in 1 .. len}
    BY <1>12, <1>13
  <2>3. ASSUME NEW j \in 1 .. len PROVE \E i \in 1 .. len : t[i] = <<j, j>>
    <3>1. PICK i \in 1 .. len : indices[i] = j
      BY <1>14
    <3> QED
      BY <1>12, <3>1
  <2> QED
    BY <2>1, <2>2, <2>3, Zenon
<1> QED
  BY <1>12, <1>15 DEF Paired, t

(* Whichever kernel is chosen, each index is taken once.                   *)
LEMMA DotIsPaired ==
  ASSUME NEW kernel, NEW len \in Nat
  PROVE  Paired(len, Dot(kernel, len, len))
BY ScalarIsPaired, LanesArePaired DEF Dot

-----------------------------------------------------------------------------
(* Texts of configurations.                                                *)
TextLines ==
  [field : TextFields \cup {"no '='", "unknown"}, value : Nat, form : {"plain", "other", "junk"}]

Parsed == [TextFields -> Nat \cup {Unset}]

(* There are eight fields, and the order of encode names each.             *)
LEMMA FieldFacts ==
  /\ IsFiniteSet(TextFields) /\ Cardinality(TextFields) = 8
  /\ DOMAIN FieldOrder = 1 .. 8
  /\ \A i \in 1 .. 8 : FieldOrder[i] \in TextFields
  /\ \A f \in TextFields : \E i \in 1 .. 8 : FieldOrder[i] = f
  /\ TextFields = ConfigFields \cup {"schema_version"} /\ "schema_version" \notin ConfigFields
<1>1. DOMAIN FieldOrder = 1 .. 8
  BY DEF FieldOrder
<1>2. TextFields = {FieldOrder[i] : i \in 1 .. 8}
  BY <1>1 DEF TextFields, ToSet
<1>3. /\ FieldOrder[1] = "schema_version" /\ FieldOrder[2] = "page_tokens"
      /\ FieldOrder[3] = "head_dim" /\ FieldOrder[4] = "hot_cache_bytes"
      /\ FieldOrder[5] = "scale" /\ FieldOrder[6] = "admit_regenerated_pages"
      /\ FieldOrder[7] = "max_scratch_tokens" /\ FieldOrder[8] = "wipe_scratch_after_use"
  BY DEF FieldOrder
<1>4. \A i, j \in 1 .. 8 : FieldOrder[i] = FieldOrder[j] => i = j
  <2>1. \A i \in 1 .. 8 : i = 1 \/ i = 2 \/ i = 3 \/ i = 4 \/ i = 5 \/ i = 6 \/ i = 7 \/ i = 8
    OBVIOUS
  <2> QED
    BY <1>3, <2>1
<1>5. FieldOrder \in [1 .. 8 -> TextFields]
  <2>1. FieldOrder = [i \in 1 .. 8 |-> FieldOrder[i]]
    BY DEF FieldOrder
  <2> QED
    BY <1>2, <2>1
<1>6. FieldOrder \in Surjection(1 .. 8, TextFields) /\ FieldOrder \in Injection(1 .. 8, TextFields)
  BY <1>1, <1>2, <1>4, <1>5 DEF Surjection, Injection, IsInjective
<1>7. IsFiniteSet(1 .. 8) /\ Cardinality(1 .. 8) = 8
  <2>1. \A n \in Nat : IsFiniteSet(1 .. n) /\ Cardinality(1 .. n) = n
    <3> SUFFICES ASSUME NEW n \in Nat PROVE IsFiniteSet(1 .. n) /\ Cardinality(1 .. n) = n
      OBVIOUS
    <3> QED
      BY FS_Interval
  <2> QED
    BY <2>1
<1>8. IsFiniteSet(TextFields) /\ Cardinality(TextFields) = 8
  <2>1. /\ IsFiniteSet(TextFields)
        /\ Cardinality(TextFields) = Cardinality(1 .. 8) <=> FieldOrder \in Injection(1 .. 8, TextFields)
    BY <1>6, <1>7, FS_Surjection
  <2> QED
    BY <1>6, <1>7, <2>1
<1>9. TextFields = ConfigFields \cup {"schema_version"}
  <2>1. TextFields = {"schema_version", "page_tokens", "head_dim", "hot_cache_bytes", "scale",
                      "admit_regenerated_pages", "max_scratch_tokens", "wipe_scratch_after_use"}
    <3>1. 1 .. 8 = {1, 2, 3, 4, 5, 6, 7, 8}
      OBVIOUS
    <3> QED
      BY <1>2, <1>3, <3>1
  <2> QED
    BY <2>1 DEF ConfigFields, Sizes, Flags
<1>10. "schema_version" \notin ConfigFields
  BY DEF ConfigFields, Sizes, Flags
<1> QED
  BY <1>1, <1>2, <1>8, <1>9, <1>10

(* A refusal cannot be taken for a record of fields.                       *)
LEMMA RefusedIsNoRecord ==
  Refused \notin Parsed
<1>1. DOMAIN Refused = {"refused"}
  BY DEF Refused
<1>2. "schema_version" \in TextFields
  BY FieldFacts
<1>3. \A p \in Parsed : DOMAIN p = TextFields
  BY DEF Parsed
<1> QED
  BY <1>1, <1>2, <1>3

(* A line is taken only if its field was unset, and sets only that field.  *)
LEMMA ReadLineFacts ==
  ASSUME NEW p \in Parsed \cup {Refused}, NEW line \in TextLines
  PROVE  /\ ReadLine(p, line) \in Parsed \cup {Refused}
         /\ ReadLine(p, line) # Refused =>
              /\ p \in Parsed /\ ReadLine(p, line) \in Parsed
              /\ line.field \in TextFields /\ Parses(line) /\ p[line.field] = Unset
              /\ ReadLine(p, line) = [p EXCEPT ![line.field] = line.value]
         /\ p \in Parsed /\ line.field \in TextFields /\ Parses(line) /\ p[line.field] = Unset =>
              ReadLine(p, line) # Refused
<1>1. CASE p # Refused /\ Acceptable(p, line)
  <2>1. p \in Parsed /\ line.field \in TextFields /\ line.value \in Nat /\ Parses(line) /\ p[line.field] = Unset
    BY <1>1 DEF Acceptable, TextLines
  <2>2. ReadLine(p, line) = [p EXCEPT ![line.field] = line.value]
    BY <1>1, Zenon DEF ReadLine
  <2>3. [p EXCEPT ![line.field] = line.value] \in Parsed
    BY <2>1 DEF Parsed
  <2> QED
    BY <2>1, <2>2, <2>3, RefusedIsNoRecord
<1>2. CASE ~(p # Refused /\ Acceptable(p, line))
  <2>1. ReadLine(p, line) = Refused
    BY <1>2, Zenon DEF ReadLine
  <2>2. ~ (p \in Parsed /\ line.field \in TextFields /\ Parses(line) /\ p[line.field] = Unset)
    BY <1>2, RefusedIsNoRecord DEF Acceptable
  <2> QED
    BY <2>1, <2>2
<1> QED
  BY <1>1, <1>2

(* The lines of a text, one by one.                                        *)
LineByLine(g, text, n) ==
  /\ g \in [0 .. n -> Parsed \cup {Refused}] /\ g[0] = [f \in TextFields |-> Unset]
  /\ \A k \in 1 .. n : g[k] = ReadLine(g[k - 1], text[k])

(* The fold of the model is the loop over the lines.                       *)
LEMMA DecodedByLines ==
  ASSUME NEW text \in Seq(TextLines)
  PROVE  \E g : LineByLine(g, text, Len(text)) /\ Decoded(text) = Finished(g[Len(text)])
<1> DEFINE n == Len(text)
           D == DOMAIN text
           base == [f \in TextFields |-> Unset]
           Iterates(f) ==
             f = [s \in SUBSET D |-> IF s = {} THEN base
                                     ELSE LET x == Max(s) IN ReadLine(f[s \ {x}], text[x])]
           it == CHOOSE f : Iterates(f)
           V == Parsed \cup {Refused}
           step == [p \in (1 .. n) \X V |-> ReadLine(p[2], text[p[1]])]
<1>1. Decoded(text) = Finished(it[D])
  BY Zenon DEF Decoded, FoldLeft, MapThenFoldSet
<1>2. D = 1 .. n /\ n \in Nat /\ \A k \in 1 .. n : text[k] \in TextLines
  OBVIOUS
<1>3. base \in V
  BY DEF Parsed
<1>4. \A k \in 1 .. n, p \in V : ReadLine(p, text[k]) \in V
  BY <1>2, ReadLineFacts, Zenon
<1> HIDE DEF V, n, base
<1>5. step \in [(1 .. n) \X V -> V]
  BY <1>4
<1>6. \A k \in 1 .. n, p \in V : step[<<k, p>>] = ReadLine(p, text[k])
  OBVIOUS
<1> HIDE DEF step
<1>7. PICK f : LeftFold(f, n, V, base, step)
  BY <1>2, <1>3, <1>5, LeftExists
<1>8. Iterates(f)
  <2>1. \A s \in SUBSET D : f[s] = IF s = {} THEN base ELSE ReadLine(f[s \ {Max(s)}], text[Max(s)])
    <3> SUFFICES ASSUME NEW s \in SUBSET D, s # {}
                 PROVE  f[s] = ReadLine(f[s \ {Max(s)}], text[Max(s)])
      BY <1>2, <1>7 DEF LeftFold
    <3>1. Max(s) \in 1 .. n /\ f[s \ {Max(s)}] \in V
      BY <1>2, <1>7 DEF LeftFold
    <3> QED
      BY <1>2, <1>6, <1>7, <3>1, Zenon DEF LeftFold
  <2>2. f = [s \in SUBSET D |-> f[s]]
    BY <1>2, <1>7 DEF LeftFold
  <2> HIDE DEF D
  <2> QED
    BY <2>1, <2>2
<1>9. Iterates(it)
  <2> HIDE DEF Iterates
  <2> QED
    BY <1>8
<1> HIDE DEF it
<1>10. \A s \in SUBSET (1 .. n) : it[s] = IF s = {} THEN base ELSE ReadLine(it[s \ {Max(s)}], text[Max(s)])
  <2> HIDE DEF D
  <2> QED
    BY <1>2, <1>9
<1>11. Unfolds(it, n, V, base, step)
  <2> SUFFICES ASSUME NEW s \in SUBSET (1 .. n), s # {}, it[s \ {Max(s)}] \in V
               PROVE  it[s] = step[<<Max(s), it[s \ {Max(s)}]>>]
    BY <1>10 DEF Unfolds
  <2>1. Max(s) \in 1 .. n
    BY <1>7 DEF LeftFold
  <2> QED
    BY <1>6, <1>10, <2>1, Zenon
<1>12. PICK g : Lefts(g, n, V, base, step) /\ Reaches(g, n, it)
  BY <1>2, <1>3, <1>5, <1>11, LeftPrefixes
<1>13. g \in [0 .. n -> V] /\ g[0] = base /\ \A k \in 1 .. n : g[k] = step[<<k, g[k - 1]>>]
  BY <1>12 DEF Lefts
<1>14. \A k \in 1 .. n : g[k] = ReadLine(g[k - 1], text[k])
  <2> SUFFICES ASSUME NEW k \in 1 .. n PROVE g[k] = ReadLine(g[k - 1], text[k])
    OBVIOUS
  <2>1. k - 1 \in 0 .. n
    BY <1>2
  <2>2. g[k - 1] \in V
    BY <1>13, <2>1
  <2> QED
    BY <1>6, <1>13, <2>2, Zenon
<1>15. Decoded(text) = Finished(g[n])
  BY <1>1, <1>2, <1>12, Zenon DEF Reaches
<1> QED
  BY <1>13, <1>14, <1>15, Zenon DEF LineByLine, base, V, n

-----------------------------------------------------------------------------
(* What has been read after k lines is what they say, one line a field.    *)
SaidOnce(text, k, p) ==
  /\ \A i \in 1 .. k : /\ text[i].field \in TextFields /\ Parses(text[i])
                       /\ p[text[i].field] = text[i].value
  /\ \A f \in TextFields : p[f] # Unset => \E i \in 1 .. k : text[i].field = f
  /\ \A i, j \in 1 .. k : text[i].field = text[j].field => i = j

(* A line that is taken adds its field to those that were said once.       *)
LEMMA ReadOn ==
  ASSUME NEW text \in Seq(TextLines), NEW k \in Nat, k + 1 <= Len(text), NEW p \in Parsed \cup {Refused},
         p # Refused => SaidOnce(text, k, p),
         ReadLine(p, text[k + 1]) # Refused
  PROVE  SaidOnce(text, k + 1, ReadLine(p, text[k + 1]))
<1> DEFINE line == text[k + 1]
           q == ReadLine(p, line)
<1>1. line \in TextLines
  OBVIOUS
<1>2. /\ p \in Parsed /\ line.field \in TextFields /\ Parses(line) /\ p[line.field] = Unset
      /\ q = [p EXCEPT ![line.field] = line.value]
  BY <1>1, ReadLineFacts
<1>3. SaidOnce(text, k, p)
  BY <1>2, RefusedIsNoRecord
<1>4. line.value \in Nat /\ \A i \in 1 .. k : text[i] \in TextLines /\ text[i].value \in Nat
  <2>1. \A l \in TextLines : l.value \in Nat
    BY DEF TextLines
  <2>2. \A i \in 1 .. k : text[i] \in TextLines
    OBVIOUS
  <2> HIDE DEF line
  <2> QED
    BY <1>1, <2>1, <2>2
<1> HIDE DEF q
<1>5. q[line.field] = line.value /\ \A f \in TextFields : f # line.field => q[f] = p[f]
  <2> HIDE DEF line
  <2> QED
    BY <1>2 DEF Parsed
<1>6. \A i \in 1 .. k : text[i].field # line.field
  <2> SUFFICES ASSUME NEW i \in 1 .. k, text[i].field = line.field PROVE FALSE
    OBVIOUS
  <2>1. p[text[i].field] = text[i].value
    BY <1>3 DEF SaidOnce
  <2> QED
    BY <1>2, <1>4, <2>1, SchemaAssumption
<1>7. \A i \in 1 .. k + 1 : i \in 1 .. k \/ i = k + 1
  OBVIOUS
<1>8. ASSUME NEW i \in 1 .. k + 1
      PROVE  text[i].field \in TextFields /\ Parses(text[i]) /\ q[text[i].field] = text[i].value
  <2>1. CASE i \in 1 .. k
    <3>1. text[i].field \in TextFields /\ Parses(text[i]) /\ p[text[i].field] = text[i].value
      BY <1>3, <2>1 DEF SaidOnce
    <3> QED
      BY <1>5, <1>6, <2>1, <3>1
  <2>2. CASE i = k + 1
    BY <1>2, <1>5, <2>2
  <2> QED
    BY <1>7, <2>1, <2>2
<1>9. ASSUME NEW f \in TextFields, q[f] # Unset
      PROVE  \E i \in 1 .. k + 1 : text[i].field = f
  <2>1. CASE f = line.field
    <3>1. k + 1 \in 1 .. k + 1
      OBVIOUS
    <3> QED
      BY <2>1, <3>1
  <2>2. CASE f # line.field
    <3>1. PICK i \in 1 .. k : text[i].field = f
      BY <1>3, <1>5, <1>9, <2>2 DEF SaidOnce
    <3>2. i \in 1 .. k + 1
      OBVIOUS
    <3> QED
      BY <3>1, <3>2
  <2> QED
    BY <2>1, <2>2
<1>10. ASSUME NEW i \in 1 .. k + 1, NEW j \in 1 .. k + 1, text[i].field = text[j].field
       PROVE  i = j
  <2>1. CASE i \in 1 .. k /\ j \in 1 .. k
    BY <1>3, <1>10, <2>1 DEF SaidOnce
  <2>2. CASE i \in 1 .. k /\ j = k + 1
    BY <1>6, <1>10, <2>2
  <2>3. CASE i = k + 1 /\ j \in 1 .. k
    BY <1>6, <1>10, <2>3
  <2> QED
    BY <1>7, <2>1, <2>2, <2>3
<1> QED
  BY <1>8, <1>9, <1>10, Zenon DEF SaidOnce, q

(* So until it refuses, the loop has read every field at most once.        *)
LEMMA ReadToEnd ==
  ASSUME NEW text \in Seq(TextLines), NEW g, LineByLine(g, text, Len(text))
  PROVE  \A k \in 0 .. Len(text) : /\ g[k] \in Parsed \cup {Refused}
                                   /\ g[k] # Refused => SaidOnce(text, k, g[k])
<1> DEFINE n == Len(text)
           S == {k \in Nat : k <= n /\ g[k] # Refused => SaidOnce(text, k, g[k])}
<1>1. /\ n \in Nat /\ \A k \in 0 .. n : g[k] \in Parsed \cup {Refused}
      /\ g[0] = [f \in TextFields |-> Unset]
      /\ \A k \in 1 .. n : g[k] = ReadLine(g[k - 1], text[k])
  <2>1. n \in Nat
    OBVIOUS
  <2>2. /\ g \in [0 .. n -> Parsed \cup {Refused}] /\ g[0] = [f \in TextFields |-> Unset]
        /\ \A k \in 1 .. n : g[k] = ReadLine(g[k - 1], text[k])
    BY Zenon DEF LineByLine
  <2> HIDE DEF n
  <2> QED
    BY <2>1, <2>2
<1>2. 0 \in S
  <2>1. \A i \in 1 .. 0 : FALSE
    OBVIOUS
  <2>2. SaidOnce(text, 0, g[0])
    BY <1>1, <2>1 DEF SaidOnce
  <2> QED
    BY <2>2
<1>3. ASSUME NEW k \in Nat, k \in S PROVE k + 1 \in S
  <2> SUFFICES ASSUME k + 1 <= n, g[k + 1] # Refused PROVE SaidOnce(text, k + 1, g[k + 1])
    OBVIOUS
  <2> DEFINE p == g[k]
  <2>1. p \in Parsed \cup {Refused} /\ (p # Refused => SaidOnce(text, k, p))
    BY <1>1, <1>3
  <2>2. g[k + 1] = ReadLine(p, text[k + 1])
    <3>1. k + 1 \in 1 .. n /\ (k + 1) - 1 = k
      BY <1>1
    <3> QED
      BY <1>1, <3>1
  <2> HIDE DEF p
  <2>3. ReadLine(p, text[k + 1]) # Refused
    BY <2>2
  <2>4. SaidOnce(text, k + 1, ReadLine(p, text[k + 1]))
    BY <2>1, <2>3, ReadOn
  <2> QED
    BY <2>2, <2>4
<1> HIDE DEF S
<1>4. \A k \in Nat : k \in S
  BY <1>2, <1>3, NatSetInduction
<1> QED
  BY <1>1, <1>4 DEF S

(* An accepted text says every field once.                                 *)
SaysAll(text, c) ==
  /\ Len(text) = 8
  /\ \A f \in TextFields :
       \E line \in ToSet(text) : line.field = f /\ line.value = Versioned(c)[f]
  /\ Valid(c)

(* A text that is accepted has eight fields set, each by one line, and so  *)
(* eight lines: more would be a field said twice.                          *)
LEMMA AcceptedSaysAll ==
  ASSUME NEW text \in Seq(TextLines), Decoded(text) # Refused
  PROVE  SaysAll(text, Decoded(text))
<1> DEFINE n == Len(text)
<1>1. PICK g : LineByLine(g, text, n) /\ Decoded(text) = Finished(g[n])
  BY DecodedByLines
<1> DEFINE p == g[n]
           c == Loaded(p)
<1>2. n \in Nat /\ n \in 0 .. n
  OBVIOUS
<1>3. p \in Parsed \cup {Refused} /\ (p # Refused => SaidOnce(text, n, p))
  BY <1>1, <1>2, ReadToEnd
<1> HIDE DEF p, c, n
<1>4. /\ p # Refused /\ Complete(p) /\ p["schema_version"] = CONFIG_SCHEMA_VERSION
      /\ Valid(c) /\ Decoded(text) = c
  <2>1. Finished(p) = IF /\ p # Refused
                         /\ Complete(p) /\ p["schema_version"] = CONFIG_SCHEMA_VERSION
                         /\ Valid(c)
                        THEN c ELSE Refused
    BY Zenon DEF Finished, c
  <2>2. Finished(p) # Refused /\ Decoded(text) = Finished(p)
    BY <1>1 DEF p
  <2> QED
    BY <2>1, <2>2, Zenon
<1>5. p \in Parsed /\ SaidOnce(text, n, p) /\ \A f \in TextFields : p[f] # Unset
  BY <1>3, <1>4 DEF Complete
<1> DEFINE field == [i \in 1 .. n |-> text[i].field]
<1>6. field \in Injection(1 .. n, TextFields) /\ field \in Surjection(1 .. n, TextFields)
  <2>1. field \in [1 .. n -> TextFields] /\ \A i \in 1 .. n : field[i] = text[i].field
    BY <1>5 DEF SaidOnce
  <2>2. \A i, j \in 1 .. n : field[i] = field[j] => i = j
    BY <1>5, <2>1 DEF SaidOnce
  <2>3. \A f \in TextFields : \E i \in 1 .. n : field[i] = f
    BY <1>5, <2>1 DEF SaidOnce
  <2> HIDE DEF field
  <2> QED
    BY <2>1, <2>2, <2>3 DEF Surjection, Injection, IsInjective
<1>7. n = 8
  <2> HIDE DEF field
  <2>1. IsFiniteSet(1 .. n) /\ Cardinality(1 .. n) = n
    BY <1>2, FS_Interval
  <2>2. Cardinality(TextFields) = Cardinality(1 .. n)
    BY <1>6, <2>1, FS_Surjection
  <2> QED
    BY <2>1, <2>2, FieldFacts
<1>8. ASSUME NEW f \in TextFields
      PROVE  \E line \in ToSet(text) : line.field = f /\ line.value = Versioned(c)[f]
  <2>1. PICK i \in 1 .. n : text[i].field = f
    BY <1>5 DEF SaidOnce
  <2>2. p[f] = text[i].value
    BY <1>5, <2>1 DEF SaidOnce
  <2>3. text[i] \in ToSet(text)
    BY DEF ToSet, n
  <2>4. Versioned(c)[f] = p[f]
    <3>1. Versioned(c)[f] = IF f = "schema_version" THEN CONFIG_SCHEMA_VERSION ELSE c[f]
      BY DEF Versioned
    <3>2. f # "schema_version" => f \in ConfigFields
      BY FieldFacts
    <3>3. \A h \in ConfigFields : c[h] = p[h]
      BY DEF c, Loaded
    <3> QED
      BY <1>4, <3>1, <3>2, <3>3
  <2> QED
    BY <2>1, <2>2, <2>3, <2>4
<1> QED
  BY <1>4, <1>7, <1>8 DEF SaysAll, n

-----------------------------------------------------------------------------
(* What encode wrote is read, in whatever order.                           *)
Config(c) ==
  /\ c \in [ConfigFields -> Nat] /\ Valid(c)
  /\ \A f \in Flags : c[f] \in {0, 1}
  /\ \A f \in Sizes : c[f] <= UsizeMax

(* encode writes one line for each field, and each of them parses.         *)
LEMMA EncodedLines ==
  ASSUME NEW c, Config(c)
  PROVE  /\ Encode(c) \in Seq(TextLines)
         /\ ToSet(Encode(c)) = {Line(f, Versioned(c)[f], "plain") : f \in TextFields}
         /\ \A f \in TextFields : Versioned(c)[f] \in Nat /\ Parses(Line(f, Versioned(c)[f], "plain"))
<1>1. /\ DOMAIN Encode(c) = 1 .. 8
      /\ \A i \in 1 .. 8 : Encode(c)[i] = Line(FieldOrder[i], Versioned(c)[FieldOrder[i]], "plain")
      /\ Encode(c) = [i \in 1 .. 8 |-> Encode(c)[i]]
  BY FieldFacts DEF Encode
<1>2. \A f \in TextFields : Versioned(c)[f] = IF f = "schema_version" THEN 1 ELSE c[f]
  BY DEF Versioned, CONFIG_SCHEMA_VERSION
<1>3. \A f \in TextFields : Versioned(c)[f] \in Nat
  <2>1. \A f \in ConfigFields : c[f] \in Nat
    BY DEF Config
  <2> QED
    BY <1>2, <2>1, FieldFacts
<1>4. ASSUME NEW f \in TextFields
      PROVE  Line(f, Versioned(c)[f], "plain") \in TextLines
  BY <1>3 DEF Line, TextLines
<1>5. Encode(c) \in Seq(TextLines)
  <2> DEFINE e == Encode(c)
  <2>1. e \in [1 .. 8 -> TextLines]
    BY <1>1, <1>4, FieldFacts
  <2> HIDE DEF e
  <2>2. \A n \in Nat : \A f : f \in [1 .. n -> TextLines] => f \in Seq(TextLines)
    OBVIOUS
  <2> QED
    BY <2>1, <2>2 DEF e
<1>6. ToSet(Encode(c)) = {Line(f, Versioned(c)[f], "plain") : f \in TextFields}
  <2>1. ToSet(Encode(c)) = {Encode(c)[i] : i \in 1 .. 8}
    BY <1>1 DEF ToSet
  <2>2. ASSUME NEW i \in 1 .. 8
        PROVE  Encode(c)[i] \in {Line(f, Versioned(c)[f], "plain") : f \in TextFields}
    BY <1>1, FieldFacts
  <2>3. ASSUME NEW f \in TextFields
        PROVE  \E i \in 1 .. 8 : Encode(c)[i] = Line(f, Versioned(c)[f], "plain")
    BY <1>1, FieldFacts
  <2> QED
    BY <2>1, <2>2, <2>3, Zenon
<1>7. ASSUME NEW f \in TextFields
      PROVE  Parses(Line(f, Versioned(c)[f], "plain"))
  <2> DEFINE line == Line(f, Versioned(c)[f], "plain")
  <2>1. line.field = f /\ line.value = Versioned(c)[f] /\ line.form = "plain"
    BY DEF Line
  <2> HIDE DEF line
  <2>2. f \in Flags => line.value \in {0, 1}
    BY <1>2, <2>1, FieldFacts DEF Config, ConfigFields
  <2>3. f \in Sizes => line.value <= UsizeMax
    BY <1>2, <2>1, FieldFacts DEF Config, ConfigFields
  <2>4. f = "schema_version" => line.value <= VersionMax
    BY <1>2, <2>1, SchemaAssumption
  <2>5. f = "scale" => line.value \in 1 .. MaxScale
    BY <1>2, <2>1 DEF Config, Valid
  <2> QED
    BY <2>1, <2>2, <2>3, <2>4, <2>5 DEF Parses, line
<1> QED
  BY <1>3, <1>5, <1>6, <1>7

(* Eight lines that are those of encode, in any order, are all taken.      *)
LEMMA WrittenIsRead ==
  ASSUME NEW c, Config(c), NEW text \in Seq(TextLines), Len(text) = 8,
         ToSet(text) = ToSet(Encode(c))
  PROVE  Decoded(text) = c
<1>1. PICK g : LineByLine(g, text, Len(text)) /\ Decoded(text) = Finished(g[Len(text)])
  BY DecodedByLines
<1>2. /\ \A k \in 0 .. 8 : g[k] \in Parsed \cup {Refused} /\ (g[k] # Refused => SaidOnce(text, k, g[k]))
      /\ g[0] = [f \in TextFields |-> Unset]
      /\ \A k \in 1 .. 8 : g[k] = ReadLine(g[k - 1], text[k])
  <2>1. \A k \in 0 .. Len(text) : g[k] \in Parsed \cup {Refused} /\ (g[k] # Refused => SaidOnce(text, k, g[k]))
    BY <1>1, ReadToEnd
  <2>2. /\ g[0] = [f \in TextFields |-> Unset]
        /\ \A k \in 1 .. Len(text) : g[k] = ReadLine(g[k - 1], text[k])
    BY <1>1 DEF LineByLine
  <2> QED
    BY <2>1, <2>2
<1> DEFINE field == [i \in 1 .. 8 |-> text[i].field]
           v == Versioned(c)
<1>3. ToSet(text) = {Line(f, v[f], "plain") : f \in TextFields}
      /\ \A f \in TextFields : v[f] \in Nat /\ Parses(Line(f, v[f], "plain"))
  BY EncodedLines
<1> HIDE DEF v
<1>4. ToSet(text) = {text[i] : i \in 1 .. 8} /\ \A i \in 1 .. 8 : text[i] \in TextLines
  <2>1. DOMAIN text = 1 .. 8
    BY LenProperties
  <2>2. \A i \in 1 .. Len(text) : text[i] \in TextLines
    BY ElementOfSeq
  <2> QED
    BY <2>1, <2>2 DEF ToSet
<1>5. \A f, m : Line(f, m, "plain").field = f /\ Line(f, m, "plain").value = m
  BY DEF Line
<1>6. ASSUME NEW i \in 1 .. 8
      PROVE  \E f \in TextFields : text[i] = Line(f, v[f], "plain") /\ text[i].field = f
  <2>1. text[i] \in {Line(f, v[f], "plain") : f \in TextFields}
    BY <1>3, <1>4
  <2> QED
    BY <1>5, <2>1
<1>7. \A f \in TextFields : \E i \in 1 .. 8 : text[i] = Line(f, v[f], "plain") /\ text[i].field = f
  <2> SUFFICES ASSUME NEW f \in TextFields
               PROVE  \E i \in 1 .. 8 : text[i] = Line(f, v[f], "plain") /\ text[i].field = f
    OBVIOUS
  <2>1. Line(f, v[f], "plain") \in {text[i] : i \in 1 .. 8}
    BY <1>3, <1>4
  <2> QED
    BY <1>5, <2>1
<1>8. \A i, j \in 1 .. 8 : text[i].field = text[j].field => i = j
  <2>1. field \in [1 .. 8 -> TextFields] /\ \A i \in 1 .. 8 : field[i] = text[i].field
    BY <1>6
  <2> HIDE DEF field
  <2>2. \A f \in TextFields : \E i \in 1 .. 8 : field[i] = f
    BY <1>7, <2>1
  <2>3. field \in Surjection(1 .. 8, TextFields)
    BY <2>1, <2>2 DEF Surjection
  <2>4. IsFiniteSet(1 .. 8) /\ Cardinality(1 .. 8) = 8
    <3>1. \A n \in Nat : IsFiniteSet(1 .. n) /\ Cardinality(1 .. n) = n
      <4> SUFFICES ASSUME NEW n \in Nat PROVE IsFiniteSet(1 .. n) /\ Cardinality(1 .. n) = n
        OBVIOUS
      <4> QED
        BY FS_Interval
    <3> QED
      BY <3>1
  <2>5. field \in Injection(1 .. 8, TextFields)
    BY <2>3, <2>4, FieldFacts, FS_Surjection
  <2> QED
    BY <2>1, <2>5 DEF Injection, IsInjective
<1> HIDE DEF field
<1> DEFINE S == {k \in Nat : k <= 8 => g[k] # Refused}
<1>9. 0 \in S
  <2>1. g[0] \in Parsed
    BY <1>2 DEF Parsed
  <2> QED
    BY <2>1, RefusedIsNoRecord
<1>10. ASSUME NEW k \in Nat, k \in S PROVE k + 1 \in S
  <2> SUFFICES ASSUME k + 1 <= 8 PROVE g[k + 1] # Refused
    OBVIOUS
  <2> DEFINE p == g[k]
             line == text[k + 1]
  <2>1. k + 1 \in 1 .. 8 /\ k \in 0 .. 8 /\ (k + 1) - 1 = k
    OBVIOUS
  <2>2. p \in Parsed /\ SaidOnce(text, k, p) /\ g[k + 1] = ReadLine(p, line)
    BY <1>2, <1>10, <2>1
  <2>3. line \in TextLines /\ line.field \in TextFields /\ Parses(line)
    BY <1>3, <1>4, <1>6, <2>1
  <2>4. p[line.field] = Unset
    <3> SUFFICES ASSUME p[line.field] # Unset PROVE FALSE
      OBVIOUS
    <3>1. PICK i \in 1 .. k : text[i].field = line.field
      BY <2>2, <2>3 DEF SaidOnce
    <3>2. i \in 1 .. 8 /\ i # k + 1
      OBVIOUS
    <3> QED
      BY <1>8, <2>1, <3>1, <3>2
  <2> HIDE DEF p, line
  <2> QED
    BY <2>2, <2>3, <2>4, ReadLineFacts
<1> HIDE DEF S
<1>11. \A k \in Nat : k \in S
  BY <1>9, <1>10, NatSetInduction
<1> DEFINE p == g[8]
<1>12. p \in Parsed /\ p # Refused /\ SaidOnce(text, 8, p) /\ Decoded(text) = Finished(p)
  <2>1. p # Refused
    BY <1>11 DEF S
  <2> QED
    BY <1>1, <1>2, <2>1
<1> HIDE DEF p
<1>13. \A f \in TextFields : p[f] = v[f] /\ p[f] # Unset
  <2> SUFFICES ASSUME NEW f \in TextFields PROVE p[f] = v[f] /\ p[f] # Unset
    OBVIOUS
  <2>1. PICK i \in 1 .. 8 : text[i] = Line(f, v[f], "plain") /\ text[i].field = f
    BY <1>7
  <2>2. p[f] = text[i].value
    BY <1>12, <2>1 DEF SaidOnce
  <2> QED
    BY <1>3, <1>5, <2>1, <2>2, SchemaAssumption
<1>14. Loaded(p) = c
  <2>1. \A f \in ConfigFields : p[f] = c[f]
    <3>1. \A f \in ConfigFields : f \in TextFields /\ f # "schema_version"
      BY FieldFacts
    <3>2. \A f \in ConfigFields : v[f] = c[f]
      BY <3>1 DEF v, Versioned
    <3> QED
      BY <1>13, <3>1, <3>2
  <2>2. Loaded(p) = [f \in ConfigFields |-> c[f]]
    BY <2>1 DEF Loaded
  <2> QED
    BY <2>2 DEF Config
<1>15. p["schema_version"] = CONFIG_SCHEMA_VERSION
  <2>1. "schema_version" \in TextFields
    BY FieldFacts
  <2> QED
    BY <1>13, <2>1 DEF v, Versioned
<1>16. Complete(p) /\ Valid(Loaded(p))
  BY <1>13, <1>14 DEF Complete, Config
<1> QED
  BY <1>12, <1>14, <1>15, <1>16, Zenon DEF Finished

-----------------------------------------------------------------------------
(* What build gives, and what an edit leaves.                              *)
LEMMA BuiltIsConfig ==
  ASSUME NEW b, IsBuilder(b), Valid(Built(b))
  PROVE  Config(Built(b))
<1> DEFINE scale == IF b.scale = Unset THEN DefaultScale(b.head_dim) ELSE b.scale
           most == IF b.max_scratch_tokens = Unset THEN b.page_tokens ELSE b.max_scratch_tokens
           c == Built(b)
<1>1. /\ b \in [ConfigFields -> Nat \cup {Unset}]
      /\ "scale" \in ConfigFields /\ "max_scratch_tokens" \in Sizes /\ "max_scratch_tokens" \in ConfigFields
      /\ "page_tokens" \in Sizes /\ "head_dim" \in ConfigFields /\ "page_tokens" \in ConfigFields
      /\ b.head_dim \in Nat /\ b.page_tokens \in Nat /\ b.page_tokens <= UsizeMax
      /\ \A f \in ConfigFields : f # "scale" /\ f # "max_scratch_tokens" => b[f] \in Nat
      /\ \A f \in Sizes : b[f] # Unset => b[f] <= UsizeMax
      /\ \A f \in Flags : b[f] \in {0, 1}
  <2>1. /\ "scale" \in ConfigFields /\ "max_scratch_tokens" \in Sizes
        /\ "page_tokens" \in Sizes /\ "head_dim" \in Sizes /\ Sizes \subseteq ConfigFields
    BY DEF ConfigFields, Sizes
  <2>2. /\ b \in [ConfigFields -> Nat \cup {Unset}]
        /\ \A f \in ConfigFields \ {"scale", "max_scratch_tokens"} : b[f] # Unset
        /\ \A f \in Sizes : b[f] # Unset => b[f] <= UsizeMax
        /\ \A f \in Flags : b[f] \in {0, 1}
    BY Zenon DEF IsBuilder
  <2> QED
    BY <2>1, <2>2
<1>2. c = [b EXCEPT !.scale = scale, !.max_scratch_tokens = most]
  BY Zenon DEF Built
<1>3. scale \in Nat /\ most \in Nat /\ most <= UsizeMax
  <2>1. DefaultScale(b.head_dim) \in Nat
    <3> DEFINE hd == b.head_dim
               q == (MaxScale - 1) \div hd
    <3>1. hd \in Nat /\ MaxScale - 1 \in Nat
      BY <1>1, SchemaAssumption
    <3>2. hd # 0 => q \in Nat
      BY <3>1, Brackets
    <3>3. DefaultScale(hd) = IF hd = 0 THEN MaxScale + 1 ELSE 1 + q
      BY DEF DefaultScale
    <3> HIDE DEF hd, q
    <3>4. DefaultScale(hd) \in Nat
      BY <3>1, <3>2, <3>3, SchemaAssumption
    <3> QED
      BY <3>4 DEF hd
  <2> QED
    BY <1>1, <2>1
<1> HIDE DEF scale, most, c
<1>4. /\ DOMAIN c = ConfigFields /\ c = [f \in ConfigFields |-> c[f]]
      /\ c["scale"] = scale /\ c["max_scratch_tokens"] = most
      /\ \A f \in ConfigFields : f # "scale" /\ f # "max_scratch_tokens" => c[f] = b[f]
  <2> DEFINE d == [b EXCEPT !.scale = scale]
  <2>1. /\ DOMAIN d = ConfigFields /\ d["scale"] = scale
        /\ \A f \in ConfigFields : f # "scale" => d[f] = b[f]
    BY <1>1
  <2> HIDE DEF d
  <2>2. c = [d EXCEPT !.max_scratch_tokens = most]
    BY <1>2 DEF d
  <2> QED
    BY <1>1, <2>1, <2>2
<1>5. c \in [ConfigFields -> Nat]
  <2>1. \A f \in ConfigFields : c[f] \in Nat
    BY <1>1, <1>3, <1>4
  <2> QED
    BY <1>4, <2>1
<1>6. \A f \in Flags : c[f] \in {0, 1}
  <2>1. \A f \in Flags : f \in ConfigFields /\ f # "scale" /\ f # "max_scratch_tokens"
    BY DEF Flags, ConfigFields
  <2> QED
    BY <1>1, <1>4, <2>1
<1>7. \A f \in Sizes : c[f] <= UsizeMax
  <2>1. \A f \in Sizes : f \in ConfigFields /\ f # "scale"
    BY DEF Sizes, ConfigFields
  <2>2. \A f \in Sizes : f # "max_scratch_tokens" => b[f] # Unset
    BY <1>1, <2>1, SchemaAssumption
  <2> QED
    BY <1>1, <1>3, <1>4, <2>1, <2>2
<1> QED
  BY <1>5, <1>6, <1>7, Zenon DEF Config, c

(* An edit of a text is a text.                                            *)
LEMMA EditsAreTexts ==
  ASSUME NEW text \in Seq(TextLines)
  PROVE  /\ \A i \in 1 .. Len(text) : RemoveAt(text, i) \in Seq(TextLines)
         /\ \A i \in 1 .. Len(text) + 1 : \A line \in TextLines :
              InsertAt(text, i, line) \in Seq(TextLines)
<1>1. ASSUME NEW m \in Int, NEW n \in Int, 1 <= m, n <= Len(text)
      PROVE  SubSeq(text, m, n) \in Seq(TextLines)
  <2>1. \A i \in m .. n : text[i] \in TextLines
    BY <1>1
  <2> QED
    BY <2>1, SubSeqProperties
<1>2. ASSUME NEW i \in 1 .. Len(text) PROVE RemoveAt(text, i) \in Seq(TextLines)
  <2>1. SubSeq(text, 1, i - 1) \in Seq(TextLines) /\ SubSeq(text, i + 1, Len(text)) \in Seq(TextLines)
    BY <1>1
  <2> QED
    BY <2>1 DEF RemoveAt
<1>3. ASSUME NEW i \in 1 .. Len(text) + 1, NEW line \in TextLines
      PROVE  InsertAt(text, i, line) \in Seq(TextLines)
  <2>1. SubSeq(text, 1, i - 1) \in Seq(TextLines) /\ SubSeq(text, i, Len(text)) \in Seq(TextLines)
    BY <1>1
  <2>2. <<line>> \in Seq(TextLines)
    OBVIOUS
  <2> QED
    BY <2>1, <2>2 DEF InsertAt
<1> QED
  BY <1>2, <1>3

(* The lines of the model are lines.                                       *)
LEMMA LinesAreTextLines ==
  Lines \subseteq TextLines
<1>1. \A f \in TextFields, n \in Nat, form \in {"plain", "other", "junk"} : Line(f, n, form) \in TextLines
  BY DEF Line, TextLines
<1>2. NoEquals \in TextLines /\ UnknownField \in TextLines
  BY DEF NoEquals, UnknownField, Line, TextLines
<1>3. EditValues \subseteq Nat
  BY SchemaAssumption
<1> QED
  BY <1>1, <1>2, <1>3 DEF Lines

-----------------------------------------------------------------------------
(* Rotations.                                                              *)
Pairs2 == Int \X Int

(* The parts of a pair are numbers.                                        *)
LEMMA PartsAreNumbers ==
  ASSUME NEW z, z[1] \in Int, z[2] \in Int
  PROVE  Real(z) \in Int /\ Imaginary(z) \in Int /\ Radius \in Nat \ {0}
<1>1. Cosine \in Int /\ Sine \in Int /\ Radius \in Nat \ {0}
  BY PositionAssumption
<1>2. \A c, s, a, b \in Int : c * a - s * b \in Int /\ s * a + c * b \in Int
  BY SMT
<1> QED
  BY <1>1, <1>2 DEF Real, Imaginary

(* One turn of a pair is a pair.                                           *)
LEMMA TurnedOncePair ==
  ASSUME NEW z \in Pairs2
  PROVE  TurnedOnce(z) \in Pairs2
<1>1. z[1] \in Int /\ z[2] \in Int
  BY DEF Pairs2
<1>2. Real(z) \in Int /\ Imaginary(z) \in Int /\ Radius \in Nat \ {0}
  BY <1>1, PartsAreNumbers
<1>3. \A n \in Int, h \in Nat \ {0} : n \div h \in Int
  BY SMT
<1>4. Real(z) \div Radius \in Int /\ Imaginary(z) \div Radius \in Int
  BY <1>2, <1>3
<1> QED
  BY <1>4 DEF TurnedOnce, Pairs2

(* A quotient without a rest.                                              *)
LEMMA Quotient ==
  ASSUME NEW n \in Int, NEW h \in Nat \ {0}, n % h = 0
  PROVE  n \div h \in Int /\ h * (n \div h) = n
BY SMT

(* The turns of a pair, one by one.                                        *)
Orbit(g, x, n) ==
  /\ g \in [0 .. n -> Pairs2] /\ g[0] = x
  /\ \A k \in 1 .. n : g[k] = TurnedOnce(g[k - 1])

(* The fold of the model takes them.                                       *)
LEMMA TurnedByOrbit ==
  ASSUME NEW x \in Pairs2, NEW n \in Nat
  PROVE  \E g : Orbit(g, x, n) /\ Turned(x, n) = g[n]
<1> DEFINE seq == [i \in 1 .. n |-> i]
           D == DOMAIN seq
           Iterates(f) ==
             f = [s \in SUBSET D |-> IF s = {} THEN x
                                     ELSE LET i == Max(s) IN TurnedOnce(f[s \ {i}])]
           it == CHOOSE f : Iterates(f)
           step == [p \in (1 .. n) \X Pairs2 |-> TurnedOnce(p[2])]
<1>1. Turned(x, n) = it[D]
  BY Zenon DEF Turned, FoldLeft, MapThenFoldSet
<1>2. D = 1 .. n
  OBVIOUS
<1>4. step \in [(1 .. n) \X Pairs2 -> Pairs2]
  BY TurnedOncePair, Zenon
<1>5. \A k \in 1 .. n, z \in Pairs2 : step[<<k, z>>] = TurnedOnce(z)
  OBVIOUS
<1> HIDE DEF seq, step
<1>6. PICK f : LeftFold(f, n, Pairs2, x, step)
  BY <1>4, LeftExists
<1>7. Iterates(f)
  <2>1. \A s \in SUBSET D : f[s] = IF s = {} THEN x ELSE TurnedOnce(f[s \ {Max(s)}])
    <3> SUFFICES ASSUME NEW s \in SUBSET D, s # {}
                 PROVE  f[s] = TurnedOnce(f[s \ {Max(s)}])
      BY <1>2, <1>6 DEF LeftFold
    <3>1. Max(s) \in 1 .. n /\ f[s \ {Max(s)}] \in Pairs2
      BY <1>2, <1>6 DEF LeftFold
    <3> QED
      BY <1>2, <1>5, <1>6, <3>1, Zenon DEF LeftFold
  <2>2. f = [s \in SUBSET D |-> f[s]]
    BY <1>2, <1>6 DEF LeftFold
  <2> QED
    BY <2>1, <2>2
<1>8. Iterates(it)
  <2> HIDE DEF Iterates
  <2> QED
    BY <1>7
<1> HIDE DEF it
<1>9. \A s \in SUBSET (1 .. n) : it[s] = IF s = {} THEN x ELSE TurnedOnce(it[s \ {Max(s)}])
  BY <1>2, <1>8
<1>10. Unfolds(it, n, Pairs2, x, step)
  <2> SUFFICES ASSUME NEW s \in SUBSET (1 .. n), s # {}, it[s \ {Max(s)}] \in Pairs2
               PROVE  it[s] = step[<<Max(s), it[s \ {Max(s)}]>>]
    BY <1>9 DEF Unfolds
  <2>1. Max(s) \in 1 .. n
    BY <1>6 DEF LeftFold
  <2> QED
    BY <1>5, <1>9, <2>1, Zenon
<1>12. PICK g : Lefts(g, n, Pairs2, x, step) /\ Reaches(g, n, it)
  BY <1>4, <1>10, LeftPrefixes
<1>13. g \in [0 .. n -> Pairs2] /\ g[0] = x /\ \A k \in 1 .. n : g[k] = step[<<k, g[k - 1]>>]
  BY <1>12 DEF Lefts
<1>14. \A k \in 1 .. n : g[k] = TurnedOnce(g[k - 1])
  <2> SUFFICES ASSUME NEW k \in 1 .. n PROVE g[k] = TurnedOnce(g[k - 1])
    OBVIOUS
  <2>1. k - 1 \in 0 .. n
    OBVIOUS
  <2>2. g[k - 1] \in Pairs2
    BY <1>13, <2>1
  <2> QED
    BY <1>5, <1>13, <2>2, Zenon
<1> QED
  BY <1>1, <1>2, <1>12, <1>13, <1>14, Zenon DEF Orbit, Reaches

(* There is one orbit.                                                     *)
LEMMA OneOrbit ==
  ASSUME NEW x, NEW n \in Nat, NEW m \in Nat, n <= m, NEW g, NEW h, Orbit(g, x, n), Orbit(h, x, m)
  PROVE  g[n] = h[n]
<1> DEFINE S == {k \in Nat : k <= n => g[k] = h[k]}
<1>1. 0 \in S
  BY DEF Orbit
<1>2. ASSUME NEW k \in Nat, k \in S PROVE k + 1 \in S
  <2> SUFFICES ASSUME k + 1 <= n PROVE g[k + 1] = h[k + 1]
    OBVIOUS
  <2>1. k + 1 \in 1 .. n /\ k + 1 \in 1 .. m /\ (k + 1) - 1 = k /\ g[k] = h[k]
    BY <1>2
  <2>2. g[k + 1] = TurnedOnce(g[(k + 1) - 1]) /\ h[k + 1] = TurnedOnce(h[(k + 1) - 1])
    BY <2>1 DEF Orbit
  <2> QED
    BY <2>1, <2>2
<1> HIDE DEF S
<1>3. Nat \subseteq S
  BY <1>1, <1>2, NatSetInduction
<1> QED
  BY <1>3 DEF S

(* So one more turn is one more turn.                                      *)
Follows(x, n) ==
  /\ Turned(x, n) \in Pairs2
  /\ Turned(x, n + 1) = TurnedOnce(Turned(x, n))

(* No turn leaves the pair.                                                *)
LEMMA TurnedNone ==
  ASSUME NEW x \in Pairs2
  PROVE  Turned(x, 0) = x
BY TurnedByOrbit DEF Orbit

(* What the next turn makes of it.                                         *)
LEMMA TurnedFollows ==
  ASSUME NEW x \in Pairs2, NEW n \in Nat
  PROVE  Follows(x, n)
<1>1. PICK g : Orbit(g, x, n) /\ Turned(x, n) = g[n]
  BY TurnedByOrbit
<1>2. n + 1 \in Nat /\ n + 1 \in 1 .. n + 1 /\ (n + 1) - 1 = n /\ n <= n + 1 /\ n \in 0 .. n
  OBVIOUS
<1>3. PICK h : Orbit(h, x, n + 1) /\ Turned(x, n + 1) = h[n + 1]
  BY <1>2, TurnedByOrbit
<1>4. g[n] = h[n]
  BY <1>1, <1>2, <1>3, OneOrbit
<1>5. h[n + 1] = TurnedOnce(h[(n + 1) - 1]) /\ g[n] \in Pairs2
  BY <1>1, <1>2, <1>3 DEF Orbit
<1> QED
  BY <1>1, <1>2, <1>3, <1>4, <1>5 DEF Follows

(* Turning by m and then by n is turning by m + n.                         *)
LEMMA TurnsAdd ==
  ASSUME NEW x \in Pairs2, NEW m \in Nat, NEW n \in Nat
  PROVE  Turned(Turned(x, m), n) = Turned(x, m + n)
<1> DEFINE y == Turned(x, m)
           S == {k \in Nat : Turned(y, k) = Turned(x, m + k)}
<1>1. y \in Pairs2
  BY TurnedFollows DEF Follows
<1>2. 0 \in S
  BY <1>1, TurnedNone
<1>3. ASSUME NEW k \in Nat, k \in S PROVE k + 1 \in S
  <2>1. m + k \in Nat /\ m + (k + 1) = (m + k) + 1 /\ Turned(y, k) = Turned(x, m + k)
    BY <1>3
  <2>2. Follows(y, k) /\ Follows(x, m + k)
    BY <1>1, <2>1, TurnedFollows
  <2>3. Turned(y, k + 1) = TurnedOnce(Turned(y, k))
    BY <2>2 DEF Follows
  <2>4. Turned(x, (m + k) + 1) = TurnedOnce(Turned(x, m + k))
    BY <2>2 DEF Follows
  <2>5. Turned(y, k + 1) = Turned(x, m + (k + 1))
    BY <2>1, <2>3, <2>4
  <2> QED
    BY <2>5
<1> HIDE DEF S
<1>4. Nat \subseteq S
  BY <1>2, <1>3, NatSetInduction
<1> QED
  BY <1>4 DEF S

PairNorm(z) == z[1] * z[1] + z[2] * z[2]

(* A turn without a rest keeps the norm: (ca - sb)^2 + (sa + cb)^2 is      *)
(* (c^2 + s^2) (a^2 + b^2), which is h^2 (a^2 + b^2).                      *)
LEMMA TurnKeepsNorm ==
  ASSUME NEW z \in Pairs2, Real(z) % Radius = 0, Imaginary(z) % Radius = 0
  PROVE  PairNorm(TurnedOnce(z)) = PairNorm(z)
<1> DEFINE a == z[1]
           b == z[2]
           c == Cosine
           s == Sine
           h == Radius
           p == Real(z) \div h
           q == Imaginary(z) \div h
<1>1. /\ a \in Int /\ b \in Int /\ c \in Int /\ s \in Int /\ h \in Nat \ {0}
      /\ c * c + s * s = h * h
  BY PositionAssumption, Zenon DEF Pairs2
<1>2. Real(z) = c * a - s * b /\ Imaginary(z) = s * a + c * b
  BY DEF Real, Imaginary
<1>3. TurnedOnce(z) = <<p, q>>
  BY DEF TurnedOnce
<1>4. Real(z) \in Int /\ Imaginary(z) \in Int /\ h \in Nat \ {0}
  BY <1>1, PartsAreNumbers
<1>5. p \in Int /\ q \in Int /\ h * p = Real(z) /\ h * q = Imaginary(z)
  BY <1>4, Quotient
<1>6. PairNorm(<<p, q>>) = p * p + q * q
  BY DEF PairNorm
<1>7. PairNorm(z) = a * a + b * b
  BY DEF PairNorm
<1> DEFINE m == p * p + q * q
           n == a * a + b * b
<1>8. m = n
  <2> HIDE DEF a, b, c, s, h, p, q
  <2>1. (h * h) * m = (h * p) * (h * p) + (h * q) * (h * q)
    BY <1>1, <1>5, SMT
  <2>2. (c * a - s * b) * (c * a - s * b) + (s * a + c * b) * (s * a + c * b)
          = (c * c + s * s) * n
    BY <1>1, SMT
  <2>3. m \in Int /\ n \in Int
    BY <1>1, <1>5, SMT
  <2> DEFINE k == h * h
  <2>4. k \in Nat \ {0}
    BY <1>1, SMT
  <2>5. h * p = c * a - s * b /\ h * q = s * a + c * b
    BY <1>2, <1>5
  <2>6. c * c + s * s = k
    BY <1>1
  <2> HIDE DEF m, n, k
  <2>7. k * m = k * n
    <3>1. k * m = (h * p) * (h * p) + (h * q) * (h * q)
      BY <2>1 DEF k
    <3>2. (h * p) * (h * p) + (h * q) * (h * q) = k * n
      BY <2>2, <2>5, <2>6, Zenon
    <3> QED
      BY <3>1, <3>2, Zenon
  <2> QED
    BY <2>3, <2>4, <2>7, SMT
<1> QED
  BY <1>3, <1>6, <1>7, <1>8

(* And so do n turns.                                                      *)
LEMMA TurnsKeepNorm ==
  ASSUME NEW x \in Pairs2, NEW n \in Nat, IsExact(x, n)
  PROVE  PairNorm(Turned(x, n)) = PairNorm(x)
<1> DEFINE S == {k \in Nat : k <= n => PairNorm(Turned(x, k)) = PairNorm(x)}
<1>1. 0 \in S
  BY TurnedNone
<1>2. ASSUME NEW k \in Nat, k \in S PROVE k + 1 \in S
  <2> SUFFICES ASSUME k + 1 <= n PROVE PairNorm(Turned(x, k + 1)) = PairNorm(x)
    OBVIOUS
  <2> DEFINE z == Turned(x, k)
  <2>1. k \in 0 .. n - 1 /\ PairNorm(z) = PairNorm(x)
    BY <1>2
  <2>2. Follows(x, k)
    BY TurnedFollows
  <2>3. z \in Pairs2 /\ Turned(x, k + 1) = TurnedOnce(z)
    BY <2>2 DEF Follows
  <2>4. Real(z) % Radius = 0 /\ Imaginary(z) % Radius = 0
    BY <2>1 DEF IsExact
  <2> HIDE DEF z
  <2>5. PairNorm(TurnedOnce(z)) = PairNorm(z)
    BY <2>3, <2>4, TurnKeepsNorm
  <2> QED
    BY <2>1, <2>3, <2>5
<1> HIDE DEF S
<1>3. Nat \subseteq S
  BY <1>1, <1>2, NatSetInduction
<1> QED
  BY <1>3 DEF S

-----------------------------------------------------------------------------
KnownDims(dims) == dims \in 0 .. MaxDims

(* The turns of a pair are a number that grows with the position.          *)
LEMMA TurnsOfPositions ==
  ASSUME NEW dims \in Nat, KnownDims(dims), NEW pair \in Nat, pair <= dims,
         NEW m \in Nat, NEW n \in Nat
  PROVE  /\ Turns(dims, m, pair) \in Nat
         /\ \A whole \in Nat :
              whole = m + n => Turns(dims, whole, pair) = Turns(dims, m, pair) + Turns(dims, n, pair)
         /\ m <= n => Turns(dims, m, pair) <= Turns(dims, n, pair)
<1> DEFINE rate == Rates[dims][pair]
<1>1. rate \in Nat
  <2>1. dims \in 0 .. MaxDims /\ pair \in 0 .. MaxDims
    BY PositionAssumption DEF KnownDims
  <2> QED
    BY <2>1, PositionAssumption
<1>2. \A k \in Nat : Turns(dims, k, pair) = k * rate
  BY DEF Turns
<1> HIDE DEF rate
<1>3. m * rate \in Nat /\ (m + n) * rate = m * rate + n * rate
  BY <1>1, SMT
<1>4. ASSUME m <= n PROVE m * rate <= n * rate
  <2>1. n - m \in Nat /\ (n - m) * rate \in Nat /\ n * rate = m * rate + (n - m) * rate
    BY <1>1, <1>4, SMT
  <2>2. m * rate \in Nat
    BY <1>3
  <2> DEFINE x == m * rate
             y == (n - m) * rate
  <2> HIDE DEF x, y
  <2>3. x \in Nat /\ y \in Nat /\ x <= x + y
    BY <2>1, <2>2 DEF x, y
  <2> QED
    BY <2>1, <2>3 DEF x, y
<1> QED
  BY <1>2, <1>3, <1>4

(* The loop over the pairs of a row; j counts them from 0.                 *)
PairAt(row, j) == PairOf(row, 2 * j)

RowsLike(row) == {r \in Seq(Int) : Len(r) = Len(row)}

RopeStates(row) == [ok : BOOLEAN, row : RowsLike(row)]

(* The pair has an angle there.                                            *)
HasAngle(dims, position, j) == Turns(dims, position, 2 * j) \in Nat

(* The j-th turn of the loop went well.                                    *)
PairTurned(s, t, dims, position, j) ==
  LET z == Turned(PairAt(s.row, j), Turns(dims, position, 2 * j))
  IN  s.ok /\ t.row = [s.row EXCEPT ![2 * j + 1] = z[1], ![2 * j + 2] = z[2]]

(* A turn of the loop, when it goes well, turns its pair.                  *)
LEMMA RotatedPair ==
  ASSUME NEW row \in Seq(Int), NEW s \in RopeStates(row), NEW dims, NEW position,
         NEW j \in Nat, 2 * j + 2 <= Len(row), HasAngle(dims, position, j)
  PROVE  /\ Rotated(s, dims, position, 2 * j) \in RopeStates(row)
         /\ Rotated(s, dims, position, 2 * j).ok =>
              PairTurned(s, Rotated(s, dims, position, 2 * j), dims, position, j)
<1> DEFINE pair == 2 * j
           z == Turned(PairOf(s.row, pair), Turns(dims, position, pair))
           t == Rotated(s, dims, position, pair)
<1>1. /\ s.ok \in BOOLEAN /\ s.row \in Seq(Int) /\ Len(s.row) = Len(row)
      /\ pair + 1 \in 1 .. Len(s.row) /\ pair + 2 \in 1 .. Len(s.row)
  BY DEF RopeStates, RowsLike
<1>2. z \in Pairs2
  <2>1. PairOf(s.row, pair) \in Pairs2
    <3>1. s.row[pair + 1] \in Int /\ s.row[pair + 2] \in Int
      BY <1>1
    <3> QED
      BY <3>1 DEF Pairs2, PairOf
  <2>2. Turns(dims, position, pair) \in Nat
    BY Zenon DEF HasAngle
  <2> HIDE DEF pair
  <2> QED
    BY <2>1, <2>2, TurnedFollows DEF Follows
<1>3. t = IF ~s.ok THEN s
          ELSE IF ~FitsF32(z[1]) THEN [ok |-> FALSE, row |-> s.row]
          ELSE IF ~FitsF32(z[2]) THEN [ok |-> FALSE, row |-> [s.row EXCEPT ![pair + 1] = z[1]]]
          ELSE [ok |-> TRUE, row |-> [s.row EXCEPT ![pair + 1] = z[1], ![pair + 2] = z[2]]]
  BY Zenon DEF Rotated
<1>4. z = Turned(PairAt(s.row, j), Turns(dims, position, 2 * j))
  BY Zenon DEF PairAt, PairOf
<1> HIDE DEF z, t
<1>5. z[1] \in Int /\ z[2] \in Int
  BY <1>2 DEF Pairs2
<1> DEFINE one == [s.row EXCEPT ![pair + 1] = z[1]]
           two == [s.row EXCEPT ![pair + 1] = z[1], ![pair + 2] = z[2]]
<1>6. one \in RowsLike(row) /\ two \in RowsLike(row) /\ s.row \in RowsLike(row)
  <2>1. one \in Seq(Int) /\ Len(one) = Len(s.row)
    BY <1>1, <1>5
  <2>2. two = [one EXCEPT ![pair + 2] = z[2]]
    OBVIOUS
  <2>3. two \in Seq(Int) /\ Len(two) = Len(s.row)
    <3> HIDE DEF one, two
    <3> QED
      BY <1>1, <1>5, <2>1, <2>2
  <2> QED
    BY <1>1, <2>1, <2>3 DEF RowsLike
<1> HIDE DEF one, two
<1>7. t \in RopeStates(row)
  <2>1. [ok |-> FALSE, row |-> s.row] \in RopeStates(row)
    BY <1>6 DEF RopeStates
  <2>2. [ok |-> FALSE, row |-> one] \in RopeStates(row) /\ [ok |-> TRUE, row |-> two] \in RopeStates(row)
    BY <1>6 DEF RopeStates
  <2> QED
    BY <1>3, <2>1, <2>2, Zenon DEF one, two
<1>8. ASSUME t.ok
      PROVE  PairTurned(s, t, dims, position, j)
  <2>1. s.ok /\ t = [ok |-> TRUE, row |-> two]
    <3>1. ~s.ok => ~t.ok
      BY <1>3
    <3>2. ~FitsF32(z[1]) /\ s.ok => ~t.ok
      BY <1>3
    <3>3. FitsF32(z[1]) /\ ~FitsF32(z[2]) /\ s.ok => ~t.ok
      BY <1>3
    <3> QED
      BY <1>3, <1>8, <3>1, <3>2, <3>3 DEF two
  <2>2. t.row = two
    BY <2>1
  <2> QED
    BY <1>4, <2>1, <2>2, Zenon DEF PairTurned, two
<1> QED
  BY <1>7, <1>8 DEF t, pair

(* The states of the loop, turn by turn.                                   *)
PairByPair(g, dims, position, row) ==
  LET n == dims \div 2
  IN  /\ g \in [0 .. n -> RopeStates(row)] /\ g[0] = [ok |-> TRUE, row |-> row]
      /\ \A k \in 1 .. n : g[k] = Rotated(g[k - 1], dims, position, 2 * (k - 1))

(* The fold of the model is that loop.                                     *)
LEMMA RotatedByPairs ==
  ASSUME NEW row \in Seq(Int), NEW position \in Nat, NEW dims \in Nat, KnownDims(dims), dims % 2 = 0,
         dims <= Len(row), position <= ExactMax
  PROVE  \E g : PairByPair(g, dims, position, row)
                  /\ RopeApplyKey(dims, position, row) = g[dims \div 2]
<1> DEFINE n == dims \div 2
           seq == [p \in 1 .. n |-> p]
           D == DOMAIN seq
           base == [ok |-> TRUE, row |-> row]
           V == RopeStates(row)
           Iterates(f) ==
             f = [s \in SUBSET D |->
                    IF s = {} THEN base
                    ELSE LET i == Max(s) IN Rotated(f[s \ {i}], dims, position, 2 * (seq[i] - 1))]
           it == CHOOSE f : Iterates(f)
           step == [p \in (1 .. n) \X V |-> Rotated(p[2], dims, position, 2 * (p[1] - 1))]
<1>0. ExactMax \in Nat
  BY PositionAssumption
<1>1. RopeApplyKey(dims, position, row) = it[D]
  <2>1. ~(dims > Len(row) \/ position > ExactMax)
    BY <1>0
  <2> QED
    BY <2>1, Zenon DEF RopeApplyKey, FoldLeft, MapThenFoldSet
<1>2. D = 1 .. n /\ n \in Nat /\ (\A k \in 1 .. n : seq[k] = k) /\ dims = 2 * n
  BY SMT
<1>3. base \in V
  BY DEF RopeStates, RowsLike
<1>4. \A k \in 1 .. n, s \in V : Rotated(s, dims, position, 2 * (k - 1)) \in V
  <2> SUFFICES ASSUME NEW k \in 1 .. n, NEW s \in V
               PROVE  Rotated(s, dims, position, 2 * (k - 1)) \in V
    OBVIOUS
  <2>1. k - 1 \in Nat /\ 2 * (k - 1) + 2 <= Len(row) /\ 2 * (k - 1) \in Nat
           /\ 2 * (k - 1) <= dims
    BY <1>2
  <2>2. HasAngle(dims, position, k - 1)
    BY <2>1, TurnsOfPositions DEF HasAngle
  <2> QED
    BY <2>1, <2>2, RotatedPair
<1> HIDE DEF V, n, base
<1>5. step \in [(1 .. n) \X V -> V]
  BY <1>4
<1>6. \A k \in 1 .. n, s \in V : step[<<k, s>>] = Rotated(s, dims, position, 2 * (k - 1))
  OBVIOUS
<1> HIDE DEF step, seq
<1>7. PICK f : LeftFold(f, n, V, base, step)
  BY <1>2, <1>3, <1>5, LeftExists
<1>8. Iterates(f)
  <2>1. \A s \in SUBSET D : f[s] = IF s = {} THEN base
                                   ELSE Rotated(f[s \ {Max(s)}], dims, position, 2 * (seq[Max(s)] - 1))
    <3> SUFFICES ASSUME NEW s \in SUBSET D, s # {}
                 PROVE  f[s] = Rotated(f[s \ {Max(s)}], dims, position, 2 * (seq[Max(s)] - 1))
      BY <1>2, <1>7 DEF LeftFold
    <3>1. Max(s) \in 1 .. n /\ f[s \ {Max(s)}] \in V
      BY <1>2, <1>7 DEF LeftFold
    <3> QED
      BY <1>2, <1>6, <1>7, <3>1, Zenon DEF LeftFold
  <2>2. f = [s \in SUBSET D |-> f[s]]
    BY <1>2, <1>7 DEF LeftFold
  <2> HIDE DEF D
  <2> QED
    BY <2>1, <2>2
<1>9. Iterates(it)
  <2> HIDE DEF Iterates
  <2> QED
    BY <1>8
<1> HIDE DEF it
<1>10. \A s \in SUBSET (1 .. n) :
         it[s] = IF s = {} THEN base
                 ELSE Rotated(it[s \ {Max(s)}], dims, position, 2 * (seq[Max(s)] - 1))
  <2> HIDE DEF D
  <2> QED
    BY <1>2, <1>9
<1>11. Unfolds(it, n, V, base, step)
  <2> SUFFICES ASSUME NEW s \in SUBSET (1 .. n), s # {}, it[s \ {Max(s)}] \in V
               PROVE  it[s] = step[<<Max(s), it[s \ {Max(s)}]>>]
    BY <1>10 DEF Unfolds
  <2>1. Max(s) \in 1 .. n
    BY <1>7 DEF LeftFold
  <2>2. it[s] = Rotated(it[s \ {Max(s)}], dims, position, 2 * (seq[Max(s)] - 1))
    BY <1>10
  <2>3. seq[Max(s)] = Max(s)
    BY <1>2, <2>1
  <2>4. step[<<Max(s), it[s \ {Max(s)}]>>] = Rotated(it[s \ {Max(s)}], dims, position, 2 * (Max(s) - 1))
    BY <1>6, <2>1
  <2> QED
    BY <2>2, <2>3, <2>4, Zenon
<1>12. PICK g : Lefts(g, n, V, base, step) /\ Reaches(g, n, it)
  BY <1>2, <1>3, <1>5, <1>11, LeftPrefixes
<1>13. g \in [0 .. n -> V] /\ g[0] = base /\ \A k \in 1 .. n : g[k] = step[<<k, g[k - 1]>>]
  BY <1>12 DEF Lefts
<1>14. \A k \in 1 .. n : g[k] = Rotated(g[k - 1], dims, position, 2 * (k - 1))
  <2> SUFFICES ASSUME NEW k \in 1 .. n PROVE g[k] = Rotated(g[k - 1], dims, position, 2 * (k - 1))
    OBVIOUS
  <2>1. k - 1 \in 0 .. n
    BY <1>2
  <2>2. g[k - 1] \in V
    BY <1>13, <2>1
  <2> QED
    BY <1>6, <1>13, <2>2, Zenon
<1>15. PairByPair(g, dims, position, row)
  BY <1>13, <1>14, Zenon DEF PairByPair, n, base, V
<1>16. it[D] = g[dims \div 2]
  BY <1>2, <1>12, Zenon DEF Reaches, n
<1> QED
  BY <1>1, <1>15, <1>16, Zenon

(* The first k pairs are turned, the rest of the row is as it was.         *)
RotatedTo(old, new, dims, position, k) ==
  /\ new \in RowsLike(old)
  /\ \A i \in DOMAIN old : i > 2 * k => new[i] = old[i]
  /\ \A j \in 0 .. k - 1 : PairAt(new, j) = Turned(PairAt(old, j), Turns(dims, position, 2 * j))

(* A pair of a row of integers is one.                                     *)
LEMMA PairIsPair ==
  ASSUME NEW row \in Seq(Int), NEW j \in Nat, 2 * j + 2 <= Len(row)
  PROVE  PairAt(row, j) \in Pairs2
<1>1. 2 * j + 1 \in 1 .. Len(row) /\ 2 * j + 2 \in 1 .. Len(row)
  OBVIOUS
<1>2. row[2 * j + 1] \in Int /\ row[2 * j + 2] \in Int
  BY <1>1
<1> QED
  BY <1>2 DEF PairAt, PairOf, Pairs2

(* One more pair.                                                          *)
LEMMA RotatedOn ==
  ASSUME NEW row \in Seq(Int), NEW k \in Nat, 2 * k + 2 <= Len(row), NEW dims, NEW position,
         HasAngle(dims, position, k),
         NEW s \in RopeStates(row), NEW t \in RopeStates(row),
         RotatedTo(row, s.row, dims, position, k), PairTurned(s, t, dims, position, k)
  PROVE  RotatedTo(row, t.row, dims, position, k + 1)
<1> DEFINE a == 2 * k + 1
           b == 2 * k + 2
           z == Turned(PairAt(s.row, k), Turns(dims, position, 2 * k))
<1>1. /\ s.row \in Seq(Int) /\ Len(s.row) = Len(row) /\ t.row \in RowsLike(row)
      /\ a \in 1 .. Len(row) /\ b \in 1 .. Len(row) /\ a # b
  BY DEF RopeStates, RowsLike
<1>2. z \in Pairs2
  <2>1. PairAt(s.row, k) \in Pairs2
    BY <1>1, PairIsPair
  <2>2. Turns(dims, position, 2 * k) \in Nat
    BY DEF HasAngle
  <2> QED
    BY <2>1, <2>2, TurnedFollows DEF Follows
<1>3. t.row = [s.row EXCEPT ![a] = z[1], ![b] = z[2]]
  BY Zenon DEF PairTurned
<1>4. PairAt(s.row, k) = PairAt(row, k)
  <2>1. \A i \in DOMAIN row : i > 2 * k => s.row[i] = row[i]
    BY DEF RotatedTo
  <2>2. a \in DOMAIN row /\ a > 2 * k /\ b \in DOMAIN row /\ b > 2 * k
    BY <1>1
  <2>3. s.row[a] = row[a] /\ s.row[b] = row[b]
    <3> HIDE DEF a, b
    <3> QED
      BY <2>1, <2>2
  <2> QED
    BY <2>3 DEF PairAt, PairOf
<1> HIDE DEF z, a, b
<1>5. /\ t.row[a] = z[1] /\ t.row[b] = z[2]
      /\ \A i \in 1 .. Len(row) : i # a /\ i # b => t.row[i] = s.row[i]
  <2> DEFINE u == s.row
             one == [u EXCEPT ![a] = z[1]]
  <2>1. u \in Seq(Int) /\ DOMAIN u = 1 .. Len(row)
    BY <1>1
  <2>2. t.row = [one EXCEPT ![b] = z[2]]
    BY <1>3
  <2> HIDE DEF u
  <2>3. /\ DOMAIN one = 1 .. Len(row) /\ one[a] = z[1]
        /\ \A i \in 1 .. Len(row) : i # a => one[i] = u[i]
    BY <1>1, <2>1
  <2> HIDE DEF one
  <2>4. /\ t.row[a] = z[1] /\ t.row[b] = z[2]
        /\ \A i \in 1 .. Len(row) : i # a /\ i # b => t.row[i] = u[i]
    BY <1>1, <2>2, <2>3
  <2> QED
    BY <2>4 DEF u
<1>6. ASSUME NEW i \in DOMAIN row, i > 2 * (k + 1)
      PROVE  t.row[i] = row[i]
  <2>1. i \in 1 .. Len(row) /\ i > 2 * k /\ i # a /\ i # b
    BY <1>6 DEF a, b
  <2> QED
    BY <1>5, <2>1 DEF RotatedTo
<1>7. ASSUME NEW j \in 0 .. k
      PROVE  PairAt(t.row, j) = Turned(PairAt(row, j), Turns(dims, position, 2 * j))
  <2>1. CASE j = k
    <3>1. z = <<z[1], z[2]>>
      BY <1>2 DEF Pairs2
    <3>2. PairAt(t.row, k) = <<t.row[a], t.row[b]>>
      BY DEF PairAt, PairOf, a, b
    <3>3. PairAt(t.row, k) = z
      BY <1>5, <3>1, <3>2
    <3>4. z = Turned(PairAt(row, k), Turns(dims, position, 2 * k))
      BY <1>4 DEF z
    <3> QED
      BY <2>1, <3>3, <3>4
  <2>2. CASE j < k
    <3>1. /\ 2 * j + 1 \in 1 .. Len(row) /\ 2 * j + 2 \in 1 .. Len(row)
          /\ 2 * j + 1 # a /\ 2 * j + 1 # b /\ 2 * j + 2 # a /\ 2 * j + 2 # b
      BY <1>1, <2>2 DEF a, b
    <3>2. t.row[2 * j + 1] = s.row[2 * j + 1] /\ t.row[2 * j + 2] = s.row[2 * j + 2]
      BY <1>5, <3>1
    <3>3. PairAt(t.row, j) = PairAt(s.row, j)
      BY <3>2 DEF PairAt, PairOf
    <3>4. j \in 0 .. k - 1
      BY <2>2
    <3> QED
      BY <3>3, <3>4, Zenon DEF RotatedTo
  <2> QED
    BY <2>1, <2>2
<1>8. (k + 1) - 1 = k
  OBVIOUS
<1> QED
  BY <1>1, <1>6, <1>7, <1>8 DEF RotatedTo

(* A row that comes back without an error is turned as a whole.            *)
Encoded(dims, position, row, a) ==
  a.ok => /\ dims <= Len(row) /\ RotatedTo(row, a.row, dims, position, dims \div 2)
          /\ a = [ok |-> TRUE, row |-> a.row]

(* The loop over the pairs does that.                                      *)
LEMMA RopeTurnsRows ==
  ASSUME NEW row \in Seq(Int), NEW position \in Nat, NEW dims \in Nat, KnownDims(dims), dims % 2 = 0
  PROVE  Encoded(dims, position, row, RopeApplyKey(dims, position, row))
<1> DEFINE a == RopeApplyKey(dims, position, row)
           n == dims \div 2
<1> SUFFICES ASSUME a.ok
             PROVE  /\ dims <= Len(row) /\ RotatedTo(row, a.row, dims, position, n)
                    /\ a = [ok |-> TRUE, row |-> a.row]
  BY DEF Encoded
<1>0. n \in Nat /\ dims = 2 * n /\ ExactMax \in Nat /\ Len(row) \in Nat
  BY PositionAssumption, SMT
<1>1. ~(dims > Len(row) \/ position > ExactMax)
  <2>1. dims > Len(row) \/ position > ExactMax => a = [ok |-> FALSE, row |-> row]
    BY Zenon DEF RopeApplyKey
  <2>2. [ok |-> FALSE, row |-> row].ok = FALSE
    OBVIOUS
  <2> HIDE DEF a
  <2> QED
    BY <2>1, <2>2
<1>2. dims <= Len(row) /\ position <= ExactMax
  BY <1>0, <1>1
<1>3. PICK g : PairByPair(g, dims, position, row) /\ a = g[n]
  BY <1>2, RotatedByPairs
<1>4. /\ \A k \in 0 .. n : g[k] \in RopeStates(row)
      /\ g[0] = [ok |-> TRUE, row |-> row]
      /\ \A k \in 1 .. n : g[k] = Rotated(g[k - 1], dims, position, 2 * (k - 1))
  BY <1>3 DEF PairByPair
<1> HIDE DEF a, n
<1> DEFINE S == {k \in Nat : k <= n /\ g[k].ok => RotatedTo(row, g[k].row, dims, position, k)}
<1>5. 0 \in S
  <2>1. g[0].row = row
    BY <1>4
  <2>2. RotatedTo(row, row, dims, position, 0)
    BY DEF RotatedTo, RowsLike
  <2> QED
    BY <2>1, <2>2
<1>6. ASSUME NEW k \in Nat, k \in S PROVE k + 1 \in S
  <2> SUFFICES ASSUME k + 1 <= n, g[k + 1].ok
               PROVE  RotatedTo(row, g[k + 1].row, dims, position, k + 1)
    OBVIOUS
  <2>1. k \in 0 .. n /\ k + 1 \in 1 .. n /\ k + 1 \in 0 .. n /\ (k + 1) - 1 = k
           /\ 2 * k + 2 <= Len(row) /\ 2 * k \in Nat /\ 2 * k <= dims
    BY <1>0, <1>2
  <2>0. HasAngle(dims, position, k)
    BY <2>1, TurnsOfPositions DEF HasAngle
  <2> DEFINE s == g[k]
             t == g[k + 1]
  <2>2. s \in RopeStates(row) /\ t \in RopeStates(row)
    BY <1>4, <2>1
  <2>3. t = Rotated(s, dims, position, 2 * k)
    <3>1. g[k + 1] = Rotated(g[(k + 1) - 1], dims, position, 2 * ((k + 1) - 1))
      BY <1>4, <2>1
    <3> QED
      BY <2>1, <3>1
  <2>4. PairTurned(s, t, dims, position, k)
    <3>1. Rotated(s, dims, position, 2 * k).ok =>
            PairTurned(s, Rotated(s, dims, position, 2 * k), dims, position, k)
      BY <2>0, <2>1, <2>2, RotatedPair
    <3> QED
      BY <2>3, <3>1
  <2>5. RotatedTo(row, s.row, dims, position, k)
    BY <1>6, <2>1, <2>4 DEF PairTurned
  <2> HIDE DEF s, t
  <2>6. RotatedTo(row, t.row, dims, position, k + 1)
    BY <2>0, <2>1, <2>2, <2>4, <2>5, RotatedOn
  <2> QED
    BY <2>6 DEF t
<1> HIDE DEF S
<1>7. n \in S
  BY <1>0, <1>5, <1>6, NatSetInduction
<1>8. RotatedTo(row, a.row, dims, position, n)
  BY <1>0, <1>3, <1>7 DEF S
<1>9. a \in RopeStates(row)
  BY <1>0, <1>3, <1>4
<1>10. a = [ok |-> TRUE, row |-> a.row]
  BY <1>9 DEF RopeStates
<1> QED
  BY <1>2, <1>8, <1>10

-----------------------------------------------------------------------------
(* A row that was turned is turned further.                                *)
LEMMA RotationsAdd ==
  ASSUME NEW x \in Seq(Int), NEW y, NEW z, NEW m \in Nat, NEW n \in Nat,
         NEW dims \in Nat, KnownDims(dims), NEW k \in Nat, 2 * k = dims, dims <= Len(x),
         RotatedTo(x, y, dims, m, k), RotatedTo(y, z, dims, n, k)
  PROVE  RotatedTo(x, z, dims, m + n, k)
<1>1. y \in Seq(Int) /\ Len(y) = Len(x) /\ z \in Seq(Int) /\ Len(z) = Len(x)
  BY DEF RotatedTo, RowsLike
<1>2. DOMAIN x = DOMAIN y
  BY <1>1
<1>3. \A i \in DOMAIN x : i > 2 * k => z[i] = x[i]
  BY <1>2, Zenon DEF RotatedTo
<1>4. ASSUME NEW j \in 0 .. k - 1
      PROVE  PairAt(z, j) = Turned(PairAt(x, j), Turns(dims, m + n, 2 * j))
  <2>1. j \in Nat /\ 2 * j + 2 <= Len(x) /\ 2 * j \in Nat /\ 2 * j <= dims
    BY <1>1
  <2>2. PairAt(x, j) \in Pairs2
    BY <2>1, PairIsPair
  <2> DEFINE p == Turns(dims, m, 2 * j)
             q == Turns(dims, n, 2 * j)
  <2>3. p \in Nat /\ q \in Nat /\ Turns(dims, m + n, 2 * j) = p + q
    <3> DEFINE pair == 2 * j
    <3>1. pair \in Nat /\ pair <= dims
      BY <2>1
    <3> DEFINE whole == m + n
    <3>2. whole \in Nat /\ whole = m + n
      OBVIOUS
    <3> HIDE DEF pair, whole
    <3>3. /\ Turns(dims, m, pair) \in Nat /\ Turns(dims, n, pair) \in Nat
          /\ Turns(dims, whole, pair) = Turns(dims, m, pair) + Turns(dims, n, pair)
      <4>1. Turns(dims, m, pair) \in Nat
        BY <3>1, TurnsOfPositions
      <4>2. Turns(dims, n, pair) \in Nat
        BY <3>1, TurnsOfPositions
      <4>3. Turns(dims, whole, pair) = Turns(dims, m, pair) + Turns(dims, n, pair)
        BY <3>1, <3>2, TurnsOfPositions
      <4> QED
        BY <4>1, <4>2, <4>3
    <3> QED
      BY <3>3, Zenon DEF pair, whole
  <2>4. PairAt(y, j) = Turned(PairAt(x, j), p) /\ PairAt(z, j) = Turned(PairAt(y, j), q)
    BY DEF RotatedTo
  <2> HIDE DEF p, q
  <2>5. Turned(Turned(PairAt(x, j), p), q) = Turned(PairAt(x, j), p + q)
    BY <2>2, <2>3, TurnsAdd
  <2> QED
    BY <2>3, <2>4, <2>5
<1>5. z \in RowsLike(x)
  BY <1>1 DEF RowsLike
<1> QED
  BY <1>3, <1>4, <1>5, Zenon DEF RotatedTo

(* There is one row that is turned by n.                                   *)
LEMMA OneRotation ==
  ASSUME NEW x \in Seq(Int), NEW y, NEW z, NEW dims, NEW n, NEW k \in Nat, 2 * k <= Len(x),
         RotatedTo(x, y, dims, n, k), RotatedTo(x, z, dims, n, k)
  PROVE  y = z
<1>1. y \in Seq(Int) /\ Len(y) = Len(x) /\ z \in Seq(Int) /\ Len(z) = Len(x)
  BY DEF RotatedTo, RowsLike
<1>2. ASSUME NEW i \in 1 .. Len(x) PROVE y[i] = z[i]
  <2>1. CASE i > 2 * k
    BY <2>1 DEF RotatedTo
  <2>2. ASSUME NEW j \in 0 .. k - 1
        PROVE  y[2 * j + 1] = z[2 * j + 1] /\ y[2 * j + 2] = z[2 * j + 2]
    <3>1. PairAt(y, j) = PairAt(z, j)
      BY Zenon DEF RotatedTo
    <3> QED
      BY <3>1 DEF PairAt, PairOf
  <2>3. CASE i <= 2 * k
    <3> DEFINE j == (i - 1) \div 2
    <3>1. j \in 0 .. k - 1 /\ (i = 2 * j + 1 \/ i = 2 * j + 2)
      BY <2>3, SMT
    <3> HIDE DEF j
    <3> QED
      BY <2>2, <3>1
  <2> QED
    BY <2>1, <2>3
<1>3. y = [i \in 1 .. Len(x) |-> y[i]] /\ z = [i \in 1 .. Len(x) |-> z[i]]
  BY <1>1
<1> QED
  BY <1>2, <1>3

(* What an encoding turns: nothing unless it is RoPE.                      *)
Turning(encoding) == IF encoding.kind = "rope" THEN encoding.dims ELSE 0

KeyEncodings ==
  [kind : {"none"}] \cup {e \in [kind : {"rope"}, dims : 0 .. MaxDims] : RopeAccepted(e.dims)}

(* Even dimensions, and none without RoPE.                                 *)
LEMMA TurningIsEven ==
  ASSUME NEW encoding \in KeyEncodings
  PROVE  /\ Turning(encoding) \in Nat /\ KnownDims(Turning(encoding))
         /\ Turning(encoding) % 2 = 0
<1>1. CASE encoding.kind = "rope"
  <2>1. encoding.dims \in 0 .. MaxDims /\ encoding.dims % 2 = 0
    BY <1>1 DEF KeyEncodings, RopeAccepted
  <2> QED
    BY <1>1, <2>1, PositionAssumption DEF Turning, KnownDims
<1>2. CASE encoding.kind # "rope"
  BY <1>2, PositionAssumption DEF Turning, KnownDims
<1> QED
  BY <1>1, <1>2

(* apply_key, with any encoding.                                           *)
LEMMA ApplyKeyEncodes ==
  ASSUME NEW encoding \in KeyEncodings, NEW row \in Seq(Int), NEW position \in Nat
  PROVE  Encoded(Turning(encoding), position, row, ApplyKey(encoding, position, row))
<1>1. CASE encoding.kind = "rope"
  <2> DEFINE dims == encoding.dims
  <2>1. dims \in Nat /\ KnownDims(dims) /\ dims % 2 = 0 /\ Turning(encoding) = dims
    BY <1>1, TurningIsEven DEF Turning
  <2>2. ApplyKey(encoding, position, row) = RopeApplyKey(dims, position, row)
    BY <1>1 DEF ApplyKey
  <2> HIDE DEF dims
  <2> QED
    BY <2>1, <2>2, RopeTurnsRows
<1>2. CASE encoding.kind # "rope"
  <2>1. Turning(encoding) = 0 /\ ApplyKey(encoding, position, row) = [ok |-> TRUE, row |-> row]
    BY <1>2 DEF Turning, ApplyKey
  <2>2. RotatedTo(row, row, 0, position, 0) /\ 0 \div 2 = 0 /\ 0 <= Len(row)
    BY DEF RotatedTo, RowsLike
  <2> QED
    BY <2>1, <2>2 DEF Encoded
<1> QED
  BY <1>1, <1>2

(* What PositionsEncoded says of a call of apply_key.                      *)
KeyTrue(encoding, position, row, a) ==
  LET whole == ApplyKey(encoding, position, row)
  IN  a.ok => IsTurn(Turning(encoding), position, row, a.row) /\ (whole.ok => whole = a)

(* A row that is turned is what one call would have made of it, and its    *)
(* pairs have the norm they had.                                           *)
LEMMA EncodedIsTrue ==
  ASSUME NEW encoding \in KeyEncodings, NEW row, IsKeyRow(row, MaxPosition),
         NEW position \in 0 .. MaxPosition, NEW a, Encoded(Turning(encoding), position, row, a)
  PROVE  KeyTrue(encoding, position, row, a)
<1> DEFINE dims == Turning(encoding)
           k == dims \div 2
           whole == ApplyKey(encoding, position, row)
<1> SUFFICES ASSUME a.ok PROVE IsTurn(dims, position, row, a.row) /\ (whole.ok => whole = a)
  BY DEF KeyTrue
<1>1. /\ row \in Seq(Int) /\ position \in Nat /\ MaxPosition \in Nat /\ position <= MaxPosition
      /\ Len(row) \in Nat
  BY CallersAssumption DEF IsKeyRow
<1>2. dims \in Nat /\ KnownDims(dims) /\ k \in Nat /\ dims = 2 * k
  <2>1. dims \in Nat /\ KnownDims(dims) /\ dims % 2 = 0
    BY TurningIsEven
  <2> HIDE DEF dims
  <2> QED
    BY <2>1, SMT
<1>3. dims <= Len(row) /\ RotatedTo(row, a.row, dims, position, k) /\ a = [ok |-> TRUE, row |-> a.row]
  BY DEF Encoded
<1>4. Encoded(dims, position, row, whole)
  BY <1>1, ApplyKeyEncodes
<1> HIDE DEF whole
<1>5. ASSUME whole.ok PROVE whole = a
  <2>1. RotatedTo(row, whole.row, dims, position, k) /\ whole = [ok |-> TRUE, row |-> whole.row]
    BY <1>4, <1>5 DEF Encoded
  <2> HIDE DEF k, dims
  <2>2. 2 * k <= Len(row)
    BY <1>2, <1>3
  <2>3. whole.row = a.row
    BY <1>1, <1>2, <1>3, <2>1, <2>2, OneRotation
  <2> QED
    BY <1>3, <2>1, <2>3
<1> HIDE DEF k, dims
<1>6. ASSUME NEW i \in DOMAIN row, i > dims PROVE a.row[i] = row[i]
  BY <1>2, <1>3, <1>6 DEF RotatedTo
<1>7. ASSUME NEW pair \in PairsOf(dims)
      PROVE  /\ PairOf(a.row, pair) = Turned(PairOf(row, pair), Turns(dims, position, pair))
             /\ Norm(a.row, pair) = Norm(row, pair)
  <2> DEFINE j == pair \div 2
  <2>0. pair \in 0 .. dims - 2 /\ pair % 2 = 0
    BY DEF PairsOf
  <2>1. j \in 0 .. k - 1 /\ pair = 2 * j
    BY <1>2, <2>0, SMT
  <2>2. j \in Nat /\ 2 * j + 2 <= Len(row) /\ pair + 2 <= Len(row) /\ pair \in Nat /\ pair <= dims
    <3> HIDE DEF j
    <3>1. Len(row) \in Nat /\ dims <= Len(row) /\ dims \in Nat
      BY <1>1, <1>2, <1>3
    <3>2. j \in Nat /\ 2 * j + 2 <= dims /\ pair \in Nat /\ pair <= dims - 2
      BY <1>2, <2>0, <2>1
    <3> QED
      BY <3>1, <3>2
  <2> HIDE DEF j
  <2> DEFINE n == Turns(dims, position, pair)
             last == Turns(dims, MaxPosition, pair)
             x == PairAt(row, j)
  <2>3. n \in Nat /\ last \in Nat /\ n <= last
    BY <1>1, <1>2, <2>2, TurnsOfPositions
  <2>4. x \in Pairs2
    BY <1>1, <2>2, PairIsPair
  <2>5. x = PairOf(row, pair)
    BY <2>1, Zenon DEF PairAt
  <2>6. IsExact(x, last)
    BY <1>2, <1>7, <2>2, <2>5, Zenon DEF IsKeyRow, KnownDims
  <2>7. PairAt(a.row, j) = Turned(x, n)
    BY <1>3, <2>1 DEF RotatedTo
  <2> HIDE DEF n, last, x
  <2>8. IsExact(x, n)
    <3>1. \A i \in 0 .. n - 1 : i \in 0 .. last - 1
      BY <2>3
    <3> QED
      BY <2>6, <3>1, Zenon DEF IsExact
  <2>9. PairNorm(PairAt(a.row, j)) = PairNorm(PairAt(row, j))
    BY <2>3, <2>4, <2>7, <2>8, TurnsKeepNorm DEF x
  <2>10. ASSUME NEW r PROVE PairNorm(PairAt(r, j)) = Norm(r, pair)
    BY <2>1 DEF PairNorm, PairAt, PairOf, Norm
  <2>11. PairOf(a.row, pair) = PairAt(a.row, j)
    BY <2>1, Zenon DEF PairAt
  <2>12. PairOf(a.row, pair) = Turned(PairOf(row, pair), Turns(dims, position, pair))
    BY <2>5, <2>7, <2>11 DEF n
  <2> QED
    BY <2>9, <2>10, <2>12
<1> QED
  BY <1>5, <1>6, <1>7 DEF IsTurn

(* A row that was turned is turned further.                                *)
LEMMA EncodedFurther ==
  ASSUME NEW encoding \in KeyEncodings, NEW row \in Seq(Int), NEW m \in Nat, NEW n \in Nat,
         NEW a, a.ok, Encoded(Turning(encoding), m, row, a)
  PROVE  Encoded(Turning(encoding), m + n, row, ApplyKey(encoding, n, a.row))
<1> DEFINE dims == Turning(encoding)
           k == dims \div 2
           b == ApplyKey(encoding, n, a.row)
<1>1. dims <= Len(row) /\ RotatedTo(row, a.row, dims, m, k)
  BY DEF Encoded
<1>2. dims \in Nat /\ KnownDims(dims) /\ k \in Nat /\ dims = 2 * k
  <2>1. dims \in Nat /\ KnownDims(dims) /\ dims % 2 = 0
    BY TurningIsEven
  <2> HIDE DEF dims
  <2> QED
    BY <2>1, SMT
<1>3. a.row \in Seq(Int)
  BY <1>1 DEF RotatedTo, RowsLike
<1>4. Encoded(dims, n, a.row, b)
  BY <1>3, ApplyKeyEncodes
<1> HIDE DEF b
<1>5. ASSUME b.ok
      PROVE  RotatedTo(row, b.row, dims, m + n, k) /\ b = [ok |-> TRUE, row |-> b.row]
  <2>1. RotatedTo(a.row, b.row, dims, n, k) /\ b = [ok |-> TRUE, row |-> b.row]
    BY <1>4, <1>5 DEF Encoded
  <2> HIDE DEF k, dims
  <2> QED
    BY <1>1, <1>2, <2>1, RotationsAdd
<1> QED
  BY <1>1, <1>5 DEF Encoded, b

(* What PositionsEncoded says of a call of alibi_bias.                     *)
BiasTrue(slopes, head, query_position, key_position, a) ==
  LET distance == query_position - key_position
  IN  /\ a.ok => distance >= 0 /\ (distance = 0 => a.bias = 0)
      /\ distance >= 1 /\ a.ok => a.bias <= AlibiBias(slopes, head, distance - 1, 0).bias

(* A bias falls with the distance, and is none at the token itself.        *)
LEMMA BiasesFall ==
  ASSUME NEW slopes \in Seq(Int), AlibiAccepted(slopes), NEW head \in Nat,
         NEW q \in Nat, NEW key \in Nat
  PROVE  BiasTrue(slopes, head, q, key, AlibiBias(slopes, head, q, key))
<1> DEFINE a == AlibiBias(slopes, head, q, key)
           distance == q - key
           slope == slopes[head + 1]
           refused(d) == d < 0 \/ d > ExactMax \/ head >= Len(slopes) \/ ~FitsF32(slope * d)
<1>0. ExactMax \in Nat /\ MaxKey \in Nat /\ distance \in Int /\ Len(slopes) \in Nat
  BY PositionAssumption
<1>1. a = IF refused(distance) THEN [ok |-> FALSE, bias |-> 0]
          ELSE [ok |-> TRUE, bias |-> -(slope * distance)]
  BY Zenon DEF AlibiBias
<1>2. ASSUME NEW d \in Nat
      PROVE  AlibiBias(slopes, head, d, 0) =
               IF refused(d) THEN [ok |-> FALSE, bias |-> 0]
               ELSE [ok |-> TRUE, bias |-> -(slope * d)]
  <2>1. d - 0 = d
    OBVIOUS
  <2> QED
    BY <2>1, Zenon DEF AlibiBias
<1>3. ASSUME a.ok
      PROVE  a.bias = -(slope * distance) /\ ~refused(distance)
  <2>1. refused(distance) => a.ok = FALSE
    BY <1>1
  <2>2. ~refused(distance)
    BY <1>3, <2>1
  <2> QED
    BY <1>1, <2>2
<1>4. ASSUME a.ok PROVE slope \in Nat
  <2>1. head + 1 \in DOMAIN slopes
    BY <1>0, <1>3, <1>4
  <2> QED
    BY <2>1 DEF AlibiAccepted
<1> HIDE DEF a, slope, distance
<1>5. ASSUME a.ok PROVE distance >= 0 /\ (distance = 0 => a.bias = 0)
  <2>1. slope \in Nat /\ distance >= 0 /\ a.bias = -(slope * distance)
    BY <1>0, <1>3, <1>4, <1>5
  <2>2. slope * 0 = 0
    BY <2>1, SMT
  <2> QED
    BY <2>1, <2>2
<1>6. ASSUME distance >= 1, a.ok
      PROVE  a.bias <= AlibiBias(slopes, head, distance - 1, 0).bias
  <2> DEFINE d == distance - 1
  <2>1. slope \in Nat /\ ~refused(distance) /\ a.bias = -(slope * distance) /\ d \in Nat /\ distance = d + 1
    BY <1>0, <1>3, <1>4, <1>6
  <2> HIDE DEF d
  <2>2. slope * d \in Nat /\ slope * distance = slope * d + slope
    BY <2>1, SMT
  <2>3. slope * distance <= MaxKey
    BY <1>0, <2>1, <2>2 DEF FitsF32
  <2>4. FitsF32(slope * d)
    BY <1>0, <2>1, <2>2, <2>3 DEF FitsF32
  <2>5. ~refused(d)
    BY <1>0, <2>1, <2>4
  <2>6. AlibiBias(slopes, head, d, 0) = [ok |-> TRUE, bias |-> -(slope * d)]
    BY <1>2, <2>1, <2>5
  <2>7. a.bias <= -(slope * d)
    BY <2>1, <2>2
  <2> QED
    BY <2>6, <2>7 DEF d
<1> QED
  BY <1>5, <1>6 DEF BiasTrue, a, distance

-----------------------------------------------------------------------------
(* The bytes of pages.  They are counted in cells, as many of a page as it *)
(* has bytes, so that sums are cardinalities.                              *)
ByteCells(b, S) == UNION {{k} \X (1 .. b[k]) : k \in S}

Weight(b, S) == Cardinality(ByteCells(b, S))

LEMMA PageCells ==
  ASSUME NEW k, NEW n \in Nat
  PROVE  IsFiniteSet({k} \X (1 .. n)) /\ Cardinality({k} \X (1 .. n)) = n
<1>1. IsFiniteSet(1 .. n) /\ Cardinality(1 .. n) = n
  <2>1. 1 \in Int /\ n \in Int
    OBVIOUS
  <2>2. /\ IsFiniteSet(1 .. n)
        /\ Cardinality(1 .. n) = IF 1 > n THEN 0 ELSE n - 1 + 1
    BY <2>1, FS_Interval, Zenon
  <2> QED
    BY <2>2
<1>2. IsFiniteSet({k}) /\ Cardinality({k}) = 1
  BY FS_Singleton, Zenon
<1>3. /\ IsFiniteSet({k} \X (1 .. n))
      /\ Cardinality({k} \X (1 .. n)) = Cardinality({k}) * Cardinality(1 .. n)
  BY <1>1, <1>2, FS_Product, Zenon
<1> QED
  BY <1>1, <1>2, <1>3

(* A finite set of pages has finitely many bytes, none if it is empty.     *)
LEMMA WeightFinite ==
  ASSUME NEW b, NEW S, IsFiniteSet(S), \A k \in S : b[k] \in Nat
  PROVE  IsFiniteSet(ByteCells(b, S)) /\ Weight(b, S) \in Nat /\ Weight(b, {}) = 0
<1>1. \A k \in S : IsFiniteSet({k} \X (1 .. b[k]))
  BY PageCells
<1>2. IsFiniteSet({{k} \X (1 .. b[k]) : k \in S})
  <2> DEFINE row == [k \in S |-> {k} \X (1 .. b[k])]
  <2>1. row \in Surjection(S, {{k} \X (1 .. b[k]) : k \in S})
    BY DEF Surjection
  <2> QED
    BY <2>1, FS_Surjection
<1>3. IsFiniteSet(ByteCells(b, S))
  BY <1>1, <1>2, FS_UNION DEF ByteCells
<1>4. ByteCells(b, {}) = {}
  BY DEF ByteCells
<1> QED
  BY <1>3, <1>4, FS_CardinalityType, FS_EmptySet DEF Weight

(* More pages have more bytes.                                             *)
LEMMA WeightGrows ==
  ASSUME NEW b, NEW S, IsFiniteSet(S), \A k \in S : b[k] \in Nat, NEW T \in SUBSET S
  PROVE  Weight(b, T) <= Weight(b, S) /\ Weight(b, T) \in Nat /\ IsFiniteSet(T)
<1>1. ByteCells(b, T) \subseteq ByteCells(b, S)
  BY DEF ByteCells
<1>2. IsFiniteSet(ByteCells(b, S))
  BY WeightFinite
<1>3. IsFiniteSet(T)
  BY FS_Subset
<1>4. Weight(b, T) \in Nat
  BY <1>3, WeightFinite
<1> QED
  BY <1>1, <1>2, <1>3, <1>4, FS_Subset DEF Weight

(* A page more has its bytes more.                                         *)
LEMMA WeightAdds ==
  ASSUME NEW b, NEW S, IsFiniteSet(S), \A k \in S : b[k] \in Nat, NEW key, key \notin S,
         b[key] \in Nat
  PROVE  Weight(b, S \cup {key}) = Weight(b, S) + b[key]
<1> DEFINE A == ByteCells(b, S)
           B == {key} \X (1 .. b[key])
<1>1. ByteCells(b, S \cup {key}) = A \cup B
  BY DEF ByteCells
<1>2. A \cap B = {}
  BY DEF ByteCells
<1>3. IsFiniteSet(A) /\ Cardinality(A) \in Nat
  BY WeightFinite DEF Weight
<1>4. IsFiniteSet(B) /\ Cardinality(B) = b[key]
  BY PageCells
<1>5. Cardinality(A \cap B) = 0
  BY <1>2, FS_EmptySet
<1> HIDE DEF A, B
<1>6. Cardinality(A \cup B) = Cardinality(A) + Cardinality(B) - Cardinality(A \cap B)
  BY <1>3, <1>4, FS_Union
<1>7. Weight(b, S) = Cardinality(A) /\ Weight(b, S \cup {key}) = Cardinality(A \cup B)
  BY <1>1, Zenon DEF Weight, A
<1> QED
  BY <1>3, <1>4, <1>5, <1>6, <1>7

(* The sum by which LruCache counts bytes counts their cells.              *)
LEMMA BytesAreCells ==
  ASSUME NEW o, NEW c, NEW b, NEW S, IsFiniteSet(S),
         \A k \in S : b[k] \in Nat /\ c.pages[k].bytes = b[k]
  PROVE  Lru(o)!BytesOf(c, S) = Weight(b, S)
<1> DEFINE any(s) == CHOOSE x \in s : TRUE
           Iterates(f) ==
             f = [s \in SUBSET S |->
                    IF s = {} THEN 0 ELSE LET x == any(s) IN c.pages[x].bytes + f[s \ {x}]]
           it == CHOOSE f : Iterates(f)
           cells == [s \in SUBSET S |-> Weight(b, s)]
<1>1. Lru(o)!BytesOf(c, S) = it[S]
  BY Zenon DEF Lru!BytesOf, Lru!MapThenSumSet, Lru!MapThenFoldSet
<1>2. \A s \in SUBSET S : s # {} =>
        any(s) \in s /\ Weight(b, s) = b[any(s)] + Weight(b, s \ {any(s)})
  <2> SUFFICES ASSUME NEW s \in SUBSET S, s # {}
               PROVE  any(s) \in s /\ Weight(b, s) = b[any(s)] + Weight(b, s \ {any(s)})
    OBVIOUS
  <2>1. any(s) \in s
    OBVIOUS
  <2> HIDE DEF any
  <2> DEFINE rest == s \ {any(s)}
  <2>2. /\ IsFiniteSet(rest) /\ any(s) \notin rest /\ rest \cup {any(s)} = s
        /\ Weight(b, rest) \in Nat
    BY <2>1, WeightGrows
  <2>3. b[any(s)] \in Nat /\ \A k \in rest : b[k] \in Nat
    BY <2>1
  <2> HIDE DEF rest
  <2>4. Weight(b, rest \cup {any(s)}) = Weight(b, rest) + b[any(s)]
    BY <2>2, <2>3, WeightAdds
  <2>5. Weight(b, s) = Weight(b, rest) + b[any(s)]
    BY <2>2, <2>4, Zenon
  <2>6. Weight(b, s) = b[any(s)] + Weight(b, rest)
    BY <2>2, <2>3, <2>5
  <2> QED
    BY <2>1, <2>6 DEF rest
<1> HIDE DEF any
<1>3. Weight(b, {}) = 0
  BY WeightFinite
<1>4. Iterates(cells)
  <2>1. \A s \in SUBSET S : Weight(b, s) =
          IF s = {} THEN 0 ELSE c.pages[any(s)].bytes + cells[s \ {any(s)}]
    BY <1>2, <1>3
  <2> QED
    BY <2>1
<1>5. Iterates(it)
  <2> HIDE DEF Iterates, cells
  <2> QED
    BY <1>4
<1> HIDE DEF it
<1>6. \A s \in SUBSET S : it[s] = IF s = {} THEN 0 ELSE c.pages[any(s)].bytes + it[s \ {any(s)}]
  BY <1>5
<1> DEFINE N == {n \in Nat : \A s \in SUBSET S : Cardinality(s) <= n => it[s] = Weight(b, s)}
<1>7. \A s \in SUBSET S : IsFiniteSet(s) /\ Cardinality(s) \in Nat
  BY FS_Subset, FS_CardinalityType
<1>8. 0 \in N
  <2>1. \A s \in SUBSET S : Cardinality(s) <= 0 => s = {}
    BY <1>7, FS_EmptySet
  <2> QED
    BY <1>3, <1>6, <2>1
<1>9. ASSUME NEW n \in Nat, n \in N PROVE n + 1 \in N
  <2>0. {} \in SUBSET S /\ it[{}] = Weight(b, {})
    BY <1>3, <1>6
  <2> SUFFICES ASSUME NEW s \in SUBSET S, Cardinality(s) <= n + 1, s # {}
               PROVE  it[s] = Weight(b, s)
    BY <2>0
  <2>1. Cardinality(s \ {any(s)}) = Cardinality(s) - 1
    BY <1>2, <1>7, FS_RemoveElement
  <2>2. Cardinality(s \ {any(s)}) <= n /\ s \ {any(s)} \in SUBSET S
    BY <1>7, <2>1
  <2>3. it[s \ {any(s)}] = Weight(b, s \ {any(s)})
    BY <1>9, <2>2
  <2> QED
    BY <1>2, <1>6, <2>3
<1>10. Cardinality(S) \in N
  <2> HIDE DEF N
  <2>1. Cardinality(S) \in Nat
    BY <1>7
  <2> QED
    BY <1>8, <1>9, <2>1, NatSetInduction
<1>11. it[S] = Weight(b, S)
  BY <1>7, <1>10
<1> QED
  BY <1>1, <1>11

(* The pages that an insert displaces, and those that stay.                *)
Gone(o, b, c, key) ==
  {v \in DOMAIN c.pages :
     Weight(b, {k \in DOMAIN c.pages : k = v \/ <<v, k>> \in c.older}) > o.hot_cache_bytes - b[key]}

Left(o, b, c, key) == DOMAIN c.pages \ Gone(o, b, c, key)

(* Its pages have the bytes that b says, and no layer has a budget.        *)
Weighed(b, c) ==
  /\ IsFiniteSet(DOMAIN c.pages) /\ DOMAIN c.budgets = {}
  /\ \A k \in DOMAIN c.pages : b[k] \in Nat /\ c.pages[k].bytes = b[k]

(* What is left, and the new page, used last.                              *)
Outdone(S, c, key, page) ==
  [pages   |-> [k \in S \cup {key} |-> IF k = key THEN page ELSE c.pages[k]],
   older   |-> (c.older \cap (S \X S)) \cup (S \X {key}),
   budgets |-> c.budgets]

LEMMA InsertedIs ==
  ASSUME NEW o, NEW b, NEW c, Weighed(b, c), NEW key, key \notin DOMAIN c.pages,
         NEW page, page.bytes = b[key]
  PROVE  Lru(o)!Inserted(c, key, page) = Outdone(Left(o, b, c, key), c, key, page)
<1> DEFINE R == DOMAIN c.pages
           D == Gone(o, b, c, key)
           S == R \ D
           others == Lru(o)!Without(c, {key})
           rest == Lru(o)!Without(others, {})
           room == o.hot_cache_bytes - b[key]
<1>1. others = [pages |-> [k \in R |-> c.pages[k]], older |-> c.older \cap (R \X R),
                budgets |-> c.budgets]
  <2>1. Lru(o)!Resident(c) \ {key} = R
    BY DEF Lru!Resident
  <2> QED
    BY <2>1, Zenon DEF Lru!Without, Lru!Among
<1>2. rest = others
  <2>1. Lru(o)!Resident(others) \ {} = R
    BY <1>1 DEF Lru!Resident
  <2>2. rest = [pages |-> [k \in R |-> others.pages[k]], older |-> others.older \cap (R \X R),
                budgets |-> others.budgets]
    BY <2>1, Zenon DEF Lru!Without, Lru!Among
  <2> HIDE DEF rest, others
  <2>3. (c.older \cap (R \X R)) \cap (R \X R) = c.older \cap (R \X R)
    OBVIOUS
  <2> QED
    BY <1>1, <2>2, <2>3
<1>3. Lru(o)!LayerDisplaced(others, ([start \in 0 .. o.context_tokens |-> 0])[key], page.bytes) = {}
  BY <1>1 DEF Lru!LayerDisplaced, Weighed
<1>4. Lru(o)!Resident(others) = R /\ Lru(o)!Resident(rest) = R
  BY <1>1, <1>2 DEF Lru!Resident
<1>5. Lru(o)!Displaced(rest, R, room) = D
  <2> SUFFICES ASSUME NEW v \in R
               PROVE  Lru(o)!BytesOf(rest, {k \in R : Lru(o)!AtLeastAsRecent(rest, k, v)}) =
                        Weight(b, {k \in R : k = v \/ <<v, k>> \in c.older})
    BY DEF Lru!Displaced, Gone
  <2> DEFINE T == {k \in R : k = v \/ <<v, k>> \in c.older}
  <2>1. {k \in R : Lru(o)!AtLeastAsRecent(rest, k, v)} = T
    <3>1. \A k \in R : <<v, k>> \in rest.older <=> <<v, k>> \in c.older
      BY <1>1, <1>2
    <3> QED
      BY <3>1 DEF Lru!AtLeastAsRecent
  <2>2. IsFiniteSet(T) /\ \A k \in T : b[k] \in Nat /\ rest.pages[k].bytes = b[k]
    <3>1. IsFiniteSet(T)
      <4>1. T \subseteq R /\ IsFiniteSet(R)
        BY DEF Weighed
      <4> HIDE DEF T, R
      <4> QED
        BY <4>1, FS_Subset
    <3>2. \A k \in R : rest.pages[k] = c.pages[k]
      BY <1>1, <1>2
    <3> QED
      BY <3>1, <3>2 DEF Weighed
  <2> HIDE DEF T, rest
  <2>3. Lru(o)!BytesOf(rest, T) = Weight(b, T)
    BY <2>2, BytesAreCells
  <2> QED
    BY <2>1, <2>3 DEF T
<1>6. Lru(o)!Victims(c, key, page) = D
  <2> DEFINE mine == Lru(o)!LayerDisplaced(others, ([start \in 0 .. o.context_tokens |-> 0])[key], page.bytes)
  <2>1. Lru(o)!Victims(c, key, page) =
          mine \cup Lru(o)!Displaced(Lru(o)!Without(others, mine),
                                     Lru(o)!Resident(Lru(o)!Without(others, mine)),
                                     o.hot_cache_bytes - page.bytes)
    BY Zenon DEF Lru!Victims
  <2>2. mine = {}
    BY <1>3
  <2> HIDE DEF mine, others, D
  <2> QED
    BY <1>4, <1>5, <2>1, <2>2
<1> DEFINE kept == Lru(o)!Without(c, D \cup {key})
<1>7. kept = [pages |-> [k \in S |-> c.pages[k]], older |-> c.older \cap (S \X S),
              budgets |-> c.budgets]
  <2>1. Lru(o)!Resident(c) \ (D \cup {key}) = S
    BY DEF Lru!Resident
  <2> HIDE DEF S, D
  <2> QED
    BY <2>1, Zenon DEF Lru!Without, Lru!Among
<1>8. Lru(o)!Resident(kept) = S
  BY <1>7 DEF Lru!Resident
<1>9. Lru(o)!UsedLast(kept.older, S, key) = (c.older \cap (S \X S)) \cup (S \X {key})
  <2>1. S \ {key} = S
    OBVIOUS
  <2>2. kept.older = c.older \cap (S \X S)
    BY <1>7
  <2> HIDE DEF S, kept
  <2>3. Lru(o)!UsedLast(kept.older, S, key) = (kept.older \cap (S \X S)) \cup (S \X {key})
    BY <2>1, Zenon DEF Lru!UsedLast, Lru!Among
  <2>4. (c.older \cap (S \X S)) \cap (S \X S) = c.older \cap (S \X S)
    OBVIOUS
  <2> QED
    BY <2>2, <2>3, <2>4
<1>10. Lru(o)!Inserted(c, key, page) =
         [pages   |-> [k \in S \cup {key} |-> IF k = key THEN page ELSE kept.pages[k]],
          older   |-> Lru(o)!UsedLast(kept.older, S, key),
          budgets |-> c.budgets]
  <2> HIDE DEF S, D
  <2> QED
    BY <1>6, <1>8, Zenon DEF Lru!Inserted
<1>11. [k \in S \cup {key} |-> IF k = key THEN page ELSE kept.pages[k]] =
       [k \in S \cup {key} |-> IF k = key THEN page ELSE c.pages[k]]
  BY <1>7
<1>12. S = Left(o, b, c, key)
  BY DEF Left
<1> HIDE DEF S, kept
<1> QED
  BY <1>9, <1>10, <1>11, <1>12, Zenon DEF Outdone

(* Use of a page leaves which pages there are.                             *)
Uses(n, c, key) ==
  /\ DOMAIN n = {"pages", "older", "budgets"} /\ n.pages = c.pages /\ n.budgets = c.budgets
  /\ n.older \subseteq c.older \cup ((DOMAIN c.pages) \X {key})

LEMMA TouchedIs ==
  ASSUME NEW o, NEW c, DOMAIN c = {"pages", "older", "budgets"}, NEW key
  PROVE  Uses(Lru(o)!Touched(c, key), c, key)
<1> DEFINE S == DOMAIN c.pages
           older == (c.older \cap ((S \ {key}) \X (S \ {key}))) \cup ((S \ {key}) \X {key})
           n == Lru(o)!Touched(c, key)
<1>1. n = [c EXCEPT !.older = Lru(o)!UsedLast(c.older, S, key)]
  BY DEF Lru!Touched, Lru!Resident
<1>2. Lru(o)!UsedLast(c.older, S, key) = older
  BY Zenon DEF Lru!UsedLast, Lru!Among
<1> HIDE DEF n, S
<1>3. older \subseteq c.older \cup (S \X {key})
  OBVIOUS
<1> HIDE DEF older
<1>4. n = [c EXCEPT !.older = older]
  BY <1>1, <1>2
<1>5. n.pages = c.pages /\ n.budgets = c.budgets /\ n.older = older
  BY <1>4
<1>6. DOMAIN n = {"pages", "older", "budgets"}
  BY <1>4
<1>7. n.older \subseteq c.older \cup (S \X {key})
  BY <1>3, <1>5, Zenon
<1>8. Uses(n, c, key)
  BY <1>5, <1>6, <1>7 DEF Uses, S
<1> QED
  BY <1>8, Zenon DEF n

-----------------------------------------------------------------------------
(* The pages of a context.                                                 *)

(* Options that are measured.                                              *)
Measurable(o) ==
  /\ o.context_tokens \in Nat \ {0} /\ o.page_tokens \in Nat \ {0} /\ o.head_dim \in Nat \ {0}
  /\ o.hot_cache_bytes \in Nat /\ o.recent_tokens \in Nat /\ o.admit \in BOOLEAN

StartOf(o, i) == (i - 1) * o.page_tokens

Starts(o) == {StartOf(o, i) : i \in 1 .. PageCount(o)}

PageBytes(o) ==
  [x \in Starts(o) |-> KvBytes(Min({o.page_tokens, o.context_tokens - x}), o.head_dim)]

(* The pages that the policy admits and the cache has room for.            *)
Kept(o) ==
  {x \in Starts(o) :
     /\ o.admit
     /\ NearFrontier(o.recent_tokens, x, Min({o.page_tokens, o.context_tokens - x}),
                     o.context_tokens)
     /\ PageBytes(o)[x] <= o.hot_cache_bytes}

LEMMA MinOfTwo ==
  ASSUME NEW a \in Int, NEW b \in Int
  PROVE  Min({a, b}) = IF a <= b THEN a ELSE b
<1> DEFINE m == IF a <= b THEN a ELSE b
<1>1. m \in {a, b} /\ \A i \in {a, b} : m <= i
  OBVIOUS
<1>2. \A k \in {a, b} : (\A i \in {a, b} : k <= i) => k = m
  OBVIOUS
<1> HIDE DEF m
<1>3. Min({a, b}) = m
  BY <1>1, <1>2, Zenon DEF Min
<1> QED
  BY <1>3 DEF m

LEMMA StartFacts ==
  ASSUME NEW o, Measurable(o)
  PROVE  /\ PageCount(o) \in Nat \ {0} /\ IsFiniteSet(Starts(o))
         /\ \A i \in 1 .. PageCount(o) : StartOf(o, i) \in Starts(o)
         /\ \A x \in Starts(o) : x \in Nat /\ PageBytes(o)[x] \in Nat
         /\ Kept(o) \subseteq Starts(o) /\ IsFiniteSet(Kept(o))
<1> DEFINE P == PageCount(o)
           c == o.context_tokens
           t == o.page_tokens
<1>1. c \in Nat \ {0} /\ t \in Nat \ {0} /\ o.head_dim \in Nat
  BY DEF Measurable
<1> HIDE DEF c, t
<1>2. P \in Nat /\ c + t - 1 = t * P + ((c + t - 1) % t) /\ (c + t - 1) % t \in 0 .. t - 1
  <2>1. c + t - 1 \in Nat
    BY <1>1
  <2>2. P = (c + t - 1) \div t
    BY DEF PageCount, c, t
  <2> HIDE DEF P
  <2> QED
    BY <1>1, <2>1, <2>2, Division
<1> HIDE DEF P
<1>3. P # 0
  <2> SUFFICES ASSUME P = 0 PROVE FALSE
    OBVIOUS
  <2>1. t * P = 0
    BY <1>1
  <2> QED
    BY <1>1, <1>2, <2>1
<1>4. ASSUME NEW i \in 1 .. P PROVE StartOf(o, i) \in Nat /\ StartOf(o, i) < c
  <2>1. i - 1 \in Nat /\ P - 1 \in Nat /\ i - 1 <= P - 1
    BY <1>2, <1>3
  <2>2. (i - 1) * t \in Nat /\ (i - 1) * t <= (P - 1) * t /\ (P - 1) * t = t * P - t
    <3> DEFINE j == i - 1
               q == P - 1
    <3>1. j \in Nat /\ q \in Nat /\ j <= q /\ P = q + 1
      BY <1>2, <2>1
    <3> HIDE DEF j, q
    <3>2. j * t \in Nat /\ j * t <= q * t /\ q * t = t * (q + 1) - t
      BY <1>1, <3>1, SMT
    <3> QED
      BY <3>1, <3>2 DEF j, q
  <2>3. t * P \in Nat /\ t * P <= c + t - 1
    BY <1>1, <1>2
  <2> QED
    BY <1>1, <2>2, <2>3 DEF StartOf, t
<1>5. \A x \in Starts(o) : x \in Nat /\ x < c
  BY <1>4 DEF Starts, P
<1>6. ASSUME NEW x \in Starts(o) PROVE PageBytes(o)[x] \in Nat
  <2> DEFINE m == Min({t, c - x})
  <2>1. m \in Nat
    BY <1>1, <1>5, MinOfTwo
  <2> HIDE DEF m
  <2>2. m * o.head_dim * 4 * 2 \in Nat
    BY <1>1, <2>1
  <2> QED
    BY <2>2 DEF PageBytes, KvBytes, m, c, t
<1>7. IsFiniteSet(Starts(o))
  <2> DEFINE f == [i \in 1 .. P |-> StartOf(o, i)]
  <2>1. f \in Surjection(1 .. P, Starts(o))
    BY DEF Surjection, Starts, P
  <2>2. IsFiniteSet(1 .. P)
    BY <1>2, FS_Interval
  <2> QED
    BY <2>1, <2>2, FS_Surjection
<1>8. Kept(o) \subseteq Starts(o)
  BY DEF Kept
<1>9. IsFiniteSet(Kept(o))
  BY <1>7, <1>8, FS_Subset
<1>10. \A i \in 1 .. P : StartOf(o, i) \in Starts(o)
  BY DEF Starts, P
<1> QED
  BY <1>2, <1>3, <1>5, <1>6, <1>7, <1>8, <1>9, <1>10 DEF P

(* Pages come one after the other.                                         *)
LEMMA StartsAscend ==
  ASSUME NEW o, Measurable(o), NEW i \in 1 .. PageCount(o), NEW k \in 0 .. PageCount(o)
  PROVE  (StartOf(o, i) < k * o.page_tokens) <=> i <= k
<1> DEFINE j == i - 1
           t == o.page_tokens
<1>1. t \in Nat \ {0} /\ i \in Nat /\ k \in Nat /\ j \in Nat /\ i = j + 1
  BY StartFacts DEF Measurable
<1> HIDE DEF j, t
<1>2. CASE i <= k
  <2>1. j < k
    BY <1>1, <1>2
  <2>2. j * t < k * t
    BY <1>1, <2>1, SMT
  <2> QED
    BY <1>2, <2>2 DEF StartOf, j, t
<1>3. CASE ~(i <= k)
  <2>1. k <= j
    BY <1>1, <1>3
  <2>2. k * t <= j * t /\ k * t \in Nat /\ j * t \in Nat
    BY <1>1, <2>1, SMT
  <2>3. ~(j * t < k * t)
    BY <2>2
  <2> QED
    BY <1>3, <2>3 DEF StartOf, j, t
<1> QED
  BY <1>2, <1>3

-----------------------------------------------------------------------------
(* One page.                                                               *)
CacheStates(o) ==
  [pages   : UNION {[R -> [bytes : Nat]] : R \in SUBSET Starts(o)},
   older   : SUBSET (Starts(o) \X Starts(o)),
   budgets : {[l \in {} |-> l]}]

RunStates(o) == [cache : CacheStates(o), hot_hits : Nat, cold_regenerations : Nat]

(* Only pages to keep are resident, with the bytes they have.              *)
Conforms(o, c) ==
  /\ c \in CacheStates(o)
  /\ \A k \in DOMAIN c.pages : k \in Kept(o) /\ c.pages[k].bytes = PageBytes(o)[k]

LEMMA CacheStateFacts ==
  ASSUME NEW o, Measurable(o), NEW c \in CacheStates(o)
  PROVE  /\ DOMAIN c = {"pages", "older", "budgets"} /\ DOMAIN c.pages \in SUBSET Starts(o)
         /\ DOMAIN c.budgets = {} /\ IsFiniteSet(DOMAIN c.pages)
         /\ c.pages \in [DOMAIN c.pages -> [bytes : Nat]]
<1>1. PICK R \in SUBSET Starts(o) : c.pages \in [R -> [bytes : Nat]]
  BY DEF CacheStates
<1>2. DOMAIN c.pages = R
  BY <1>1
<1>3. IsFiniteSet(R)
  BY <1>1, StartFacts, FS_Subset
<1> QED
  BY <1>1, <1>2, <1>3 DEF CacheStates

LEMMA ConformsWeighed ==
  ASSUME NEW o, Measurable(o), NEW c, Conforms(o, c)
  PROVE  Weighed(PageBytes(o), c)
BY CacheStateFacts, StartFacts DEF Weighed, Conforms

LEMMA NothingConforms ==
  ASSUME NEW o
  PROVE  /\ Conforms(o, Lru(o)!EmptyCache) /\ DOMAIN Lru(o)!EmptyCache.pages = {}
<1>1. Lru(o)!EmptyCache = [pages |-> [k \in {} |-> k], older |-> {}, budgets |-> [l \in {} |-> l]]
  BY DEF Lru!EmptyCache
<1>2. [k \in {} |-> k] \in [{} -> [bytes : Nat]] /\ {} \in SUBSET Starts(o)
  OBVIOUS
<1>3. [k \in {} |-> k] \in UNION {[R -> [bytes : Nat]] : R \in SUBSET Starts(o)}
  BY <1>2
<1> QED
  BY <1>1, <1>3 DEF Conforms, CacheStates

(* What becomes of a page that is resident, is to be kept, or neither.     *)
Outcome(o, s, x) ==
  IF x \in DOMAIN s.cache.pages THEN Hot(s, Lru(o)!Touched(s.cache, x))
  ELSE IF x \in Kept(o)
    THEN Regenerated(s, Lru(o)!Inserted(s.cache, x, [bytes |-> PageBytes(o)[x]]))
  ELSE Regenerated(s, s.cache)

LEMMA AttendPageIs ==
  ASSUME NEW o, Measurable(o), NEW s, DOMAIN s.cache.budgets = {}, NEW x \in Starts(o)
  PROVE  AttendPage(o, s, x) = Outcome(o, s, x)
<1> DEFINE tokens == Min({o.page_tokens, o.context_tokens - x})
           page == [bytes |-> KvBytes(tokens, o.head_dim)]
           admit == o.admit /\ NearFrontier(o.recent_tokens, x, tokens, o.context_tokens)
<1>1. AttendPage(o, s, x) =
        IF x \in DOMAIN s.cache.pages THEN Hot(s, Lru(o)!Touched(s.cache, x))
        ELSE IF admit /\ ~Lru(o)!TooLarge(s.cache, x, page)
          THEN Regenerated(s, Lru(o)!Inserted(s.cache, x, page))
        ELSE Regenerated(s, s.cache)
  BY Zenon DEF AttendPage
<1>2. PageBytes(o)[x] = KvBytes(tokens, o.head_dim)
  BY DEF PageBytes
<1>3. page = [bytes |-> PageBytes(o)[x]] /\ page.bytes = PageBytes(o)[x]
  BY <1>2
<1>4. Lru(o)!TooLarge(s.cache, x, page) <=> page.bytes > o.hot_cache_bytes
  BY DEF Lru!TooLarge
<1>5. PageBytes(o)[x] \in Nat /\ o.hot_cache_bytes \in Nat
  BY StartFacts DEF Measurable
<1>6. x \in Kept(o) <=> admit /\ PageBytes(o)[x] <= o.hot_cache_bytes
  BY DEF Kept
<1> HIDE DEF tokens, page, admit
<1>7. admit /\ ~Lru(o)!TooLarge(s.cache, x, page) <=> x \in Kept(o)
  <2> DEFINE big == Lru(o)!TooLarge(s.cache, x, page)
  <2>1. big <=> page.bytes > o.hot_cache_bytes
    BY <1>4, Zenon DEF big
  <2> HIDE DEF big
  <2>2. admit /\ ~big <=> x \in Kept(o)
    BY <1>3, <1>5, <1>6, <2>1
  <2> QED
    BY <2>2, Zenon DEF big
<1> QED
  BY <1>1, <1>3, <1>7, Zenon DEF Outcome

(* A hit, and an insert, leave pages of the benchmark.                     *)
LEMMA TouchConforms ==
  ASSUME NEW o, Measurable(o), NEW c, Conforms(o, c), NEW x \in DOMAIN c.pages
  PROVE  LET n == Lru(o)!Touched(c, x)
         IN  Conforms(o, n) /\ DOMAIN n.pages = DOMAIN c.pages
<1> DEFINE n == Lru(o)!Touched(c, x)
<1>1. c \in CacheStates(o) /\ DOMAIN c = {"pages", "older", "budgets"}
      /\ DOMAIN c.pages \subseteq Starts(o)
  BY CacheStateFacts DEF Conforms
<1>2. Uses(n, c, x)
  BY <1>1, TouchedIs
<1> HIDE DEF n
<1>3. n.pages = c.pages /\ n.budgets = c.budgets /\ DOMAIN n = {"pages", "older", "budgets"}
  BY <1>2 DEF Uses
<1>4. n.older \in SUBSET (Starts(o) \X Starts(o))
  <2>1. c.older \in SUBSET (Starts(o) \X Starts(o))
    BY <1>1 DEF CacheStates
  <2>2. (DOMAIN c.pages) \X {x} \subseteq Starts(o) \X Starts(o)
    BY <1>1
  <2> QED
    BY <1>2, <2>1, <2>2 DEF Uses
<1>5. n = [pages |-> n.pages, older |-> n.older, budgets |-> n.budgets]
  <2>1. n = [c EXCEPT !.older = Lru(o)!UsedLast(c.older, Lru(o)!Resident(c), x)]
    BY Zenon DEF Lru!Touched, n
  <2> QED
    BY <1>1, <1>3, <2>1
<1>6. n \in CacheStates(o)
  BY <1>1, <1>3, <1>4, <1>5 DEF CacheStates
<1>7. Conforms(o, n) /\ DOMAIN n.pages = DOMAIN c.pages
  BY <1>3, <1>6 DEF Conforms
<1> QED
  BY <1>7, Zenon DEF n

Inserts(o, n, c, x) ==
  LET S == Left(o, PageBytes(o), c, x)
  IN  /\ DOMAIN n.pages = S \cup {x}
      /\ n.older = (c.older \cap (S \X S)) \cup (S \X {x})

LEMMA InsertConforms ==
  ASSUME NEW o, Measurable(o), NEW c, Conforms(o, c), NEW x \in Kept(o), x \notin DOMAIN c.pages
  PROVE  LET n == Lru(o)!Inserted(c, x, [bytes |-> PageBytes(o)[x]])
         IN  Conforms(o, n) /\ Inserts(o, n, c, x)
<1> DEFINE b == PageBytes(o)
           page == [bytes |-> b[x]]
           n == Lru(o)!Inserted(c, x, page)
           S == Left(o, b, c, x)
           pages == [k \in S \cup {x} |-> IF k = x THEN page ELSE c.pages[k]]
           older == (c.older \cap (S \X S)) \cup (S \X {x})
<1>1. /\ c \in CacheStates(o) /\ DOMAIN c.pages \subseteq Starts(o)
      /\ c.pages \in [DOMAIN c.pages -> [bytes : Nat]]
      /\ \A k \in DOMAIN c.pages : k \in Kept(o) /\ c.pages[k].bytes = b[k]
  BY CacheStateFacts DEF Conforms
<1>2. page.bytes = b[x] /\ Weighed(b, c)
  BY ConformsWeighed
<1>3. n = [pages |-> pages, older |-> older, budgets |-> c.budgets]
  <2> HIDE DEF b, page
  <2>1. Lru(o)!Inserted(c, x, page) = Outdone(Left(o, b, c, x), c, x, page)
    BY <1>2, InsertedIs
  <2> QED
    BY <2>1, Zenon DEF Outdone
<1>4. S \subseteq DOMAIN c.pages
  BY DEF Left
<1>5. x \in Starts(o) /\ b[x] \in Nat
  BY StartFacts
<1>6. page \in [bytes : Nat]
  BY <1>5
<1> HIDE DEF page, S, b, n
<1>7. pages \in [S \cup {x} -> [bytes : Nat]] /\ S \cup {x} \in SUBSET Starts(o)
  BY <1>1, <1>4, <1>5, <1>6
<1>8. pages \in UNION {[R -> [bytes : Nat]] : R \in SUBSET Starts(o)}
  BY <1>7
<1>9. older \in SUBSET (Starts(o) \X Starts(o))
  <2>1. S \X {x} \subseteq Starts(o) \X Starts(o)
    BY <1>1, <1>4, <1>5
  <2>2. c.older \cap (S \X S) \subseteq Starts(o) \X Starts(o)
    BY <1>1, <1>4
  <2> QED
    BY <2>1, <2>2
<1>10. \A k \in S \cup {x} : k \in Kept(o) /\ pages[k].bytes = b[k]
  BY <1>1, <1>2, <1>4
<1>11. DOMAIN pages = S \cup {x}
  OBVIOUS
<1> HIDE DEF pages, older
<1>12. n.pages = pages /\ n.older = older /\ n.budgets = c.budgets
  BY <1>3
<1>13. n \in CacheStates(o)
  BY <1>1, <1>3, <1>8, <1>9 DEF CacheStates
<1>14. Conforms(o, n)
  BY <1>10, <1>11, <1>12, <1>13 DEF Conforms, b
<1>15. Inserts(o, n, c, x)
  BY <1>11, <1>12, Zenon DEF Inserts, older, S, b
<1> QED
  BY <1>14, <1>15, Zenon DEF n, page, b

-----------------------------------------------------------------------------
(* The cache over a run.                                                   *)
AllBytes(o) == Weight(PageBytes(o), Kept(o))

(* If all pages to be kept fit, nothing is displaced.                      *)
LEMMA RoomForAll ==
  ASSUME NEW o, Measurable(o), AllBytes(o) <= o.hot_cache_bytes, NEW c, Conforms(o, c),
         NEW x \in Kept(o), x \notin DOMAIN c.pages
  PROVE  Left(o, PageBytes(o), c, x) = DOMAIN c.pages
<1> DEFINE b == PageBytes(o)
           R == DOMAIN c.pages
<1>1. /\ IsFiniteSet(R) /\ R \subseteq Kept(o) /\ IsFiniteSet(Kept(o)) /\ x \notin R
      /\ \A k \in Kept(o) : b[k] \in Nat
  BY CacheStateFacts, StartFacts DEF Conforms
<1> HIDE DEF b, R
<1>2. ASSUME NEW T \in SUBSET R PROVE ~(Weight(b, T) > o.hot_cache_bytes - b[x])
  <2>1. \A k \in R : b[k] \in Nat
    BY <1>1
  <2>2. Weight(b, T) <= Weight(b, R) /\ Weight(b, T) \in Nat
    BY <1>1, <2>1, WeightGrows
  <2>3. Weight(b, R \cup {x}) = Weight(b, R) + b[x] /\ Weight(b, R) \in Nat
    BY <1>1, <2>1, WeightAdds, WeightFinite
  <2>4. R \cup {x} \in SUBSET Kept(o)
    BY <1>1
  <2>5. Weight(b, R \cup {x}) <= Weight(b, Kept(o)) /\ Weight(b, Kept(o)) \in Nat
    BY <1>1, <2>4, WeightGrows, WeightFinite
  <2>6. Weight(b, Kept(o)) <= o.hot_cache_bytes /\ o.hot_cache_bytes \in Nat /\ b[x] \in Nat
    BY <1>1 DEF AllBytes, b, Measurable
  <2> QED
    BY <2>2, <2>3, <2>5, <2>6
<1>3. Gone(o, b, c, x) = {}
  <2>1. \A v \in R : {k \in R : k = v \/ <<v, k>> \in c.older} \in SUBSET R
    OBVIOUS
  <2> QED
    BY <1>2, <2>1, Zenon DEF Gone, R
<1> QED
  BY <1>3 DEF Left, b, R

(* Otherwise the cache goes in circles.  The pages before `next` were used *)
(* in this run, the others in the run before; and of the pages to be kept, *)
(* with each that is resident the ones used after it are.                  *)
Earlier(next, x, y) ==
  \/ next <= x /\ y < next
  \/ x < y /\ (x < next <=> y < next)

Circles(o, c, next) ==
  LET R == DOMAIN c.pages
  IN  /\ Weight(PageBytes(o), R) <= o.hot_cache_bytes
      /\ \A x, y \in R : <<x, y>> \in c.older <=> Earlier(next, x, y)
      /\ \A x \in R, y \in Kept(o) : Earlier(next, x, y) => y \in R

(* A page comes round only when it is the least recently used one.         *)
LEMMA NeverHot ==
  ASSUME NEW o, Measurable(o), ~(AllBytes(o) <= o.hot_cache_bytes), NEW c, Conforms(o, c),
         NEW next \in Starts(o), Circles(o, c, next)
  PROVE  next \notin DOMAIN c.pages
<1> SUFFICES ASSUME next \in DOMAIN c.pages PROVE FALSE
  OBVIOUS
<1>1. \A y \in Kept(o) : y \in Nat /\ next \in Nat
  BY StartFacts
<1>2. \A y \in Kept(o) : y = next \/ Earlier(next, next, y)
  BY <1>1 DEF Earlier
<1>3. DOMAIN c.pages = Kept(o)
  BY <1>2 DEF Circles, Conforms
<1> QED
  BY <1>3 DEF Circles, AllBytes

(* The order goes on with the page.                                        *)
LEMMA EarlierMoves ==
  ASSUME NEW next \in Nat, NEW after \in Nat, NEW x \in Nat, NEW y \in Nat,
         next < after,
         x < after <=> x < next \/ x = next, y < after <=> y < next \/ y = next
  PROVE  /\ x # next /\ y # next => (Earlier(after, x, y) <=> Earlier(next, x, y))
         /\ ~Earlier(after, next, y) \/ y = next
         /\ x # next => Earlier(after, x, next)
         /\ ~Earlier(after, x, x)
BY DEF Earlier

LEMMA Untouched ==
  ASSUME NEW o, Measurable(o), NEW c, Conforms(o, c), NEW next \in Starts(o),
         Circles(o, c, next), NEW after \in Nat, next \notin Kept(o),
         \A x \in Starts(o) : x < after <=> x < next \/ x = next
  PROVE  Circles(o, c, after)
<1>1. /\ Kept(o) \subseteq Starts(o) /\ \A x \in Starts(o) : x \in Nat
      /\ DOMAIN c.pages \subseteq Kept(o)
  BY StartFacts DEF Conforms
<1>2. ASSUME NEW x \in Kept(o), NEW y \in Kept(o) PROVE Earlier(after, x, y) <=> Earlier(next, x, y)
  <2>1. x # next /\ y # next /\ x \in Nat /\ y \in Nat /\ next \in Nat /\ next < after
    BY <1>1
  <2>2. (x < after <=> x < next \/ x = next) /\ (y < after <=> y < next \/ y = next)
    BY <1>1
  <2> QED
    BY <2>1, <2>2, EarlierMoves
<1> QED
  BY <1>1, <1>2 DEF Circles

LEMMA InsertCircles ==
  ASSUME NEW o, Measurable(o), NEW c, Conforms(o, c), NEW next \in Kept(o),
         Circles(o, c, next), NEW after \in Nat, next \notin DOMAIN c.pages,
         \A x \in Starts(o) : x < after <=> x < next \/ x = next,
         NEW n, Inserts(o, n, c, next)
  PROVE  Circles(o, n, after)
<1> DEFINE b == PageBytes(o)
           R == DOMAIN c.pages
           S == Left(o, b, c, next)
           younger(v) == {k \in R : k = v \/ <<v, k>> \in c.older}
           room == o.hot_cache_bytes - b[next]
<1>1. /\ Kept(o) \subseteq Starts(o) /\ \A x \in Starts(o) : x \in Nat /\ b[x] \in Nat
      /\ R \subseteq Kept(o) /\ IsFiniteSet(R) /\ next \in Nat /\ o.hot_cache_bytes \in Nat
  BY StartFacts, CacheStateFacts DEF Conforms, Measurable
<1>2. /\ DOMAIN n.pages = S \cup {next}
      /\ n.older = (c.older \cap (S \X S)) \cup (S \X {next})
  BY Zenon DEF Inserts
<1>3. S \subseteq R /\ \A v \in R : v \in S <=> ~(Weight(b, younger(v)) > room)
  BY DEF Left, Gone
<1>4. /\ \A x, y \in R : <<x, y>> \in c.older <=> Earlier(next, x, y)
      /\ \A x \in R, y \in Kept(o) : Earlier(next, x, y) => y \in R
  BY DEF Circles
<1> HIDE DEF b, R, S, younger, room
<1>5. ASSUME NEW x \in Kept(o), NEW y \in Kept(o)
      PROVE  /\ x # next /\ y # next => (Earlier(after, x, y) <=> Earlier(next, x, y))
             /\ ~Earlier(after, next, y) \/ y = next
             /\ x # next => Earlier(after, x, next)
             /\ ~Earlier(after, x, x)
             /\ x \in Nat /\ y \in Nat
  <2>1. x \in Nat /\ y \in Nat /\ next \in Nat /\ next < after
    BY <1>1
  <2>2. (x < after <=> x < next \/ x = next) /\ (y < after <=> y < next \/ y = next)
    BY <1>1
  <2> QED
    BY <2>1, <2>2, EarlierMoves
<1>6. next \notin S /\ next \in Kept(o) /\ S \subseteq Kept(o)
  BY <1>1, <1>3 DEF R
<1>7. ASSUME NEW v \in R
      PROVE  Weight(b, younger(v)) \in Nat /\ younger(v) \in SUBSET R /\ IsFiniteSet(younger(v))
  <2>1. younger(v) \in SUBSET R
    BY DEF younger
  <2>2. \A k \in R : b[k] \in Nat
    BY <1>1
  <2> QED
    BY <1>1, <2>1, <2>2, WeightGrows
(* What was used after a page that stays, stays.                           *)
<1>8. ASSUME NEW x \in S, NEW y \in R, Earlier(next, x, y) PROVE y \in S
  <2>1. younger(y) \subseteq younger(x)
    <3> SUFFICES ASSUME NEW k \in R, k = y \/ Earlier(next, y, k)
                 PROVE  k = x \/ Earlier(next, x, k)
      BY <1>3, <1>4 DEF younger
    <3>1. x \in Nat /\ y \in Nat /\ k \in Nat
      BY <1>1, <1>3
    <3> QED
      BY <1>1, <1>8, <3>1 DEF Earlier
  <2>2. x \in R
    BY <1>3
  <2>3. \A k \in younger(x) : b[k] \in Nat
    BY <1>1, <1>7, <2>2
  <2>4. Weight(b, younger(y)) <= Weight(b, younger(x))
    BY <1>7, <2>1, <2>2, <2>3, WeightGrows
  <2>5. Weight(b, younger(x)) \in Nat /\ Weight(b, younger(y)) \in Nat /\ room \in Int
    BY <1>1, <1>6, <1>7, <2>2 DEF room
  <2> QED
    BY <1>3, <2>2, <2>4, <2>5
(* What stays leaves room, since it is what was used since the oldest.     *)
<1>9. Weight(b, S) <= room /\ Weight(b, S) \in Nat
  <2>1. IsFiniteSet(S) /\ Weight(b, S) \in Nat
    <3>1. \A k \in R : b[k] \in Nat
      BY <1>1
    <3> QED
      BY <1>1, <1>3, <3>1, WeightGrows
  <2>2. CASE S = {}
    <3>1. Weight(b, S) = 0
      BY <2>1, <2>2, WeightFinite
    <3>2. b[next] <= o.hot_cache_bytes
      BY DEF Kept, b
    <3> QED
      BY <1>1, <1>6, <2>1, <3>1, <3>2 DEF room
  <2>3. CASE S # {}
    <3>1. PICK v \in S : \A k \in S : k = v \/ Earlier(next, v, k)
      <4>1. CASE \E k \in S : next <= k
        <5> DEFINE T == {k \in S : next <= k}
        <5>1. T \subseteq Nat /\ T # {}
          BY <1>1, <1>6, <4>1
        <5> HIDE DEF T
        <5>2. PICK v \in T : \A k \in T : ~ (<<k, v>> \in OpToRel(<, Nat))
          BY <5>1, WFMin, NatLessThanWellFounded
        <5>3. v \in S /\ next <= v /\ v \in Nat
          BY <5>1, <5>2 DEF T
        <5>4. \A k \in T : ~(k < v)
          BY <5>1, <5>2 DEF OpToRel
        <5>5. ASSUME NEW k \in S PROVE k = v \/ Earlier(next, v, k)
          <6>1. k \in Nat
            BY <1>1, <1>6
          <6>2. next <= k => ~(k < v)
            BY <5>4 DEF T
          <6> QED
            BY <1>1, <5>3, <6>1, <6>2 DEF Earlier
        <5> QED
          BY <5>3, <5>5
      <4>2. CASE ~\E k \in S : next <= k
        <5>1. S \subseteq Nat
          BY <1>1, <1>6
        <5>2. PICK v \in S : \A k \in S : ~ (<<k, v>> \in OpToRel(<, Nat))
          BY <2>3, <5>1, WFMin, NatLessThanWellFounded
        <5>3. \A k \in S : ~(k < v)
          BY <5>1, <5>2 DEF OpToRel
        <5>4. ASSUME NEW k \in S PROVE k = v \/ Earlier(next, v, k)
          <6>1. k \in Nat /\ v \in Nat /\ ~(k < v) /\ ~(next <= k) /\ ~(next <= v)
            BY <4>2, <5>1, <5>3
          <6> QED
            BY <1>1, <6>1 DEF Earlier
        <5> QED
          BY <5>4
      <4> QED
        BY <4>1, <4>2
    <3>2. S \subseteq younger(v) /\ v \in R
      BY <1>3, <1>4, <3>1 DEF younger
    <3>3. \A k \in younger(v) : b[k] \in Nat
      BY <1>1, <1>7, <3>2
    <3>4. Weight(b, S) <= Weight(b, younger(v)) /\ Weight(b, younger(v)) \in Nat
      BY <1>7, <3>2, <3>3, WeightGrows
    <3>5. ~(Weight(b, younger(v)) > room) /\ room \in Int
      BY <1>1, <1>3, <1>6, <3>1 DEF room
    <3> QED
      BY <2>1, <3>4, <3>5
  <2> QED
    BY <2>2, <2>3
<1>10. Weight(b, S \cup {next}) <= o.hot_cache_bytes
  <2>1. IsFiniteSet(S) /\ (\A k \in S : b[k] \in Nat) /\ b[next] \in Nat
    <3>1. IsFiniteSet(S)
      BY <1>1, <1>3, FS_Subset
    <3> QED
      BY <1>1, <1>6, <3>1
  <2>2. Weight(b, S \cup {next}) = Weight(b, S) + b[next]
    BY <1>6, <2>1, WeightAdds
  <2> QED
    BY <1>1, <1>9, <2>1, <2>2 DEF room
<1>11. ASSUME NEW x \in S \cup {next}, NEW y \in S \cup {next}
       PROVE  <<x, y>> \in n.older <=> Earlier(after, x, y)
  <2>1. x \in Kept(o) /\ y \in Kept(o)
    BY <1>6
  <2>2. CASE x \in S /\ y \in S
    <3>1. <<x, y>> \in n.older <=> <<x, y>> \in c.older
      BY <1>2, <1>6, <2>2
    <3>2. x \in R /\ y \in R /\ x # next /\ y # next
      BY <1>3, <1>6, <2>2
    <3> QED
      BY <1>4, <1>5, <2>1, <3>1, <3>2
  <2>3. CASE x \in S /\ y = next
    <3>1. <<x, y>> \in n.older
      BY <1>2, <2>3
    <3> QED
      BY <1>5, <1>6, <2>1, <2>3, <3>1
  <2>4. CASE x = next
    <3>1. <<x, y>> \notin n.older
      BY <1>2, <1>6, <2>4
    <3>2. ~Earlier(after, x, y)
      BY <1>5, <2>1, <2>4
    <3> QED
      BY <3>1, <3>2
  <2> QED
    BY <2>2, <2>3, <2>4
<1>12. ASSUME NEW x \in S \cup {next}, NEW y \in Kept(o), Earlier(after, x, y)
       PROVE  y \in S \cup {next}
  <2>1. x \in Kept(o)
    BY <1>6
  <2>2. x # next \/ y = next
    BY <1>5, <1>12, <2>1
  <2>3. CASE x # next /\ y # next
    <3>1. x \in S /\ x \in R /\ Earlier(next, x, y)
      BY <1>3, <1>5, <1>12, <2>1, <2>3
    <3> QED
      BY <1>4, <1>8, <3>1
  <2> QED
    BY <2>2, <2>3
<1> QED
  BY <1>2, <1>10, <1>11, <1>12 DEF Circles, b

-----------------------------------------------------------------------------
(* A run, page by page.                                                    *)
ConformStates(o) == {s \in RunStates(o) : Conforms(o, s.cache)}

Counters(s, t, hits, regenerations) ==
  /\ t.hot_hits = s.hot_hits + hits
  /\ t.cold_regenerations = s.cold_regenerations + regenerations

LEMMA OutcomeFacts ==
  ASSUME NEW o, Measurable(o), NEW s \in ConformStates(o), NEW x \in Starts(o)
  PROVE  LET t == Outcome(o, s, x)
             R == DOMAIN s.cache.pages
         IN  /\ t \in ConformStates(o)
             /\ x \in R => Counters(s, t, 1, 0) /\ DOMAIN t.cache.pages = R
             /\ x \notin R => Counters(s, t, 0, 1)
             /\ x \notin R /\ x \notin Kept(o) => t.cache = s.cache
             /\ x \notin R /\ x \in Kept(o) => Inserts(o, t.cache, s.cache, x)
<1> DEFINE t == Outcome(o, s, x)
           R == DOMAIN s.cache.pages
<1>1. /\ Conforms(o, s.cache) /\ s.cache \in CacheStates(o)
      /\ s.hot_hits \in Nat /\ s.cold_regenerations \in Nat
  BY DEF ConformStates, RunStates
<1>2. ASSUME NEW c, Conforms(o, c)
      PROVE  /\ Hot(s, c) \in ConformStates(o) /\ Regenerated(s, c) \in ConformStates(o)
             /\ Counters(s, Hot(s, c), 1, 0) /\ Counters(s, Regenerated(s, c), 0, 1)
             /\ Hot(s, c).cache = c /\ Regenerated(s, c).cache = c
  <2>1. c \in CacheStates(o)
    BY <1>2 DEF Conforms
  <2> QED
    BY <1>1, <1>2, <2>1 DEF Hot, Regenerated, ConformStates, RunStates, Counters
<1>3. CASE x \in R
  <2> DEFINE c == Lru(o)!Touched(s.cache, x)
  <2>1. Conforms(o, c) /\ DOMAIN c.pages = R
    BY <1>1, <1>3, TouchConforms
  <2>2. t = Hot(s, c)
    BY <1>3, Zenon DEF Outcome
  <2> HIDE DEF c, t
  <2>3. t \in ConformStates(o) /\ Counters(s, t, 1, 0) /\ t.cache = c
    BY <1>2, <2>1, <2>2
  <2> QED
    BY <1>3, <2>1, <2>3 DEF t
<1>4. CASE x \notin R /\ x \in Kept(o)
  <2> DEFINE c == Lru(o)!Inserted(s.cache, x, [bytes |-> PageBytes(o)[x]])
  <2>1. Conforms(o, c) /\ Inserts(o, c, s.cache, x)
    BY <1>1, <1>4, InsertConforms
  <2>2. t = Regenerated(s, c)
    BY <1>4, Zenon DEF Outcome
  <2> HIDE DEF c, t
  <2>3. t \in ConformStates(o) /\ Counters(s, t, 0, 1) /\ t.cache = c
    BY <1>2, <2>1, <2>2
  <2> QED
    BY <1>4, <2>1, <2>3 DEF t
<1>5. CASE x \notin R /\ x \notin Kept(o)
  <2>1. t = Regenerated(s, s.cache)
    BY <1>5, Zenon DEF Outcome
  <2> HIDE DEF t
  <2>2. t \in ConformStates(o) /\ Counters(s, t, 0, 1) /\ t.cache = s.cache
    BY <1>1, <1>2, <2>1
  <2> QED
    BY <1>5, <2>2 DEF t
<1> QED
  BY <1>3, <1>4, <1>5

PageByPage(g, o, s) ==
  /\ g \in [0 .. PageCount(o) -> ConformStates(o)] /\ g[0] = s
  /\ \A k \in 1 .. PageCount(o) : g[k] = Outcome(o, g[k - 1], StartOf(o, k))

(* The fold of the model goes over the pages.                              *)
LEMMA AttendByPages ==
  ASSUME NEW o, Measurable(o), NEW s \in ConformStates(o)
  PROVE  \E g : PageByPage(g, o, s) /\ Attend(o, s) = g[PageCount(o)]
<1> DEFINE n == PageCount(o)
           V == ConformStates(o)
           seq == [page \in 1 .. n |-> page]
           D == DOMAIN seq
           Iterates(f) ==
             f = [S \in SUBSET D |-> IF S = {} THEN s
                                     ELSE LET x == Max(S)
                                          IN  AttendPage(o, f[S \ {x}], (seq[x] - 1) * o.page_tokens)]
           it == CHOOSE f : Iterates(f)
           step == [p \in (1 .. n) \X V |-> Outcome(o, p[2], StartOf(o, p[1]))]
<1>1. Attend(o, s) = it[D]
  BY Zenon DEF Attend, FoldLeft, MapThenFoldSet
<1>2. D = 1 .. n /\ n \in Nat /\ \A k \in 1 .. n : seq[k] = k
  BY StartFacts
<1>3. \A k \in 1 .. n, t \in V :
        /\ AttendPage(o, t, (seq[k] - 1) * o.page_tokens) = Outcome(o, t, StartOf(o, k))
        /\ Outcome(o, t, StartOf(o, k)) \in V
  <2> SUFFICES ASSUME NEW k \in 1 .. n, NEW t \in V
               PROVE  /\ AttendPage(o, t, (k - 1) * o.page_tokens) = Outcome(o, t, StartOf(o, k))
                      /\ Outcome(o, t, StartOf(o, k)) \in V
    BY <1>2
  <2>1. StartOf(o, k) \in Starts(o)
    BY StartFacts
  <2>2. DOMAIN t.cache.budgets = {}
    BY CacheStateFacts DEF ConformStates, RunStates
  <2>3. AttendPage(o, t, StartOf(o, k)) = Outcome(o, t, StartOf(o, k))
    BY <2>1, <2>2, AttendPageIs
  <2> QED
    BY <2>1, <2>3, OutcomeFacts DEF StartOf
<1>4. step \in [(1 .. n) \X V -> V]
  BY <1>3
<1>5. \A k \in 1 .. n, t \in V : step[<<k, t>>] = Outcome(o, t, StartOf(o, k))
  OBVIOUS
<1>6. \A k \in 1 .. n, t \in V : AttendPage(o, t, (seq[k] - 1) * o.page_tokens) = step[<<k, t>>]
  BY <1>3, <1>5
<1> HIDE DEF seq, step, V, n
<1>7. PICK f : LeftFold(f, n, V, s, step)
  BY <1>2, <1>4, LeftExists DEF V
<1>8. Iterates(f)
  <2>1. \A S \in SUBSET D : f[S] = IF S = {} THEN s
                                   ELSE AttendPage(o, f[S \ {Max(S)}], (seq[Max(S)] - 1) * o.page_tokens)
    <3> SUFFICES ASSUME NEW S \in SUBSET D, S # {}
                 PROVE  f[S] = AttendPage(o, f[S \ {Max(S)}], (seq[Max(S)] - 1) * o.page_tokens)
      BY <1>2, <1>7 DEF LeftFold
    <3>1. Max(S) \in 1 .. n /\ f[S \ {Max(S)}] \in V
      BY <1>2, <1>7 DEF LeftFold
    <3>2. f[S] = step[<<Max(S), f[S \ {Max(S)}]>>]
      BY <1>2, <1>7, Zenon DEF LeftFold
    <3> QED
      BY <1>6, <3>1, <3>2, Zenon
  <2>2. f = [S \in SUBSET D |-> f[S]]
    BY <1>2, <1>7 DEF LeftFold
  <2> QED
    BY <2>1, <2>2
<1>9. Iterates(it)
  <2> HIDE DEF Iterates
  <2> QED
    BY <1>8
<1> HIDE DEF it
<1>10. \A S \in SUBSET (1 .. n) : it[S] = IF S = {} THEN s
                                   ELSE AttendPage(o, it[S \ {Max(S)}], (seq[Max(S)] - 1) * o.page_tokens)
  BY <1>2, <1>9
<1>11. Unfolds(it, n, V, s, step)
  <2> SUFFICES ASSUME NEW S \in SUBSET (1 .. n), S # {}, it[S \ {Max(S)}] \in V
               PROVE  it[S] = step[<<Max(S), it[S \ {Max(S)}]>>]
    BY <1>10 DEF Unfolds
  <2>1. Max(S) \in 1 .. n
    BY <1>7 DEF LeftFold
  <2> QED
    BY <1>10, <1>6, <2>1, Zenon
<1>12. PICK g : Lefts(g, n, V, s, step) /\ Reaches(g, n, it)
  BY <1>2, <1>4, <1>11, LeftPrefixes DEF V
<1>13. g \in [0 .. n -> V] /\ g[0] = s /\ \A k \in 1 .. n : g[k] = step[<<k, g[k - 1]>>]
  BY <1>12 DEF Lefts
<1>14. \A k \in 1 .. n : g[k] = Outcome(o, g[k - 1], StartOf(o, k))
  <2> SUFFICES ASSUME NEW k \in 1 .. n PROVE g[k] = Outcome(o, g[k - 1], StartOf(o, k))
    OBVIOUS
  <2>1. k - 1 \in 0 .. n
    BY <1>2
  <2>2. g[k - 1] \in V
    BY <1>13, <2>1
  <2> QED
    BY <1>5, <1>13, <2>2, Zenon
<1>15. Attend(o, s) = g[n]
  BY <1>1, <1>2, <1>12, Zenon DEF Reaches
<1> QED
  BY <1>13, <1>14, <1>15, Zenon DEF PageByPage, n, V

-----------------------------------------------------------------------------
(* The pages to be kept among the first k.                                 *)
KeptAmong(o, k) == {i \in 1 .. k : StartOf(o, i) \in Kept(o)}

LEMMA KeptCounted ==
  ASSUME NEW o, NEW k \in Nat
  PROVE  /\ Cardinality(KeptAmong(o, 0)) = 0
         /\ Cardinality(KeptAmong(o, k)) \in 0 .. k
         /\ Cardinality(KeptAmong(o, k + 1)) =
              Cardinality(KeptAmong(o, k)) + IF StartOf(o, k + 1) \in Kept(o) THEN 1 ELSE 0
<1> DEFINE A == KeptAmong(o, k)
<1>1. KeptAmong(o, 0) = {}
  BY DEF KeptAmong
<1>2. IsFiniteSet(1 .. k) /\ Cardinality(1 .. k) = k
  BY FS_Interval
<1>3. A \subseteq 1 .. k
  BY DEF KeptAmong
<1>4. KeptAmong(o, k + 1) = A \cup (IF StartOf(o, k + 1) \in Kept(o) THEN {k + 1} ELSE {})
  BY DEF KeptAmong
<1> HIDE DEF A
<1>5. IsFiniteSet(A) /\ Cardinality(A) \in Nat /\ Cardinality(A) <= k
  BY <1>2, <1>3, FS_Subset, FS_CardinalityType
<1>6. k + 1 \notin A
  BY <1>3
<1>7. Cardinality(A \cup {k + 1}) = Cardinality(A) + 1
  BY <1>5, <1>6, FS_AddElement
<1>8. CASE StartOf(o, k + 1) \in Kept(o)
  <2>1. KeptAmong(o, k + 1) = A \cup {k + 1}
    BY <1>4, <1>8
  <2> QED
    BY <1>1, <1>5, <1>7, <1>8, <2>1, FS_EmptySet DEF A
<1>9. CASE StartOf(o, k + 1) \notin Kept(o)
  <2>1. KeptAmong(o, k + 1) = A
    BY <1>4, <1>9
  <2> QED
    BY <1>1, <1>5, <1>9, <2>1, FS_EmptySet DEF A
<1> QED
  BY <1>8, <1>9

(* With room for all: after k pages from s the cache holds those of them   *)
(* that are to be kept, and if it held all before, they were hits.         *)
RoomyAfter(o, s, t, k) ==
  /\ DOMAIN s.cache.pages \subseteq DOMAIN t.cache.pages
  /\ \A i \in 1 .. k : StartOf(o, i) \in Kept(o) => StartOf(o, i) \in DOMAIN t.cache.pages
  /\ Kept(o) \subseteq DOMAIN s.cache.pages =>
       Counters(s, t, Cardinality(KeptAmong(o, k)), k - Cardinality(KeptAmong(o, k)))

LEMMA RoomyStep ==
  ASSUME NEW o, Measurable(o), AllBytes(o) <= o.hot_cache_bytes, NEW s \in ConformStates(o),
         NEW t \in ConformStates(o), NEW k \in Nat, k < PageCount(o), RoomyAfter(o, s, t, k)
  PROVE  RoomyAfter(o, s, Outcome(o, t, StartOf(o, k + 1)), k + 1)
<1> DEFINE x == StartOf(o, k + 1)
           u == Outcome(o, t, x)
           R == DOMAIN t.cache.pages
           h == Cardinality(KeptAmong(o, k))
           h1 == Cardinality(KeptAmong(o, k + 1))
<1>1. x \in Starts(o)
  BY StartFacts
<1>2. /\ u \in ConformStates(o)
      /\ x \in R => Counters(t, u, 1, 0) /\ DOMAIN u.cache.pages = R
      /\ x \notin R => Counters(t, u, 0, 1)
      /\ x \notin R /\ x \notin Kept(o) => u.cache = t.cache
      /\ x \notin R /\ x \in Kept(o) => Inserts(o, u.cache, t.cache, x)
  BY <1>1, OutcomeFacts
<1>3. Conforms(o, t.cache) /\ R \subseteq Kept(o)
  BY DEF ConformStates, Conforms
<1>4. h \in 0 .. k /\ h1 = h + IF x \in Kept(o) THEN 1 ELSE 0
  BY KeptCounted
<1>5. /\ s.hot_hits \in Nat /\ s.cold_regenerations \in Nat
      /\ t.hot_hits \in Nat /\ t.cold_regenerations \in Nat
      /\ u.hot_hits \in Nat /\ u.cold_regenerations \in Nat
  BY <1>2 DEF ConformStates, RunStates
<1>6. DOMAIN u.cache.pages = R \cup (IF x \in Kept(o) THEN {x} ELSE {})
  <2>1. CASE x \in R
    BY <1>2, <1>3, <2>1
  <2>2. CASE x \notin R /\ x \notin Kept(o)
    BY <1>2, <2>2
  <2>3. CASE x \notin R /\ x \in Kept(o)
    <3>1. Left(o, PageBytes(o), t.cache, x) = R
      BY <1>3, <2>3, RoomForAll
    <3>2. DOMAIN u.cache.pages = Left(o, PageBytes(o), t.cache, x) \cup {x}
      BY <1>2, <2>3, Zenon DEF Inserts
    <3> QED
      BY <2>3, <3>1, <3>2
  <2> QED
    BY <2>1, <2>2, <2>3
<1> HIDE DEF x, u, R, h, h1
<1>7. DOMAIN s.cache.pages \subseteq DOMAIN u.cache.pages
  BY <1>6 DEF RoomyAfter, R
<1>8. ASSUME NEW i \in 1 .. k + 1, StartOf(o, i) \in Kept(o)
      PROVE  StartOf(o, i) \in DOMAIN u.cache.pages
  <2>1. CASE i = k + 1
    <3>1. StartOf(o, i) = x
      BY <2>1 DEF x
    <3> QED
      BY <1>6, <1>8, <3>1
  <2>2. CASE i # k + 1
    <3>1. i \in 1 .. k
      BY <2>2
    <3> QED
      BY <1>6, <1>8, <3>1 DEF RoomyAfter, R
  <2> QED
    BY <2>1, <2>2
<1>9. ASSUME Kept(o) \subseteq DOMAIN s.cache.pages
      PROVE  Counters(s, u, h1, (k + 1) - h1)
  <2>1. Counters(s, t, h, k - h) /\ Kept(o) \subseteq R
    BY <1>9 DEF RoomyAfter, R, h
  <2>2. CASE x \in R
    <3>1. h1 = h + 1
      BY <1>3, <1>4, <2>2
    <3> QED
      BY <1>2, <1>4, <1>5, <2>1, <2>2, <3>1 DEF Counters
  <2>3. CASE x \notin R
    <3>1. h1 = h
      BY <1>4, <2>1, <2>3
    <3> QED
      BY <1>2, <1>4, <1>5, <2>1, <2>3, <3>1 DEF Counters
  <2> QED
    BY <2>2, <2>3
<1> QED
  BY <1>7, <1>8, <1>9, Zenon DEF RoomyAfter, u, x, h1

(* Without: the cache goes in circles, and no page is ever hot.            *)
TightAfter(o, s, t, k) == Circles(o, t.cache, k * o.page_tokens) /\ Counters(s, t, 0, k)

LEMMA TightStep ==
  ASSUME NEW o, Measurable(o), ~(AllBytes(o) <= o.hot_cache_bytes), NEW s \in ConformStates(o),
         NEW t \in ConformStates(o), NEW k \in Nat, k < PageCount(o), TightAfter(o, s, t, k)
  PROVE  TightAfter(o, s, Outcome(o, t, StartOf(o, k + 1)), k + 1)
<1> DEFINE x == StartOf(o, k + 1)
           u == Outcome(o, t, x)
           R == DOMAIN t.cache.pages
           after == (k + 1) * o.page_tokens
<1>1. x \in Starts(o) /\ x = k * o.page_tokens
  <2>1. k + 1 \in 1 .. PageCount(o) /\ (k + 1) - 1 = k
    BY StartFacts
  <2> QED
    BY <2>1, StartFacts DEF StartOf
<1>2. /\ u \in ConformStates(o)
      /\ x \notin R => Counters(t, u, 0, 1)
      /\ x \notin R /\ x \notin Kept(o) => u.cache = t.cache
      /\ x \notin R /\ x \in Kept(o) => Inserts(o, u.cache, t.cache, x)
  BY <1>1, OutcomeFacts
<1>3. Conforms(o, t.cache)
  BY DEF ConformStates
<1>4. Circles(o, t.cache, x)
  BY <1>1 DEF TightAfter
<1>5. x \notin R
  BY <1>1, <1>3, <1>4, NeverHot
<1>6. after \in Nat
  BY DEF Measurable
<1>7. \A y \in Starts(o) : y < after <=> y < x \/ y = x
  <2> SUFFICES ASSUME NEW i \in 1 .. PageCount(o)
               PROVE  StartOf(o, i) < after <=> StartOf(o, i) < x \/ StartOf(o, i) = x
    BY DEF Starts
  <2>1. k \in 0 .. PageCount(o) /\ k + 1 \in 0 .. PageCount(o)
    BY StartFacts
  <2>2. StartOf(o, i) < after <=> i <= k + 1
    BY <2>1, StartsAscend
  <2>3. StartOf(o, i) < x <=> i <= k
    BY <1>1, <2>1, StartsAscend
  <2>4. StartOf(o, i) = x => i = k + 1
    <3> DEFINE j == i - 1
               d == o.page_tokens
    <3>1. j \in Nat /\ d \in Nat \ {0} /\ i = j + 1
      BY StartFacts DEF Measurable
    <3> HIDE DEF j, d
    <3>2. j * d = k * d => j = k
      <4>1. CASE j < k
        <5>1. (j + 1) * d <= k * d /\ (j + 1) * d = j * d + d
          BY <3>1, <4>1, SMT
        <5> QED
          BY <3>1, <5>1
      <4>2. CASE k < j
        <5>1. (k + 1) * d <= j * d /\ (k + 1) * d = k * d + d
          BY <3>1, <4>2, SMT
        <5> QED
          BY <3>1, <5>1
      <4> QED
        BY <3>1, <4>1, <4>2
    <3>3. StartOf(o, i) = j * d /\ x = k * d
      BY <1>1 DEF StartOf, j, d
    <3> QED
      BY <3>1, <3>2, <3>3
  <2>5. i = k + 1 => StartOf(o, i) = x
    OBVIOUS
  <2> HIDE DEF x, after
  <2>6. i \in Nat
    BY StartFacts
  <2> QED
    BY <2>2, <2>3, <2>4, <2>5, <2>6
<1> HIDE DEF x, u, R, after
<1>8. Circles(o, u.cache, after)
  <2>1. CASE x \in Kept(o)
    BY <1>2, <1>3, <1>4, <1>5, <1>6, <1>7, <2>1, InsertCircles DEF R
  <2>2. CASE x \notin Kept(o)
    BY <1>1, <1>2, <1>3, <1>4, <1>5, <1>6, <1>7, <2>2, Untouched
  <2> QED
    BY <2>1, <2>2
<1>9. Counters(s, u, 0, k + 1)
  <2>1. /\ s.hot_hits \in Nat /\ s.cold_regenerations \in Nat
        /\ t.hot_hits \in Nat /\ t.cold_regenerations \in Nat
    BY DEF ConformStates, RunStates
  <2> QED
    BY <1>2, <1>5, <2>1 DEF TightAfter, Counters
<1> QED
  BY <1>8, <1>9, Zenon DEF TightAfter, u, x, after

-----------------------------------------------------------------------------
(* Runs.                                                                   *)

(* What every run begins and ends with: all pages to be kept, or a cache   *)
(* that has gone in a full circle.                                         *)
SettledStates(o) ==
  {s \in ConformStates(o) :
     IF AllBytes(o) <= o.hot_cache_bytes THEN Kept(o) \subseteq DOMAIN s.cache.pages
     ELSE Circles(o, s.cache, 0)}

HitsPerRun(o) ==
  IF AllBytes(o) <= o.hot_cache_bytes THEN Cardinality(KeptAmong(o, PageCount(o))) ELSE 0

LEMMA RoomyRun ==
  ASSUME NEW o, Measurable(o), AllBytes(o) <= o.hot_cache_bytes, NEW s \in ConformStates(o)
  PROVE  /\ Attend(o, s) \in ConformStates(o)
         /\ RoomyAfter(o, s, Attend(o, s), PageCount(o))
<1> DEFINE P == PageCount(o)
<1>1. PICK g : PageByPage(g, o, s) /\ Attend(o, s) = g[P]
  BY AttendByPages
<1>2. P \in Nat
  BY StartFacts
<1>3. /\ g[0] = s /\ \A k \in 0 .. P : g[k] \in ConformStates(o)
      /\ \A k \in 1 .. P : g[k] = Outcome(o, g[k - 1], StartOf(o, k))
  BY <1>1 DEF PageByPage
<1> DEFINE S == {k \in Nat : k <= P => RoomyAfter(o, s, g[k], k)}
<1>4. 0 \in S
  <2>1. Cardinality(KeptAmong(o, 0)) = 0
    BY KeptCounted
  <2>2. s.hot_hits \in Nat /\ s.cold_regenerations \in Nat
    BY DEF ConformStates, RunStates
  <2>3. Counters(s, s, 0, 0 - 0)
    BY <2>2 DEF Counters
  <2>4. RoomyAfter(o, s, s, 0)
    BY <2>1, <2>3 DEF RoomyAfter
  <2> QED
    BY <1>3, <2>4
<1>5. ASSUME NEW k \in Nat, k \in S PROVE k + 1 \in S
  <2> SUFFICES ASSUME k + 1 <= P PROVE RoomyAfter(o, s, g[k + 1], k + 1)
    OBVIOUS
  <2>1. /\ k \in 0 .. P /\ k + 1 \in 1 .. P /\ k < P /\ (k + 1) - 1 = k
        /\ RoomyAfter(o, s, g[k], k)
    BY <1>2, <1>5
  <2>2. g[k] \in ConformStates(o) /\ g[k + 1] = Outcome(o, g[k], StartOf(o, k + 1))
    BY <1>3, <2>1
  <2>3. RoomyAfter(o, s, Outcome(o, g[k], StartOf(o, k + 1)), k + 1)
    BY <2>1, <2>2, RoomyStep DEF P
  <2> QED
    BY <2>2, <2>3, Zenon
<1>6. P \in S
  <2> HIDE DEF S
  <2> QED
    BY <1>2, <1>4, <1>5, NatSetInduction
<1> QED
  BY <1>1, <1>2, <1>3, <1>6

LEMMA TightRun ==
  ASSUME NEW o, Measurable(o), ~(AllBytes(o) <= o.hot_cache_bytes), NEW s \in ConformStates(o),
         Circles(o, s.cache, 0)
  PROVE  /\ Attend(o, s) \in ConformStates(o)
         /\ TightAfter(o, s, Attend(o, s), PageCount(o))
<1> DEFINE P == PageCount(o)
<1>1. PICK g : PageByPage(g, o, s) /\ Attend(o, s) = g[P]
  BY AttendByPages
<1>2. P \in Nat
  BY StartFacts
<1>3. /\ g[0] = s /\ \A k \in 0 .. P : g[k] \in ConformStates(o)
      /\ \A k \in 1 .. P : g[k] = Outcome(o, g[k - 1], StartOf(o, k))
  BY <1>1 DEF PageByPage
<1> DEFINE S == {k \in Nat : k <= P => TightAfter(o, s, g[k], k)}
<1>4. 0 \in S
  <2>1. s.hot_hits \in Nat /\ s.cold_regenerations \in Nat
    BY DEF ConformStates, RunStates
  <2>2. Counters(s, s, 0, 0) /\ 0 * o.page_tokens = 0
    BY <2>1 DEF Counters, Measurable
  <2>3. TightAfter(o, s, s, 0)
    BY <2>2 DEF TightAfter
  <2> QED
    BY <1>3, <2>3
<1>5. ASSUME NEW k \in Nat, k \in S PROVE k + 1 \in S
  <2> SUFFICES ASSUME k + 1 <= P PROVE TightAfter(o, s, g[k + 1], k + 1)
    OBVIOUS
  <2>1. /\ k \in 0 .. P /\ k + 1 \in 1 .. P /\ k < P /\ (k + 1) - 1 = k
        /\ TightAfter(o, s, g[k], k)
    BY <1>2, <1>5
  <2>2. g[k] \in ConformStates(o) /\ g[k + 1] = Outcome(o, g[k], StartOf(o, k + 1))
    BY <1>3, <2>1
  <2>3. TightAfter(o, s, Outcome(o, g[k], StartOf(o, k + 1)), k + 1)
    BY <2>1, <2>2, TightStep DEF P
  <2> QED
    BY <2>2, <2>3, Zenon
<1>6. P \in S
  <2> HIDE DEF S
  <2> QED
    BY <1>2, <1>4, <1>5, NatSetInduction
<1> QED
  BY <1>1, <1>2, <1>3, <1>6

(* At the end of a run the next one begins.                                *)
LEMMA FullCircle ==
  ASSUME NEW o, Measurable(o), NEW c, Conforms(o, c),
         Circles(o, c, PageCount(o) * o.page_tokens)
  PROVE  Circles(o, c, 0)
<1> DEFINE end == PageCount(o) * o.page_tokens
<1>1. \A x \in Starts(o) : x < end /\ x \in Nat
  <2> SUFFICES ASSUME NEW i \in 1 .. PageCount(o) PROVE StartOf(o, i) < end
    BY StartFacts DEF Starts
  <2>1. PageCount(o) \in 0 .. PageCount(o) /\ i <= PageCount(o)
    BY StartFacts
  <2> QED
    BY <2>1, StartsAscend
<1>2. end \in Nat
  BY StartFacts DEF Measurable
<1> HIDE DEF end
<1>3. DOMAIN c.pages \subseteq Starts(o) /\ Kept(o) \subseteq Starts(o)
  BY StartFacts DEF Conforms
<1>4. \A x, y \in Starts(o) : Earlier(end, x, y) <=> Earlier(0, x, y)
  BY <1>1, <1>2 DEF Earlier
<1> QED
  BY <1>3, <1>4 DEF Circles, end

(* Every run has the same hits and regenerations.                          *)
LEMMA RunRepeats ==
  ASSUME NEW o, Measurable(o), NEW s \in SettledStates(o)
  PROVE  /\ Attend(o, s) \in SettledStates(o)
         /\ Counters(s, Attend(o, s), HitsPerRun(o), PageCount(o) - HitsPerRun(o))
<1> DEFINE P == PageCount(o)
           t == Attend(o, s)
<1>1. s \in ConformStates(o) /\ P \in Nat
  BY StartFacts DEF SettledStates
<1>2. CASE AllBytes(o) <= o.hot_cache_bytes
  <2>1. Kept(o) \subseteq DOMAIN s.cache.pages /\ HitsPerRun(o) = Cardinality(KeptAmong(o, P))
    BY <1>2 DEF SettledStates, HitsPerRun
  <2>2. t \in ConformStates(o) /\ RoomyAfter(o, s, t, P)
    BY <1>1, <1>2, RoomyRun
  <2> HIDE DEF t, P
  <2>3. Kept(o) \subseteq DOMAIN t.cache.pages
    BY <2>1, <2>2 DEF RoomyAfter
  <2>4. Counters(s, t, HitsPerRun(o), P - HitsPerRun(o))
    BY <2>1, <2>2, Zenon DEF RoomyAfter
  <2> QED
    BY <1>2, <2>2, <2>3, <2>4 DEF SettledStates, t, P
<1>3. CASE ~(AllBytes(o) <= o.hot_cache_bytes)
  <2>1. Circles(o, s.cache, 0) /\ HitsPerRun(o) = 0
    BY <1>3 DEF SettledStates, HitsPerRun
  <2>2. t \in ConformStates(o) /\ TightAfter(o, s, t, P)
    BY <1>1, <1>3, <2>1, TightRun
  <2> HIDE DEF t
  <2>3. Circles(o, t.cache, 0)
    BY <2>2, FullCircle DEF TightAfter, ConformStates
  <2>4. Counters(s, t, HitsPerRun(o), P - HitsPerRun(o))
    <3>1. P - HitsPerRun(o) = P
      BY <1>1, <2>1
    <3> HIDE DEF P
    <3> QED
      BY <2>1, <2>2, <3>1, Zenon DEF TightAfter
  <2> QED
    BY <1>3, <2>2, <2>3, <2>4 DEF SettledStates, t
<1> QED
  BY <1>2, <1>3

LEMMA HitsWithin ==
  ASSUME NEW o, Measurable(o)
  PROVE  HitsPerRun(o) \in Nat /\ HitsPerRun(o) <= PageCount(o)
BY KeptCounted, StartFacts DEF HitsPerRun

(* A fresh atlas: nothing is resident.                                     *)
LEMMA FreshConforms ==
  ASSUME NEW o, Measurable(o)
  PROVE  /\ Fresh(o) \in ConformStates(o) /\ DOMAIN Fresh(o).cache.pages = {}
         /\ Fresh(o).hot_hits = 0 /\ Fresh(o).cold_regenerations = 0
         /\ Circles(o, Fresh(o).cache, 0)
<1> DEFINE c == Lru(o)!EmptyCache
<1>1. Conforms(o, c) /\ DOMAIN c.pages = {}
  BY NothingConforms
<1>2. Fresh(o) = [cache |-> c, hot_hits |-> 0, cold_regenerations |-> 0]
  BY DEF Fresh, Uncounted
<1> HIDE DEF c
<1>3. Weight(PageBytes(o), DOMAIN c.pages) = 0
  <2>1. IsFiniteSet({})
    BY FS_EmptySet
  <2> QED
    BY <1>1, <2>1, WeightFinite
<1>4. Circles(o, c, 0)
  BY <1>1, <1>3 DEF Circles, Measurable
<1>5. c \in CacheStates(o)
  BY <1>1 DEF Conforms
<1> QED
  BY <1>1, <1>2, <1>4, <1>5 DEF ConformStates, RunStates

LEMMA WarmUpSettles ==
  ASSUME NEW o, Measurable(o)
  PROVE  /\ WarmUp(o) \in SettledStates(o)
         /\ WarmUp(o).hot_hits = 0 /\ WarmUp(o).cold_regenerations = 0
<1> DEFINE s == Fresh(o)
           t == Attend(o, s)
<1>1. s \in ConformStates(o) /\ Circles(o, s.cache, 0)
  BY FreshConforms
<1>2. /\ t \in ConformStates(o)
      /\ IF AllBytes(o) <= o.hot_cache_bytes THEN Kept(o) \subseteq DOMAIN t.cache.pages
         ELSE Circles(o, t.cache, 0)
  <2>1. CASE AllBytes(o) <= o.hot_cache_bytes
    <3>1. t \in ConformStates(o) /\ RoomyAfter(o, s, t, PageCount(o))
      BY <1>1, <2>1, RoomyRun
    <3>2. \A x \in Kept(o) : \E i \in 1 .. PageCount(o) : x = StartOf(o, i)
      BY StartFacts DEF Starts
    <3> HIDE DEF t, s
    <3>3. Kept(o) \subseteq DOMAIN t.cache.pages
      BY <3>1, <3>2 DEF RoomyAfter
    <3> QED
      BY <2>1, <3>1, <3>3
  <2>2. CASE ~(AllBytes(o) <= o.hot_cache_bytes)
    <3>1. t \in ConformStates(o) /\ TightAfter(o, s, t, PageCount(o))
      BY <1>1, <2>2, TightRun
    <3> HIDE DEF t, s
    <3>2. Circles(o, t.cache, 0)
      BY <3>1, FullCircle DEF TightAfter, ConformStates
    <3> QED
      BY <2>2, <3>1, <3>2
  <2> QED
    BY <2>1, <2>2
<1>3. WarmUp(o) = [cache |-> t.cache, hot_hits |-> 0, cold_regenerations |-> 0]
  BY DEF WarmUp, Uncounted
<1> HIDE DEF t
<1>4. t.cache \in CacheStates(o) /\ Conforms(o, t.cache)
  BY <1>2 DEF ConformStates, RunStates
<1>5. /\ WarmUp(o).cache = t.cache /\ WarmUp(o).hot_hits = 0
      /\ WarmUp(o).cold_regenerations = 0 /\ WarmUp(o) \in RunStates(o)
  BY <1>3, <1>4 DEF RunStates
<1> QED
  BY <1>2, <1>4, <1>5 DEF SettledStates, ConformStates

(* The resident pages are within the budget.                               *)
LEMMA SettledFits ==
  ASSUME NEW o, Measurable(o), NEW s \in SettledStates(o)
  PROVE  Lru(o)!UsedBytes(s.cache) \in Nat /\ Lru(o)!UsedBytes(s.cache) <= o.hot_cache_bytes
<1> DEFINE c == s.cache
           b == PageBytes(o)
           R == DOMAIN c.pages
<1>1. Conforms(o, c) /\ Weighed(b, c)
  BY ConformsWeighed DEF SettledStates, ConformStates
<1>2. IsFiniteSet(R) /\ \A k \in R : b[k] \in Nat /\ c.pages[k].bytes = b[k]
  BY <1>1 DEF Weighed
<1>3. Lru(o)!UsedBytes(c) = Lru(o)!BytesOf(c, R)
  BY DEF Lru!UsedBytes, Lru!Resident
<1> HIDE DEF b, R, c
<1>4. Lru(o)!BytesOf(c, R) = Weight(b, R) /\ Weight(b, R) \in Nat
  BY <1>2, BytesAreCells, WeightFinite
<1>5. Weight(b, R) <= o.hot_cache_bytes
  <2>1. CASE AllBytes(o) <= o.hot_cache_bytes
    <3>1. /\ R \in SUBSET Kept(o) /\ IsFiniteSet(Kept(o)) /\ \A k \in Kept(o) : b[k] \in Nat
          /\ o.hot_cache_bytes \in Nat
      BY <1>1, StartFacts DEF Conforms, R, b, Measurable
    <3>2. Weight(b, R) <= Weight(b, Kept(o)) /\ Weight(b, Kept(o)) \in Nat
      BY <3>1, WeightGrows, WeightFinite
    <3> QED
      BY <1>4, <2>1, <3>1, <3>2 DEF AllBytes, b
  <2>2. CASE ~(AllBytes(o) <= o.hot_cache_bytes)
    BY <2>2 DEF SettledStates, Circles, b, R, c
  <2> QED
    BY <2>1, <2>2
<1> QED
  BY <1>3, <1>4, <1>5 DEF c

-----------------------------------------------------------------------------
(* The measured runs.                                                      *)
RunByRun(g, o, n) ==
  /\ g \in [0 .. n -> SettledStates(o)] /\ g[0] = WarmUp(o)
  /\ \A k \in 1 .. n : g[k] = Attend(o, g[k - 1])

LEMMA MeasuredByRuns ==
  ASSUME NEW o, Measurable(o), NEW n \in Nat
  PROVE  \E g : RunByRun(g, o, n) /\ Measured(o, n) = g[n]
<1> DEFINE V == SettledStates(o)
           base == WarmUp(o)
           seq == [run \in 1 .. n |-> run]
           D == DOMAIN seq
           Iterates(f) ==
             f = [S \in SUBSET D |-> IF S = {} THEN base
                                     ELSE LET x == Max(S) IN Attend(o, f[S \ {x}])]
           it == CHOOSE f : Iterates(f)
           step == [p \in (1 .. n) \X V |-> Attend(o, p[2])]
<1>1. Measured(o, n) = it[D]
  BY Zenon DEF Measured, FoldLeft, MapThenFoldSet
<1>2. D = 1 .. n
  OBVIOUS
<1>3. base \in V
  BY WarmUpSettles
<1>4. \A t \in V : Attend(o, t) \in V
  BY RunRepeats
<1>5. step \in [(1 .. n) \X V -> V]
  BY <1>4
<1>6. \A k \in 1 .. n, t \in V : step[<<k, t>>] = Attend(o, t)
  OBVIOUS
<1> HIDE DEF seq, base, step, V
<1>7. PICK f : LeftFold(f, n, V, base, step)
  BY <1>3, <1>5, LeftExists
<1>8. Iterates(f)
  <2>1. \A S \in SUBSET D : f[S] = IF S = {} THEN base ELSE Attend(o, f[S \ {Max(S)}])
    <3> SUFFICES ASSUME NEW S \in SUBSET D, S # {}
                 PROVE  f[S] = Attend(o, f[S \ {Max(S)}])
      BY <1>2, <1>7 DEF LeftFold
    <3>1. Max(S) \in 1 .. n /\ f[S \ {Max(S)}] \in V
      BY <1>2, <1>7 DEF LeftFold
    <3>2. f[S] = step[<<Max(S), f[S \ {Max(S)}]>>]
      BY <1>2, <1>7, Zenon DEF LeftFold
    <3> QED
      BY <1>6, <3>1, <3>2, Zenon
  <2>2. f = [S \in SUBSET D |-> f[S]]
    BY <1>2, <1>7 DEF LeftFold
  <2> QED
    BY <2>1, <2>2
<1>9. Iterates(it)
  <2> HIDE DEF Iterates
  <2> QED
    BY <1>8
<1> HIDE DEF it
<1>10. \A S \in SUBSET (1 .. n) : it[S] = IF S = {} THEN base ELSE Attend(o, it[S \ {Max(S)}])
  BY <1>2, <1>9
<1>11. Unfolds(it, n, V, base, step)
  <2> SUFFICES ASSUME NEW S \in SUBSET (1 .. n), S # {}, it[S \ {Max(S)}] \in V
               PROVE  it[S] = step[<<Max(S), it[S \ {Max(S)}]>>]
    BY <1>10 DEF Unfolds
  <2>1. Max(S) \in 1 .. n
    BY <1>7 DEF LeftFold
  <2> QED
    BY <1>6, <1>10, <2>1, Zenon
<1>12. PICK g : Lefts(g, n, V, base, step) /\ Reaches(g, n, it)
  BY <1>3, <1>5, <1>11, LeftPrefixes
<1>13. g \in [0 .. n -> V] /\ g[0] = base /\ \A k \in 1 .. n : g[k] = step[<<k, g[k - 1]>>]
  BY <1>12 DEF Lefts
<1>14. \A k \in 1 .. n : g[k] = Attend(o, g[k - 1])
  <2> SUFFICES ASSUME NEW k \in 1 .. n PROVE g[k] = Attend(o, g[k - 1])
    OBVIOUS
  <2>1. k - 1 \in 0 .. n
    OBVIOUS
  <2>2. g[k - 1] \in V
    BY <1>13, <2>1
  <2> QED
    BY <1>6, <1>13, <2>2, Zenon
<1> QED
  BY <1>1, <1>2, <1>12, <1>13, <1>14, Zenon DEF RunByRun, base, V, Reaches

(* After n runs the counters are n times those of a run.                   *)
LEMMA MeasuredRepeats ==
  ASSUME NEW o, Measurable(o), NEW n \in Nat
  PROVE  /\ Measured(o, n) \in SettledStates(o)
         /\ Measured(o, n).hot_hits = n * HitsPerRun(o)
         /\ Measured(o, n).cold_regenerations = n * (PageCount(o) - HitsPerRun(o))
<1> DEFINE h == HitsPerRun(o)
           r == PageCount(o) - HitsPerRun(o)
<1>1. h \in Nat /\ r \in Nat
  BY HitsWithin, StartFacts
<1>2. PICK g : RunByRun(g, o, n) /\ Measured(o, n) = g[n]
  BY MeasuredByRuns
<1>3. /\ g \in [0 .. n -> SettledStates(o)] /\ g[0] = WarmUp(o)
      /\ \A k \in 1 .. n : g[k] = Attend(o, g[k - 1])
  BY <1>2 DEF RunByRun
<1>4. g[0].hot_hits = 0 /\ g[0].cold_regenerations = 0
  BY <1>3, WarmUpSettles
<1>5. ASSUME NEW s \in SettledStates(o)
      PROVE  Attend(o, s).hot_hits = s.hot_hits + h
             /\ Attend(o, s).cold_regenerations = s.cold_regenerations + r
  BY RunRepeats DEF Counters
<1> HIDE DEF h, r
<1> DEFINE S == {k \in Nat : k <= n => g[k].hot_hits = k * h /\ g[k].cold_regenerations = k * r}
<1>6. 0 \in S
  BY <1>1, <1>4
<1>7. ASSUME NEW k \in Nat, k \in S PROVE k + 1 \in S
  <2> SUFFICES ASSUME k + 1 <= n
               PROVE  g[k + 1].hot_hits = (k + 1) * h /\ g[k + 1].cold_regenerations = (k + 1) * r
    OBVIOUS
  <2>1. k \in 0 .. n /\ k + 1 \in 1 .. n /\ (k + 1) - 1 = k
    OBVIOUS
  <2>2. g[k] \in SettledStates(o) /\ g[k + 1] = Attend(o, g[k])
    BY <1>3, <2>1
  <2>3. g[k].hot_hits = k * h /\ g[k].cold_regenerations = k * r
    BY <1>7, <2>1
  <2>4. (k + 1) * h = k * h + h /\ (k + 1) * r = k * r + r
    BY <1>1, SMT
  <2> QED
    BY <1>5, <2>2, <2>3, <2>4
<1>8. n \in S
  <2> HIDE DEF S
  <2> QED
    BY <1>6, <1>7, NatSetInduction
<1>9. g[n] \in SettledStates(o)
  BY <1>3
<1> QED
  BY <1>2, <1>8, <1>9 DEF h, r

-----------------------------------------------------------------------------
(* What is printed.                                                        *)

LEMMA CheckedKvBytesIs ==
  ASSUME NEW tokens \in Nat, NEW head_dim \in Nat, CheckedKvBytes(tokens, head_dim) # Failed
  PROVE  CheckedKvBytes(tokens, head_dim) = KvBytes(tokens, head_dim)
<1> DEFINE a == tokens * head_dim
           first == CheckedMul(tokens, head_dim)
           second == CheckedMul(first, 4)
<1>1. CheckedKvBytes(tokens, head_dim) = CheckedMul(second, 2)
  BY DEF CheckedKvBytes
<1>2. a \in Nat /\ KvBytes(tokens, head_dim) = a * 4 * 2
  BY DEF KvBytes
<1>3. first = Failed \/ first = a
  BY DEF CheckedMul
<1> HIDE DEF first, a
<1>4. second = Failed \/ (first # Failed /\ second = first * 4)
  BY DEF CheckedMul
<1> HIDE DEF second
<1>5. CheckedMul(second, 2) = Failed \/ (second # Failed /\ CheckedMul(second, 2) = second * 2)
  BY DEF CheckedMul
<1> QED
  BY <1>1, <1>2, <1>3, <1>4, <1>5

LEMMA ProductQuotient ==
  ASSUME NEW n \in Nat \ {0}, NEW h \in Nat
  PROVE  (n * h) \div n = h
<1>1. n * h + 0 = n * h /\ 0 \in 0 .. n - 1
  OBVIOUS
<1>2. (n * h + 0) \div n = h
  BY <1>1, QuotientUnique
<1> QED
  BY <1>1, <1>2

(* The numbers of options, as measure_cfr takes them.                      *)
Numbers(o) ==
  /\ DOMAIN o = OptionFields
  /\ o.context_tokens \in Nat /\ o.page_tokens \in Nat /\ o.head_dim \in Nat
  /\ o.hot_cache_bytes \in Nat /\ o.recent_tokens \in Nat /\ o.runs \in Nat /\ o.admit \in BOOLEAN

Uncached(o) == IF o.admit THEN o ELSE [o EXCEPT !.hot_cache_bytes = 0]

MeasureTrue(o, a) ==
  LET u        == Uncached(o)
      estimate == Estimate(u.context_tokens, u.head_dim, u.page_tokens, u.hot_cache_bytes)
  IN  /\ \A run \in DOMAIN a.after :
           /\ a.after[run].hot_hits = run * a.hot_hits_per_run
           /\ a.after[run].cold_regenerations = run * a.cold_regenerations_per_run
      /\ a.hot_hits_per_run + a.cold_regenerations_per_run = PageCount(u)
      /\ estimate # Refused => a.resident_kv_bytes <= estimate.cfr_resident_budget_bytes

(* The estimate bounds the resident bytes.                                 *)
LEMMA EstimateBounds ==
  ASSUME NEW context \in Nat, NEW head_dim \in Nat, NEW tokens \in Nat, NEW budget \in Nat,
         NEW used \in Nat, used <= budget,
         Estimate(context, head_dim, tokens, budget) # Refused
  PROVE  KvBytes(tokens, head_dim) + used <=
           Estimate(context, head_dim, tokens, budget).cfr_resident_budget_bytes
<1> DEFINE baseline == CheckedKvBytes(context, head_dim)
           scratch == CheckedKvBytes(tokens, head_dim)
           resident == CheckedAdd(scratch, budget)
<1>1. /\ Failed \notin {baseline, scratch, resident}
      /\ Estimate(context, head_dim, tokens, budget) =
           [baseline_kv_bytes |-> baseline, cfr_scratch_bytes |-> scratch,
            cfr_resident_budget_bytes |-> resident,
            estimated_memory_reduction |-> <<baseline, resident>>]
  BY Zenon DEF Estimate
<1>2. scratch = KvBytes(tokens, head_dim)
  BY <1>1, CheckedKvBytesIs
<1>3. KvBytes(tokens, head_dim) \in Nat
  BY DEF KvBytes
<1> HIDE DEF baseline, scratch
<1>4. resident = scratch + budget
  BY <1>1 DEF CheckedAdd
<1> HIDE DEF resident
<1> QED
  BY <1>1, <1>2, <1>3, <1>4

LEMMA MeasureIsTrue ==
  ASSUME NEW o, Numbers(o), MeasureCfr(o) # Refused
  PROVE  MeasureTrue(o, MeasureCfr(o))
<1> DEFINE u == Uncached(o)
           stats == Measured(u, o.runs)
           used == Lru(u)!UsedBytes(stats.cache)
           h == HitsPerRun(u)
           r == PageCount(u) - h
<1>1. /\ OptionsAccepted(o)
      /\ MeasureCfr(o) =
           [resident_kv_bytes |-> KvBytes(o.page_tokens, o.head_dim) + used,
            full_kv_bytes |-> FullKvBytes(o),
            hot_hits_per_run |-> stats.hot_hits \div o.runs,
            cold_regenerations_per_run |-> stats.cold_regenerations \div o.runs,
            after |-> [n \in 1 .. o.runs |-> Measured(u, n)]]
  BY Zenon DEF MeasureCfr, Uncached
<1>2. /\ u.context_tokens = o.context_tokens /\ u.page_tokens = o.page_tokens
      /\ u.head_dim = o.head_dim /\ u.recent_tokens = o.recent_tokens /\ u.admit = o.admit
      /\ u.hot_cache_bytes \in Nat
  BY DEF Uncached, Numbers, OptionFields
<1>3. Measurable(u) /\ o.runs \in Nat \ {0}
  BY <1>1, <1>2 DEF Measurable, OptionsAccepted, Numbers
<1> HIDE DEF u
<1>4. h \in Nat /\ r \in Nat /\ PageCount(u) \in Nat /\ h + r = PageCount(u)
  BY <1>3, HitsWithin, StartFacts
<1>5. ASSUME NEW n \in Nat
      PROVE  /\ Measured(u, n).hot_hits = n * h /\ Measured(u, n).cold_regenerations = n * r
             /\ Measured(u, n) \in SettledStates(u)
  BY <1>3, MeasuredRepeats
<1>6. used \in Nat /\ used <= u.hot_cache_bytes
  BY <1>3, <1>5, SettledFits
<1>7. stats.hot_hits \div o.runs = h /\ stats.cold_regenerations \div o.runs = r
  <2> HIDE DEF h, r
  <2>1. stats.hot_hits = o.runs * h /\ stats.cold_regenerations = o.runs * r
    BY <1>3, <1>5
  <2> QED
    BY <1>3, <1>4, <2>1, ProductQuotient
<1> DEFINE a == MeasureCfr(o)
<1> HIDE DEF stats, used, h, r
<1>8. /\ a.hot_hits_per_run = h /\ a.cold_regenerations_per_run = r
      /\ a.resident_kv_bytes = KvBytes(o.page_tokens, o.head_dim) + used
      /\ a.after = [n \in 1 .. o.runs |-> Measured(u, n)]
  BY <1>1, <1>7
<1> HIDE DEF a
<1>9. \A run \in DOMAIN a.after :
        a.after[run].hot_hits = run * a.hot_hits_per_run
        /\ a.after[run].cold_regenerations = run * a.cold_regenerations_per_run
  <2> SUFFICES ASSUME NEW run \in 1 .. o.runs
               PROVE  /\ Measured(u, run).hot_hits = run * h
                      /\ Measured(u, run).cold_regenerations = run * r
    BY <1>8
  <2>1. run \in Nat
    BY <1>3
  <2> QED
    BY <1>5, <2>1
<1> DEFINE estimate == Estimate(u.context_tokens, u.head_dim, u.page_tokens, u.hot_cache_bytes)
<1>10. estimate # Refused => a.resident_kv_bytes <= estimate.cfr_resident_budget_bytes
  BY <1>2, <1>3, <1>6, <1>8, EstimateBounds DEF Measurable
<1>11. a.hot_hits_per_run + a.cold_regenerations_per_run = PageCount(u)
  BY <1>4, <1>8
<1>12. MeasureTrue(o, a)
  BY <1>9, <1>10, <1>11, Zenon DEF MeasureTrue, u
<1> QED
  BY <1>12, Zenon DEF a

-----------------------------------------------------------------------------
(* The options of the benchmarks.                                          *)
LEMMA OptionNumbers ==
  ASSUME NEW o, IsOptions(o)
  PROVE  Numbers(o)
<1>1. UsizeMax \in Nat
  BY UsizeAssumption, PowerPositive DEF UsizeMax
<1>2. \A f \in OptionFields \ {"admit"} : o[f] \in 0 .. UsizeMax
  BY DEF IsOptions
<1>3. /\ o.context_tokens \in 0 .. UsizeMax /\ o.page_tokens \in 0 .. UsizeMax
      /\ o.head_dim \in 0 .. UsizeMax /\ o.hot_cache_bytes \in 0 .. UsizeMax
      /\ o.recent_tokens \in 0 .. UsizeMax /\ o.runs \in 0 .. UsizeMax
  BY <1>2 DEF OptionFields
<1> HIDE DEF UsizeMax
<1> QED
  BY <1>1, <1>3 DEF Numbers, IsOptions

(* What run_hot measures.                                                  *)
LEMMA HotNumbers ==
  ASSUME NEW m, Numbers(m)
  PROVE  Numbers(RunHotOptions(m))
<1> DEFINE bytes  == KvBytes(m.page_tokens, m.head_dim)
           recent == SaturatingSub(m.page_tokens, 1)
           r == RunHotOptions(m)
<1>1. bytes \in Nat
  BY DEF KvBytes, Numbers
<1>2. recent \in Nat
  BY DEF SaturatingSub, Numbers
<1> HIDE DEF bytes, recent
<1> DEFINE m1 == [m EXCEPT !.hot_cache_bytes = bytes]
           m2 == [m1 EXCEPT !.recent_tokens = recent]
           m3 == [m2 EXCEPT !.runs = 1]
           m4 == [m3 EXCEPT !.admit = TRUE]
<1>3. r = m4
  BY DEF RunHotOptions, bytes, recent
<1>4. Numbers(m1)
  BY <1>1 DEF Numbers, OptionFields
<1> HIDE DEF m1
<1>5. Numbers(m2)
  BY <1>2, <1>4 DEF Numbers, OptionFields
<1> HIDE DEF m2
<1>6. Numbers(m3)
  BY <1>5 DEF Numbers, OptionFields
<1> HIDE DEF m3
<1>7. Numbers(m4)
  BY <1>6 DEF Numbers, OptionFields
<1> QED
  BY <1>3, <1>7, Zenon DEF r

-----------------------------------------------------------------------------
(* A run without a cache.                                                  *)
OnceTrue(o, a) == a.hot_hits = 0 /\ a.cold_regenerations = PageCount(o)

LEMMA NothingKept ==
  ASSUME NEW o, Measurable(o), ~o.admit
  PROVE  Kept(o) = {} /\ AllBytes(o) = 0 /\ Cardinality(KeptAmong(o, PageCount(o))) = 0
<1>1. Kept(o) = {}
  BY DEF Kept
<1>2. KeptAmong(o, PageCount(o)) = {}
  BY <1>1 DEF KeptAmong
<1>3. IsFiniteSet({}) /\ Cardinality({}) = 0
  BY FS_EmptySet
<1>4. Weight(PageBytes(o), {}) = 0
  BY <1>3, WeightFinite
<1> QED
  BY <1>1, <1>2, <1>3, <1>4 DEF AllBytes

LEMMA OnceIsTrue ==
  ASSUME NEW o, Numbers(o), RunCold(o) # Refused
  PROVE  OnceTrue(o, RunCold(o))
<1> DEFINE c1 == [o EXCEPT !.hot_cache_bytes = 0]
           cold == [c1 EXCEPT !.admit = FALSE]
           P == PageCount(cold)
<1>1. /\ cold.context_tokens = o.context_tokens /\ cold.page_tokens = o.page_tokens
      /\ cold.head_dim = o.head_dim /\ cold.recent_tokens = o.recent_tokens
      /\ cold.hot_cache_bytes = 0 /\ cold.admit = FALSE
  BY DEF Numbers, OptionFields
<1>2. cold = [o EXCEPT !.hot_cache_bytes = 0, !.admit = FALSE]
  OBVIOUS
<1> HIDE DEF cold
<1>3. Valid(ConfigOf(cold)) /\ o.context_tokens # 0 /\ RunCold(o) = Attend(cold, Fresh(cold))
  BY <1>2, Zenon DEF RunCold
<1>4. cold.page_tokens # 0 /\ cold.head_dim # 0
  BY <1>3 DEF Valid, ConfigOf, Built
<1>5. Measurable(cold)
  <2>1. cold.admit \in BOOLEAN
    BY <1>1, Zenon
  <2>2. /\ cold.context_tokens \in Nat \ {0} /\ cold.page_tokens \in Nat \ {0}
        /\ cold.head_dim \in Nat \ {0} /\ cold.recent_tokens \in Nat
    BY <1>1, <1>3, <1>4, Zenon DEF Numbers
  <2>3. cold.hot_cache_bytes \in Nat
    BY <1>1
  <2> QED
    BY <2>1, <2>2, <2>3, Zenon DEF Measurable
<1>6. Kept(cold) = {} /\ AllBytes(cold) = 0 /\ Cardinality(KeptAmong(cold, P)) = 0
  BY <1>1, <1>5, NothingKept
<1>7. /\ Fresh(cold) \in ConformStates(cold)
      /\ Fresh(cold).hot_hits = 0 /\ Fresh(cold).cold_regenerations = 0
  BY <1>5, FreshConforms
<1>8. AllBytes(cold) <= cold.hot_cache_bytes
  BY <1>1, <1>6
<1>9. RoomyAfter(cold, Fresh(cold), Attend(cold, Fresh(cold)), P)
  BY <1>5, <1>7, <1>8, RoomyRun
<1>10. Counters(Fresh(cold), Attend(cold, Fresh(cold)), 0, P - 0)
  BY <1>6, <1>9 DEF RoomyAfter
<1>11. P \in Nat /\ P = PageCount(o)
  BY <1>1, <1>5, StartFacts DEF PageCount
<1> HIDE DEF P
<1> QED
  BY <1>3, <1>7, <1>10, <1>11 DEF Counters, OnceTrue

-----------------------------------------------------------------------------
(* The timings of the runs, sorted.                                        *)

IsAscending(s, n) == \A i, j \in 1 .. n : i < j => s[i] <= s[j]

(* p numbers the values of f in ascending order.                           *)
Sorts(p, f, n) ==
  /\ p \in [1 .. n -> 1 .. n]
  /\ \A i, j \in 1 .. n : p[i] = p[j] => i = j
  /\ \A i, j \in 1 .. n : i < j => f[p[i]] <= f[p[j]]

LEMMA LargestExists ==
  ASSUME NEW n \in Nat, NEW f \in [1 .. n + 1 -> Int]
  PROVE  \E m \in 1 .. n + 1 : \A i \in 1 .. n + 1 : f[i] <= f[m]
<1> DEFINE S == {k \in Nat : k <= n => \E m \in 1 .. k + 1 : \A i \in 1 .. k + 1 : f[i] <= f[m]}
<1>1. 0 \in S
  OBVIOUS
<1>2. ASSUME NEW k \in Nat, k \in S PROVE k + 1 \in S
  <2> SUFFICES ASSUME k + 1 <= n
               PROVE  \E m \in 1 .. (k + 1) + 1 : \A i \in 1 .. (k + 1) + 1 : f[i] <= f[m]
    OBVIOUS
  <2>1. PICK m \in 1 .. k + 1 : \A i \in 1 .. k + 1 : f[i] <= f[m]
    BY <1>2
  <2> DEFINE x == k + 2
  <2>2. x \in 1 .. n + 1 /\ f[x] \in Int /\ f[m] \in Int /\ 1 .. (k + 1) + 1 = (1 .. k + 1) \cup {x}
    OBVIOUS
  <2>3. \A i \in 1 .. k + 1 : f[i] \in Int
    OBVIOUS
  <2> HIDE DEF x
  <2>4. CASE f[x] <= f[m]
    BY <2>1, <2>2, <2>4
  <2>5. CASE ~(f[x] <= f[m])
    <3>1. \A i \in (1 .. k + 1) \cup {x} : f[i] <= f[x]
      BY <2>1, <2>2, <2>3, <2>5
    <3> QED
      BY <2>2, <3>1
  <2> QED
    BY <2>4, <2>5
<1>3. n \in S
  <2> HIDE DEF S
  <2> QED
    BY <1>1, <1>2, NatSetInduction
<1> QED
  BY <1>3

(* The largest goes last, the others are sorted without it.                *)
LEMMA SortedExists ==
  ASSUME NEW n \in Nat, NEW f \in [1 .. n -> Int]
  PROVE  \E p : Sorts(p, f, n)
<1> DEFINE S == {k \in Nat : \A g \in [1 .. k -> Int] : \E p : Sorts(p, g, k)}
<1>1. 0 \in S
  <2> SUFFICES ASSUME NEW g \in [1 .. 0 -> Int] PROVE \E p : Sorts(p, g, 0)
    OBVIOUS
  <2>1. Sorts([i \in 1 .. 0 |-> i], g, 0)
    BY DEF Sorts
  <2> QED
    BY <2>1
<1>2. ASSUME NEW k \in Nat, k \in S PROVE k + 1 \in S
  <2> SUFFICES ASSUME NEW g \in [1 .. k + 1 -> Int] PROVE \E p : Sorts(p, g, k + 1)
    OBVIOUS
  <2>1. PICK m \in 1 .. k + 1 : \A i \in 1 .. k + 1 : g[i] <= g[m]
    BY LargestExists
  <2> DEFINE skip == [i \in 1 .. k |-> IF i < m THEN i ELSE i + 1]
             h == [i \in 1 .. k |-> g[skip[i]]]
  <2>2. /\ skip \in [1 .. k -> (1 .. k + 1) \ {m}]
        /\ \A i, j \in 1 .. k : skip[i] = skip[j] => i = j
    OBVIOUS
  <2> HIDE DEF skip
  <2>3. h \in [1 .. k -> Int]
    BY <2>2
  <2>4. PICK q : Sorts(q, h, k)
    BY <1>2, <2>3
  <2>5. /\ q \in [1 .. k -> 1 .. k]
        /\ \A i, j \in 1 .. k : q[i] = q[j] => i = j
        /\ \A i, j \in 1 .. k : i < j => h[q[i]] <= h[q[j]]
    BY <2>4 DEF Sorts
  <2> DEFINE p == [i \in 1 .. k + 1 |-> IF i = k + 1 THEN m ELSE skip[q[i]]]
  <2> DEFINE others == [i \in 1 .. k |-> skip[q[i]]]
  <2>6. others \in [1 .. k -> (1 .. k + 1) \ {m}] /\ \A i \in 1 .. k : others[i] = skip[q[i]]
    BY <2>2, <2>5
  <2>7. p[k + 1] = m /\ \A i \in 1 .. k : p[i] = others[i]
    OBVIOUS
  <2>8. p = [i \in 1 .. k + 1 |-> p[i]]
    OBVIOUS
  <2> HIDE DEF p, others
  <2>9. p[k + 1] = m /\ \A i \in 1 .. k : p[i] = skip[q[i]] /\ p[i] \in (1 .. k + 1) \ {m}
    BY <2>6, <2>7
  <2>10. p \in [1 .. k + 1 -> 1 .. k + 1]
    <3>1. \A i \in 1 .. k + 1 : p[i] \in 1 .. k + 1
      BY <2>9
    <3> QED
      BY <2>8, <3>1
  <2>11. ASSUME NEW i \in 1 .. k + 1, NEW j \in 1 .. k + 1, p[i] = p[j] PROVE i = j
    <3>1. CASE i \in 1 .. k /\ j \in 1 .. k
      <4>1. q[i] \in 1 .. k /\ q[j] \in 1 .. k /\ skip[q[i]] = skip[q[j]]
        BY <2>5, <2>9, <2>11, <3>1
      <4> QED
        BY <2>2, <2>5, <3>1, <4>1
    <3>2. CASE i = k + 1 \/ j = k + 1
      BY <2>9, <2>11, <3>2
    <3> QED
      BY <3>1, <3>2
  <2>12. ASSUME NEW i \in 1 .. k + 1, NEW j \in 1 .. k + 1, i < j PROVE g[p[i]] <= g[p[j]]
    <3>1. i \in 1 .. k
      BY <2>12
    <3>2. CASE j = k + 1
      BY <2>1, <2>9, <2>10, <3>2
    <3>3. CASE j \in 1 .. k
      <4>1. h[q[i]] = g[p[i]] /\ h[q[j]] = g[p[j]]
        BY <2>5, <2>9, <3>1, <3>3
      <4> QED
        BY <2>5, <2>12, <3>1, <3>3, <4>1
    <3> QED
      BY <3>2, <3>3
  <2>13. Sorts(p, g, k + 1)
    BY <2>10, <2>11, <2>12 DEF Sorts
  <2> QED
    BY <2>13
<1>3. n \in S
  <2> HIDE DEF S
  <2> QED
    BY <1>1, <1>2, NatSetInduction
<1> QED
  BY <1>3

(* As many values on one side of the median as on the other.               *)
Below(f, n, x) == {i \in 1 .. n : f[i] < x}
Above(f, n, x) == {i \in 1 .. n : f[i] > x}

SummaryTrue(f, a) ==
  /\ a.min_ms <= a.median_ms /\ a.median_ms <= a.max_ms
  /\ 2 * Cardinality(Below(f, Len(f), a.median_ms)) <= Len(f)
  /\ 2 * Cardinality(Above(f, Len(f), a.median_ms)) < Len(f)

LEMMA CountedThrough ==
  ASSUME NEW n \in Nat, NEW p \in [1 .. n -> 1 .. n], \A x \in 1 .. n : \E i \in 1 .. n : p[i] = x,
         NEW A \in SUBSET (1 .. n), NEW B, IsFiniteSet(B), \A i \in 1 .. n : p[i] \in A => i \in B
  PROVE  Cardinality(A) \in Nat /\ Cardinality(A) <= Cardinality(B)
<1> DEFINE back == [x \in A |-> CHOOSE i \in 1 .. n : p[i] = x]
<1>1. \A x \in A : back[x] \in 1 .. n /\ p[back[x]] = x
  OBVIOUS
<1>2. back \in [A -> B]
  <2>1. back = [x \in A |-> back[x]]
    OBVIOUS
  <2> HIDE DEF back
  <2>2. \A x \in A : back[x] \in B
    BY <1>1
  <2> QED
    BY <2>1, <2>2
<1>3. \A x, y \in A : back[x] = back[y] => x = y
  BY <1>1
<1> HIDE DEF back
<1>4. back \in Injection(A, B)
  BY <1>2, <1>3 DEF Injection, IsInjective
<1>5. IsFiniteSet(A) /\ Cardinality(A) <= Cardinality(B)
  BY <1>4, FS_Injection
<1> QED
  BY <1>5, FS_CardinalityType

LEMMA SortedIs ==
  ASSUME NEW n \in Nat, NEW f \in [1 .. n -> Int]
  PROVE  \E p \in [1 .. n -> 1 .. n] :
           /\ \A x \in 1 .. n : \E i \in 1 .. n : p[i] = x
           /\ Sorted(f) = [i \in 1 .. n |-> f[p[i]]]
           /\ IsAscending(Sorted(f), n)
<1> DEFINE D == DOMAIN f
           R == {[i \in D |-> f[p[i]]] : p \in Bijection(D, D)}
           Good(s) == \A i, j \in D : i < j => s[i] <= s[j]
<1>1. D = 1 .. n
  OBVIOUS
<1>2. PICK q : Sorts(q, f, n)
  BY SortedExists
<1>3. /\ q \in [1 .. n -> 1 .. n]
      /\ \A i, j \in 1 .. n : q[i] = q[j] => i = j
      /\ \A i, j \in 1 .. n : i < j => f[q[i]] <= f[q[j]]
  BY <1>2 DEF Sorts
<1>4. q \in Injection(1 .. n, 1 .. n)
  BY <1>3 DEF Injection, IsInjective
<1>5. IsFiniteSet(1 .. n)
  BY FS_Interval
<1>6. q \in Surjection(1 .. n, 1 .. n)
  BY <1>4, <1>5, FS_Injection
<1>7. q \in Bijection(D, D)
  BY <1>1, <1>4, <1>6 DEF Bijection
<1> DEFINE s == [i \in D |-> f[q[i]]]
<1>8. s \in R
  BY <1>7
<1>9. Good(s)
  BY <1>1, <1>3
<1>10. Sorted(f) = CHOOSE t \in R : Good(t)
  BY Zenon DEF Sorted
<1> HIDE DEF R, Good, s
<1>11. Sorted(f) \in R /\ Good(Sorted(f))
  BY <1>8, <1>9, <1>10
<1>12. PICK p \in Bijection(D, D) : Sorted(f) = [i \in D |-> f[p[i]]]
  BY <1>11 DEF R
<1>13. p \in [1 .. n -> 1 .. n] /\ \A x \in 1 .. n : \E i \in 1 .. n : p[i] = x
  BY <1>1 DEF Bijection, Injection, Surjection
<1>14. IsAscending(Sorted(f), n)
  BY <1>1, <1>11 DEF Good, IsAscending
<1> QED
  BY <1>1, <1>12, <1>13, <1>14

(* What is smaller than the value in the middle comes before it.           *)
Splits(s, n, mid) ==
  \A i \in 1 .. n : /\ s[i] < s[mid] => i \in 1 .. mid - 1
                    /\ s[i] > s[mid] => i \in mid + 1 .. n

LEMMA MiddleSplits ==
  ASSUME NEW n \in Nat, NEW s \in [1 .. n -> Int], IsAscending(s, n), NEW mid \in 1 .. n
  PROVE  /\ Splits(s, n, mid) /\ s[1] <= s[mid] /\ s[mid] <= s[n]
<1>1. \A i, j \in 1 .. n : i < j => s[i] <= s[j]
  BY DEF IsAscending
<1>2. \A i, j \in 1 .. n : i <= j => s[i] <= s[j]
  <2> SUFFICES ASSUME NEW i \in 1 .. n, NEW j \in 1 .. n, i <= j PROVE s[i] <= s[j]
    OBVIOUS
  <2>1. s[i] \in Int
    OBVIOUS
  <2>2. CASE i = j
    BY <2>1, <2>2
  <2>3. CASE i < j
    BY <1>1, <2>3
  <2> QED
    BY <2>2, <2>3
<1>3. ASSUME NEW i \in 1 .. n
      PROVE  (s[i] < s[mid] => i < mid) /\ (s[i] > s[mid] => mid < i)
  <2>1. s[i] \in Int /\ s[mid] \in Int
    OBVIOUS
  <2>2. (i <= mid => s[i] <= s[mid]) /\ (mid <= i => s[mid] <= s[i])
    BY <1>2
  <2> QED
    BY <2>1, <2>2
<1>4. Splits(s, n, mid)
  BY <1>3 DEF Splits
<1>5. 1 \in 1 .. n /\ n \in 1 .. n /\ 1 <= mid /\ mid <= n
  OBVIOUS
<1>6. s[1] <= s[mid] /\ s[mid] <= s[n]
  BY <1>2, <1>5
<1> QED
  BY <1>4, <1>6

LEMMA IntervalCounted ==
  ASSUME NEW n \in Nat, NEW mid \in 1 .. n
  PROVE  /\ IsFiniteSet(1 .. mid - 1) /\ Cardinality(1 .. mid - 1) = mid - 1
         /\ IsFiniteSet(mid + 1 .. n) /\ Cardinality(mid + 1 .. n) = n - mid
<1>1. IsFiniteSet(1 .. mid - 1) /\ Cardinality(1 .. mid - 1) = mid - 1
  BY FS_Interval
<1>2. IsFiniteSet(mid + 1 .. n) /\ Cardinality(mid + 1 .. n) = n - mid
  BY FS_Interval
<1> QED
  BY <1>1, <1>2

LEMMA SidesCounted ==
  ASSUME NEW n \in Nat, NEW f, NEW s, NEW p \in [1 .. n -> 1 .. n],
         \A x \in 1 .. n : \E i \in 1 .. n : p[i] = x, \A i \in 1 .. n : s[i] = f[p[i]],
         NEW mid \in 1 .. n, Splits(s, n, mid)
  PROVE  /\ Cardinality(Below(f, n, s[mid])) \in 0 .. mid - 1
         /\ Cardinality(Above(f, n, s[mid])) \in 0 .. n - mid
<1>1. IsFiniteSet(1 .. mid - 1) /\ Cardinality(1 .. mid - 1) = mid - 1
  BY IntervalCounted
<1>2. IsFiniteSet(mid + 1 .. n) /\ Cardinality(mid + 1 .. n) = n - mid
  BY IntervalCounted
<1> DEFINE x == s[mid]
           A == Below(f, n, x)
           B == Above(f, n, x)
<1>3. \A i \in 1 .. n : (s[i] < x => i \in 1 .. mid - 1) /\ (s[i] > x => i \in mid + 1 .. n)
  BY DEF Splits
<1> HIDE DEF x
<1>4. A \in SUBSET (1 .. n) /\ \A i \in 1 .. n : p[i] \in A => i \in 1 .. mid - 1
  BY <1>3 DEF Below
<1>5. B \in SUBSET (1 .. n) /\ \A i \in 1 .. n : p[i] \in B => i \in mid + 1 .. n
  BY <1>3 DEF Above
<1> HIDE DEF A, B
<1>6. Cardinality(A) \in Nat /\ Cardinality(A) <= Cardinality(1 .. mid - 1)
  <2> DEFINE to == 1 .. mid - 1
  <2>1. IsFiniteSet(to) /\ A \in SUBSET (1 .. n) /\ \A i \in 1 .. n : p[i] \in A => i \in to
    BY <1>1, <1>4
  <2> HIDE DEF to
  <2>2. Cardinality(A) \in Nat /\ Cardinality(A) <= Cardinality(to)
    BY <2>1, CountedThrough
  <2> QED
    BY <2>2 DEF to
<1>7. Cardinality(B) \in Nat /\ Cardinality(B) <= Cardinality(mid + 1 .. n)
  <2> DEFINE to == mid + 1 .. n
  <2>1. IsFiniteSet(to) /\ B \in SUBSET (1 .. n) /\ \A i \in 1 .. n : p[i] \in B => i \in to
    BY <1>2, <1>5
  <2> HIDE DEF to
  <2>2. Cardinality(B) \in Nat /\ Cardinality(B) <= Cardinality(to)
    BY <2>1, CountedThrough
  <2> QED
    BY <2>2 DEF to
<1>8. Cardinality(A) \in 0 .. mid - 1 /\ Cardinality(B) \in 0 .. n - mid
  BY <1>1, <1>2, <1>6, <1>7
<1> QED
  BY <1>8 DEF A, B, x

LEMMA SummaryIsTrue ==
  ASSUME NEW n \in Nat \ {0}, NEW f \in [1 .. n -> Int]
  PROVE  SummaryTrue(f, Summarized(f))
<1> DEFINE s == Sorted(f)
           mid == n \div 2 + 1
<1>1. PICK p \in [1 .. n -> 1 .. n] :
        /\ \A y \in 1 .. n : \E i \in 1 .. n : p[i] = y
        /\ s = [i \in 1 .. n |-> f[p[i]]]
        /\ IsAscending(s, n)
  BY SortedIs
<1>2. s \in [1 .. n -> Int] /\ \A i \in 1 .. n : s[i] = f[p[i]]
  BY <1>1
<1>3. mid \in 1 .. n /\ 2 * (mid - 1) <= n /\ 2 * (n - mid) < n
  BY SMT
<1>4. Summarized(f) = [median_ms |-> s[Len(s) \div 2 + 1], min_ms |-> s[1], max_ms |-> s[Len(s)]]
  BY Zenon DEF Summarized
<1> HIDE DEF s
<1>5. Len(s) = n /\ Len(f) = n
  BY <1>2
<1>6. /\ Summarized(f).median_ms = s[mid] /\ Summarized(f).min_ms = s[1]
      /\ Summarized(f).max_ms = s[n]
  BY <1>4, <1>5
<1> HIDE DEF mid
<1>7. n \in Nat
  OBVIOUS
<1>8. Splits(s, n, mid) /\ s[1] <= s[mid] /\ s[mid] <= s[n]
  BY <1>1, <1>2, <1>3, <1>7, MiddleSplits
<1> DEFINE below == Cardinality(Below(f, n, s[mid]))
           above == Cardinality(Above(f, n, s[mid]))
<1>9. below \in 0 .. mid - 1 /\ above \in 0 .. n - mid
  BY <1>1, <1>2, <1>3, <1>7, <1>8, SidesCounted
<1> HIDE DEF below, above
<1>10. 2 * below <= n /\ 2 * above < n
  BY <1>3, <1>9
<1> DEFINE a == Summarized(f)
<1> HIDE DEF a
<1>11. /\ a.min_ms <= a.median_ms /\ a.median_ms <= a.max_ms
       /\ below = Cardinality(Below(f, Len(f), a.median_ms))
       /\ above = Cardinality(Above(f, Len(f), a.median_ms))
       /\ 2 * below <= Len(f) /\ 2 * above < Len(f)
  BY <1>5, <1>6, <1>8, <1>10 DEF a, below, above
<1>12. SummaryTrue(f, a)
  BY <1>11, Zenon DEF SummaryTrue
<1> QED
  BY <1>12 DEF a

-----------------------------------------------------------------------------
(* The inductive invariant: what later calls take from earlier ones.       *)
CallFacts ==
  /\ call.fn = "round_f32" =>
       /\ \E dtype \in StorageDType, bits \in Floats :
            call = [fn |-> "round_f32", storage |-> dtype, bits |-> bits]
       /\ answer \in Floats
  /\ call.fn = "build" => answer = Refused \/ Config(answer)
  /\ call.fn = "encode" => Config(call.config) /\ answer \in Seq(TextLines)
  /\ call.fn = "apply_key" =>
       \E encoding \in KeyEncodings, row \in KeyRows, position \in 0 .. MaxPosition :
         /\ call = [fn |-> "apply_key", encoding |-> encoding, row |-> row, position |-> position]
         /\ Encoded(Turning(encoding), position, row, answer)

IInv ==
  /\ CallFacts /\ RoundedToNearestEven /\ SelectionIsBest /\ MappingsSound
  /\ DecodingIsFaithful /\ PositionsEncoded /\ EachElementOnce /\ BenchmarksAreTrue

(* A property is about the calls of its own functions.                     *)
LEMMA OtherCalls ==
  /\ call'.fn # "round_f32" => RoundedToNearestEven'
  /\ call'.fn # "tune" => SelectionIsBest'
  /\ call'.fn # "map_query_head" => MappingsSound'
  /\ call'.fn # "decode" => DecodingIsFaithful'
  /\ call'.fn \notin {"apply_key", "alibi_bias"} => PositionsEncoded'
  /\ call'.fn \notin {"regenerate_page", "row_range", "dot"} => EachElementOnce'
  /\ call'.fn \notin {"measure", "run_cold", "summarize"} => BenchmarksAreTrue'
  /\ call'.fn \notin {"round_f32", "build", "encode", "apply_key"} => CallFacts'
<1>1. call'.fn # "round_f32" => RoundedToNearestEven'
  BY Zenon DEF RoundedToNearestEven
<1>2. call'.fn # "tune" => SelectionIsBest'
  BY Zenon DEF SelectionIsBest
<1>3. call'.fn # "map_query_head" => MappingsSound'
  BY Zenon DEF MappingsSound
<1>4. call'.fn # "decode" => DecodingIsFaithful'
  BY Zenon DEF DecodingIsFaithful
<1>5. call'.fn \notin {"apply_key", "alibi_bias"} => PositionsEncoded'
  BY Zenon DEF PositionsEncoded
<1>6. call'.fn \notin {"regenerate_page", "row_range", "dot"} => EachElementOnce'
  BY Zenon DEF EachElementOnce
<1>7. call'.fn \notin {"measure", "run_cold", "summarize"} => BenchmarksAreTrue'
  BY Zenon DEF BenchmarksAreTrue
<1>8. call'.fn \notin {"round_f32", "build", "encode", "apply_key"} => CallFacts'
  BY Zenon DEF CallFacts
<1> QED
  BY <1>1, <1>2, <1>3, <1>4, <1>5, <1>6, <1>7, <1>8

(* round_f32, on any float.                                                *)
LEMMA RoundKeeps ==
  ASSUME NEW dtype \in StorageDType, NEW bits \in Floats,
         call' = [fn |-> "round_f32", storage |-> dtype, bits |-> bits],
         answer' = Rounded(dtype, bits)
  PROVE  IInv'
<1>1. call'.fn = "round_f32" /\ call'.storage = dtype /\ call'.bits = bits
  OBVIOUS
<1>2. IsNearestEven(dtype, bits, Rounded(dtype, bits)) /\ Rounded(dtype, bits) \in Floats
  BY RoundedFloats
<1>3. RoundedToNearestEven'
  BY <1>1, <1>2 DEF RoundedToNearestEven
<1>4. CallFacts'
  BY <1>1, <1>2 DEF CallFacts
<1> QED
  BY <1>1, <1>3, <1>4, OtherCalls DEF IInv

(* round_f32, on a row that it gave.                                       *)
LEMMA RoundAgainKeeps ==
  ASSUME IInv, RoundAgain
  PROVE  IInv'
<1>1. PICK dtype \in StorageDType, bits \in Floats :
        call = [fn |-> "round_f32", storage |-> dtype, bits |-> bits]
  BY DEF IInv, CallFacts, RoundAgain
<1>2. answer \in Floats /\ call' = [call EXCEPT !.bits = answer] /\ answer' = Rounded(call.storage, answer)
  BY DEF IInv, CallFacts, RoundAgain
<1>3. call' = [fn |-> "round_f32", storage |-> dtype, bits |-> answer] /\ call.storage = dtype
  BY <1>1, <1>2
<1> QED
  BY <1>2, <1>3, RoundKeeps

(* tune.                                                                   *)
LEMMA TuneKeeps ==
  ASSUME NEW input \in Inputs, Tune(input)
  PROVE  IInv'
<1>1. call' = [fn |-> "tune", input |-> input] /\ answer' = Tuned(input)
  BY Zenon DEF Tune
<1>2. call'.fn = "tune" /\ call'.input = input
  BY <1>1
<1>3. input \in InputSet
  BY CallersAssumption DEF InputSet
<1> DEFINE s == Tuned(input)
<1>4. s.pc # "loop" /\ s.page_tokens <= UsizeMax /\ (s.pc # "refused" => IsBestOf(input, s))
  BY <1>3, TunedIsBest
<1> HIDE DEF s
<1>5. SelectionIsBest'
  BY <1>1, <1>2, <1>4, Zenon DEF SelectionIsBest, s
<1> QED
  BY <1>2, <1>5, OtherCalls DEF IInv

(* map_query_head, on a topology that is accepted.                         *)
LEMMA MapKeeps ==
  ASSUME NEW kind \in Kinds, NEW q \in 0 .. MaxHeads, NEW kv \in 0 .. MaxHeads, NEW head \in 0 .. MaxHeads,
         MapQueryHead(Topology(kind, q, kv), head)
  PROVE  IInv'
<1> DEFINE t == Topology(kind, q, kv)
<1>1. /\ call' = [fn |-> "map_query_head", topology |-> t, query_head |-> head]
      /\ Accepted(t) /\ HeadInRange(t, head)
  BY Zenon DEF MapQueryHead
<1>2. call'.fn = "map_query_head" /\ call'.topology = t /\ call'.query_head = head
  BY <1>1
<1>3. t \in TopologyFields /\ t.query_heads = q
  BY CallersAssumption DEF Topology, TopologyFields
<1> HIDE DEF t
<1>4. head \in 0 .. t.query_heads - 1
  BY <1>1, <1>3, CallersAssumption DEF HeadInRange
<1>5. MappingSound(t, head) /\ GroupIsShared(t, head)
  BY <1>1, <1>3, <1>4, MappingIsSound, GroupsAreShared
<1>6. MappingsSound'
  BY <1>2, <1>5, Zenon DEF MappingsSound
<1> QED
  BY <1>2, <1>6, OtherCalls DEF IInv

(* build, whose configuration is one that decode would accept.             *)
LEMMA BuildKeeps ==
  ASSUME NEW b \in Builders, Build(b)
  PROVE  IInv'
<1>1. /\ call' = [fn |-> "build", builder |-> b]
      /\ answer' = IF Valid(Built(b)) THEN Built(b) ELSE Refused
  BY Zenon DEF Build
<1>2. call'.fn = "build"
  BY <1>1
<1>3. IsBuilder(b)
  BY Zenon, CallersAssumption
<1>4. answer' = Refused \/ Config(answer')
  BY <1>1, <1>3, BuiltIsConfig
<1>5. CallFacts'
  BY <1>2, <1>4 DEF CallFacts
<1> QED
  BY <1>2, <1>5, OtherCalls DEF IInv

(* encode.                                                                 *)
LEMMA EncodeKeeps ==
  ASSUME IInv, EncodeText
  PROVE  IInv'
<1>1. Config(answer) /\ call' = [fn |-> "encode", config |-> answer] /\ answer' = Encode(answer)
  BY DEF IInv, CallFacts, EncodeText
<1>2. call'.fn = "encode" /\ call'.config = answer
  BY <1>1
<1>3. Encode(answer) \in Seq(TextLines)
  BY <1>1, EncodedLines
<1>4. CallFacts'
  BY <1>1, <1>2, <1>3 DEF CallFacts
<1> QED
  BY <1>2, <1>4, OtherCalls DEF IInv

(* An edit of the text that was encoded.                                   *)
LEMMA EditKeeps ==
  ASSUME IInv, EditText
  PROVE  IInv'
<1>1. call.fn = "encode" /\ call' = call /\ Config(call.config) /\ answer \in Seq(TextLines)
  BY DEF IInv, CallFacts, EditText
<1>2. answer' \in Seq(TextLines)
  <2>1. \/ \E i \in 1 .. Len(answer) : answer' = RemoveAt(answer, i)
        \/ \E i \in 1 .. Len(answer) + 1 : \E line \in Lines : answer' = InsertAt(answer, i, line)
    BY <1>1, LenProperties DEF EditText
  <2>2. /\ \A i \in 1 .. Len(answer) : RemoveAt(answer, i) \in Seq(TextLines)
        /\ \A i \in 1 .. Len(answer) + 1 : \A line \in TextLines :
             InsertAt(answer, i, line) \in Seq(TextLines)
    BY <1>1, EditsAreTexts
  <2> QED
    BY <2>1, <2>2, LinesAreTextLines, Zenon
<1>3. CallFacts'
  BY <1>1, <1>2 DEF CallFacts
<1> QED
  BY <1>1, <1>3, OtherCalls DEF IInv

(* decode, of the text as it was edited.                                   *)
LEMMA DecodeKeeps ==
  ASSUME IInv, DecodeText
  PROVE  IInv'
<1>1. /\ Config(call.config) /\ answer \in Seq(TextLines)
      /\ call' = [fn |-> "decode", config |-> call.config, text |-> answer]
      /\ answer' = Decoded(answer)
  BY DEF IInv, CallFacts, DecodeText
<1>2. call'.fn = "decode" /\ call'.config = call.config /\ call'.text = answer
  BY <1>1
<1> DEFINE text == answer
           c == call.config
<1>3. Decoded(text) # Refused => SaysAll(text, Decoded(text))
  BY <1>1, AcceptedSaysAll
<1>4. Len(text) = 8 /\ ToSet(text) = ToSet(Encode(c)) => Decoded(text) = c
  BY <1>1, WrittenIsRead
<1> HIDE DEF text, c
<1>5. DecodingIsFaithful'
  BY <1>1, <1>2, <1>3, <1>4, Zenon DEF DecodingIsFaithful, SaysAll, text, c
<1> QED
  BY <1>2, <1>5, OtherCalls DEF IInv

(* A call of apply_key, at whatever position it has come to.               *)
LEMMA KeyKeeps ==
  ASSUME NEW encoding \in KeyEncodings, NEW row \in KeyRows, NEW position \in 0 .. MaxPosition,
         call' = [fn |-> "apply_key", encoding |-> encoding, row |-> row, position |-> position],
         Encoded(Turning(encoding), position, row, answer')
  PROVE  IInv'
<1>1. /\ call'.fn = "apply_key" /\ call'.encoding = encoding /\ call'.row = row
      /\ call'.position = position
  OBVIOUS
<1>2. KeyTrue(encoding, position, row, answer')
  BY CallersAssumption, EncodedIsTrue
<1>3. PositionsEncoded'
  BY <1>1, <1>2, Zenon DEF PositionsEncoded, KeyTrue, Turning
<1>4. CallFacts'
  <2>1. \E e \in KeyEncodings, r \in KeyRows, p \in 0 .. MaxPosition :
          /\ call' = [fn |-> "apply_key", encoding |-> e, row |-> r, position |-> p]
          /\ Encoded(Turning(e), p, r, answer')
    OBVIOUS
  <2> QED
    BY <1>1, <2>1, Zenon DEF CallFacts
<1> QED
  BY <1>1, <1>3, <1>4, OtherCalls DEF IInv

(* The first call of apply_key.                                            *)
LEMMA EncodeKeyKeeps ==
  ASSUME NEW encoding \in KeyEncodings, NEW position \in 0 .. MaxPosition, NEW row \in KeyRows,
         EncodeKey(encoding, position, row)
  PROVE  IInv'
<1>1. /\ call' = [fn |-> "apply_key", encoding |-> encoding, row |-> row, position |-> position]
      /\ answer' = ApplyKey(encoding, position, row)
  BY Zenon DEF EncodeKey
<1>2. row \in Seq(Int) /\ position \in Nat
  BY CallersAssumption DEF IsKeyRow
<1>3. Encoded(Turning(encoding), position, row, answer')
  BY <1>1, <1>2, ApplyKeyEncodes
<1> QED
  BY <1>1, <1>3, KeyKeeps

(* A move of a key that was turned.                                        *)
LEMMA MoveKeyKeeps ==
  ASSUME IInv, NEW n \in 1 .. MaxPosition, MoveKey(n)
  PROVE  IInv'
<1>1. PICK encoding \in KeyEncodings, row \in KeyRows, position \in 0 .. MaxPosition :
        /\ call = [fn |-> "apply_key", encoding |-> encoding, row |-> row, position |-> position]
        /\ Encoded(Turning(encoding), position, row, answer)
  <2>1. call.fn = "apply_key"
    BY DEF MoveKey
  <2> QED
    BY <2>1, Zenon DEF IInv, CallFacts
<1>2. call.encoding = encoding /\ call.row = row /\ call.position = position
  BY <1>1
<1>3. /\ answer.ok /\ position + n <= MaxPosition
      /\ call' = [call EXCEPT !.position = @ + n]
      /\ answer' = ApplyKey(encoding, n, answer.row)
  BY <1>2 DEF MoveKey
<1>4. row \in Seq(Int) /\ position \in Nat /\ n \in Nat /\ position + n \in 0 .. MaxPosition
  BY <1>3, CallersAssumption DEF IsKeyRow
<1>5. call' = [fn |-> "apply_key", encoding |-> encoding, row |-> row, position |-> position + n]
  BY <1>1, <1>3
<1>6. Encoded(Turning(encoding), position + n, row, answer')
  BY <1>1, <1>3, <1>4, EncodedFurther
<1> QED
  BY <1>4, <1>5, <1>6, KeyKeeps

(* alibi_bias.                                                             *)
LEMMA BiasKeeps ==
  ASSUME NEW slopes \in Slopes, NEW head \in Nat, NEW q \in Nat, NEW k \in Nat,
         Bias(slopes, head, q, k)
  PROVE  IInv'
<1>1. /\ call' = [fn |-> "alibi_bias", slopes |-> slopes, head |-> head,
                  query_position |-> q, key_position |-> k]
      /\ answer' = AlibiBias(slopes, head, q, k) /\ AlibiAccepted(slopes)
  BY Zenon DEF Bias
<1>2. /\ call'.fn = "alibi_bias" /\ call'.slopes = slopes /\ call'.head = head
      /\ call'.query_position = q /\ call'.key_position = k
  BY <1>1
<1>3. BiasTrue(slopes, head, q, k, answer')
  BY <1>1, BiasesFall, CallersAssumption
<1>4. PositionsEncoded'
  BY <1>2, <1>3, Zenon DEF PositionsEncoded, BiasTrue
<1> QED
  BY <1>2, <1>4, OtherCalls DEF IInv

(* The dot products.                                                       *)
LEMMA DotKeeps ==
  ASSUME NEW kernel, NEW lhs \in 0 .. MaxRow, NEW rhs \in 0 .. MaxRow, DotProduct(kernel, lhs, rhs)
  PROVE  IInv'
<1>1. /\ call' = [fn |-> "dot", lhs_len |-> lhs, rhs_len |-> rhs]
      /\ answer' = Dot(kernel, lhs, rhs)
  BY Zenon DEF DotProduct
<1>2. call'.fn = "dot" /\ call'.lhs_len = lhs /\ call'.rhs_len = rhs
  BY <1>1
<1>3. lhs \in Nat /\ (lhs = rhs => Paired(lhs, answer'))
  <2>1. lhs \in Nat
    BY CallersAssumption
  <2>2. lhs = rhs => answer' = Dot(kernel, lhs, lhs)
    BY <1>1
  <2> QED
    BY <2>1, <2>2, DotIsPaired
<1>4. EachElementOnce'
  BY <1>2, <1>3, Zenon DEF EachElementOnce, Paired
<1> QED
  BY <1>2, <1>4, OtherCalls DEF IInv

(* checked_row_range.                                                      *)
LEMMA RowRangeKeeps ==
  ASSUME NEW row \in Nat, NEW width \in Nat, NEW total_len \in Nat, RowRange(row, width, total_len)
  PROVE  IInv'
<1>1. /\ call' = [fn |-> "row_range", row |-> row, width |-> width, total_len |-> total_len]
      /\ answer' = CheckedRowRange(row, width, total_len)
  BY Zenon DEF RowRange
<1>2. /\ call'.fn = "row_range" /\ call'.row = row /\ call'.width = width
      /\ call'.total_len = total_len
  BY <1>1
<1>3. RangeInside(row, width, total_len, answer')
  BY <1>1, RowRangeInside
<1>4. EachElementOnce'
  BY <1>2, <1>3, Zenon DEF EachElementOnce, RangeInside
<1> QED
  BY <1>2, <1>4, OtherCalls DEF IInv

(* A page that is tiled, of a matrix that holds it.                        *)
LEMMA TiledKeeps ==
  ASSUME NEW first, NEW end, NEW head_dim, NEW len, NEW elements,
         call' = [fn |-> "regenerate_page", first |-> first, end |-> end, head_dim |-> head_dim,
                  len |-> len, elements |-> elements],
         answer' # << >> => Tiled(first, end, head_dim, len, answer') /\ end * head_dim <= elements
  PROVE  IInv'
<1>1. /\ call'.fn = "regenerate_page" /\ call'.first = first /\ call'.end = end
      /\ call'.head_dim = head_dim /\ call'.len = len /\ call'.elements = elements
  OBVIOUS
<1>2. EachElementOnce'
  BY <1>1, Zenon DEF EachElementOnce, Tiled
<1> QED
  BY <1>1, <1>2, OtherCalls DEF IInv

(* regenerate_page, of the row loop.                                       *)
LEMMA PageKeeps ==
  ASSUME NEW first \in Nat, NEW end \in Nat, NEW head_dim \in Nat, NEW len \in Nat,
         RegeneratePage(first, end, head_dim, len)
  PROVE  IInv'
<1>1. /\ call' = [fn |-> "regenerate_page", first |-> first, end |-> end, head_dim |-> head_dim,
                  len |-> len, elements |-> end * head_dim]
      /\ answer' = PageWrites(first, end, head_dim, len)
  BY Zenon DEF RegeneratePage
<1>2. answer' # << >> => Tiled(first, end, head_dim, len, answer')
  BY <1>1, PageIsTiled
<1>3. end * head_dim <= end * head_dim
  BY SMT
<1> QED
  BY <1>1, <1>2, <1>3, TiledKeeps

(* The copy of a stored page.                                              *)
LEMMA CopyKeeps ==
  ASSUME NEW context \in Nat, NEW k_bytes \in Nat, NEW v_bytes \in Nat,
         NEW first \in Nat, NEW end \in Nat, NEW head_dim \in Nat, NEW len \in Nat,
         CopyPage(context, k_bytes, v_bytes, first, end, head_dim, len)
  PROVE  IInv'
<1> DEFINE elements == Artifact(context, head_dim, k_bytes, v_bytes)
           out == ExactWrites(context, head_dim, first, end, head_dim, len)
<1>1. /\ call' = [fn |-> "regenerate_page", first |-> first, end |-> end, head_dim |-> head_dim,
                  len |-> len, elements |-> elements]
      /\ answer' = out /\ elements # Failed
  BY Zenon DEF CopyPage
<1>2. elements = context * head_dim
  <2>1. elements = CheckedMul(context, head_dim)
    BY <1>1, Zenon DEF Artifact
  <2> QED
    BY <1>1, <2>1, Products
<1>3. out # << >> => Tiled(first, end, head_dim, len, out) /\ end <= context
  BY CopyIsTiled
<1>4. end <= context => end * head_dim <= context * head_dim
  BY SMT
<1> HIDE DEF elements, out
<1>5. answer' # << >> => Tiled(first, end, head_dim, len, answer') /\ end * head_dim <= elements
  BY <1>1, <1>2, <1>3, <1>4
<1> QED
  BY <1>1, <1>5, TiledKeeps

(* measure_cfr, of the options of bench_cfr or of run_hot.                 *)
LEMMA MeasureKeeps ==
  ASSUME NEW o, Numbers(o), call' = [fn |-> "measure", options |-> o], answer' = MeasureCfr(o)
  PROVE  IInv'
<1>1. call'.fn = "measure" /\ call'.options = o
  OBVIOUS
<1>2. answer' # Refused => MeasureTrue(o, answer')
  BY MeasureIsTrue
<1>3. BenchmarksAreTrue'
  BY <1>1, <1>2, Zenon DEF BenchmarksAreTrue, MeasureTrue, Uncached
<1> QED
  BY <1>1, <1>3, OtherCalls DEF IInv

(* run_cold.                                                               *)
LEMMA RunColdKeeps ==
  ASSUME NEW o, Numbers(o), RunOnce(o)
  PROVE  IInv'
<1>1. call' = [fn |-> "run_cold", options |-> o] /\ answer' = RunCold(o)
  BY Zenon DEF RunOnce
<1>2. call'.fn = "run_cold" /\ call'.options = o
  BY <1>1
<1>3. answer' # Refused => OnceTrue(o, answer')
  BY <1>1, OnceIsTrue
<1>4. BenchmarksAreTrue'
  BY <1>2, <1>3, Zenon DEF BenchmarksAreTrue, OnceTrue
<1> QED
  BY <1>2, <1>4, OtherCalls DEF IInv

(* summarize.                                                              *)
LEMMA SummarizeKeeps ==
  ASSUME NEW n \in Nat \ {0}, NEW samples \in [1 .. n -> Int], Summarize(samples)
  PROVE  IInv'
<1>1. call' = [fn |-> "summarize", samples |-> samples] /\ answer' = Summarized(samples)
  BY Zenon DEF Summarize
<1>2. call'.fn = "summarize" /\ call'.samples = samples
  BY <1>1
<1>3. SummaryTrue(samples, answer')
  BY <1>1, SummaryIsTrue
<1>4. DOMAIN samples = 1 .. Len(samples)
  OBVIOUS
<1>5. BenchmarksAreTrue'
  BY <1>2, <1>3, <1>4, Zenon DEF BenchmarksAreTrue, SummaryTrue, Below, Above
<1> QED
  BY <1>2, <1>5, OtherCalls DEF IInv

(* Before the first call.                                                  *)
LEMMA InitInv ==
  Init => IInv
<1> SUFFICES ASSUME Init PROVE IInv
  OBVIOUS
<1>1. call.fn = "none"
  BY DEF Init
<1>2. RoundedToNearestEven /\ SelectionIsBest /\ MappingsSound
  BY <1>1, Zenon DEF RoundedToNearestEven, SelectionIsBest, MappingsSound
<1>3. DecodingIsFaithful /\ PositionsEncoded /\ EachElementOnce /\ CallFacts
  BY <1>1, Zenon DEF DecodingIsFaithful, PositionsEncoded, EachElementOnce, CallFacts
<1>4. BenchmarksAreTrue
  BY <1>1, Zenon DEF BenchmarksAreTrue
<1> QED
  BY <1>2, <1>3, <1>4 DEF IInv

(* Each of the first calls.                                                *)
LEMMA FirstCallKeeps ==
  ASSUME FirstCall
  PROVE  IInv'
<1>1. CASE \E dtype \in StorageDType : \E bits \in Floats : RoundF32(dtype, bits)
  <2>1. PICK dtype \in StorageDType, bits \in Floats : RoundF32(dtype, bits)
    BY <1>1
  <2>2. call' = [fn |-> "round_f32", storage |-> dtype, bits |-> bits] /\ answer' = Rounded(dtype, bits)
    BY <2>1, Zenon DEF RoundF32
  <2> QED
    BY <2>2, RoundKeeps
<1>2. CASE \E input \in Inputs : Tune(input)
  BY <1>2, TuneKeeps
<1>3. CASE \E kind \in Kinds : \E q, kv, head \in 0 .. MaxHeads :
             MapQueryHead(Topology(kind, q, kv), head)
  BY <1>3, MapKeeps
<1>4. CASE \E b \in Builders : Build(b)
  BY <1>4, BuildKeeps
<1>5. CASE \E dims \in 0 .. MaxDims, position \in 0 .. MaxPosition, row \in KeyRows :
             EncodeKey([kind |-> "rope", dims |-> dims], position, row)
  <2>1. PICK dims \in 0 .. MaxDims, position \in 0 .. MaxPosition, row \in KeyRows :
               EncodeKey([kind |-> "rope", dims |-> dims], position, row)
    BY <1>5
  <2> DEFINE encoding == [kind |-> "rope", dims |-> dims]
  <2>2. encoding.kind = "rope" /\ encoding.dims = dims
    OBVIOUS
  <2>3. RopeAccepted(dims)
    BY <2>1, <2>2 DEF EncodeKey
  <2>4. encoding \in KeyEncodings
    BY <2>2, <2>3 DEF KeyEncodings
  <2> QED
    BY <2>1, <2>4, EncodeKeyKeeps
<1>6. CASE \E position \in 0 .. MaxPosition, row \in KeyRows :
             EncodeKey([kind |-> "none"], position, row)
  <2>1. [kind |-> "none"] \in KeyEncodings
    BY DEF KeyEncodings
  <2> QED
    BY <1>6, <2>1, EncodeKeyKeeps
<1>7. CASE \E slopes \in Slopes, head \in 0 .. MaxHeads, q, k \in 0 .. ExactMax + 1 :
             Bias(slopes, head, q, k)
  <2>1. PICK slopes \in Slopes, head \in 0 .. MaxHeads, q \in 0 .. ExactMax + 1, k \in 0 .. ExactMax + 1 :
               Bias(slopes, head, q, k)
    BY <1>7
  <2>2. head \in Nat /\ q \in Nat /\ k \in Nat
    BY PositionAssumption, CallersAssumption
  <2> QED
    BY <2>1, <2>2, BiasKeeps
<1>8. CASE \E kernel \in {"scalar", "auto_vectorized"}, lhs, rhs \in 0 .. MaxRow :
             DotProduct(kernel, lhs, rhs)
  BY <1>8, DotKeeps
<1>9. CASE \E first, end \in 0 .. MaxTokens, head_dim \in 0 .. MaxWidth,
                len \in 0 .. MaxTokens * MaxWidth :
             \/ RegeneratePage(first, end, head_dim, len)
             \/ \E context \in 0 .. MaxTokens, k_bytes, v_bytes \in FileBytes :
                  CopyPage(context, k_bytes, v_bytes, first, end, head_dim, len)
  <2>1. PICK first \in 0 .. MaxTokens, end \in 0 .. MaxTokens, head_dim \in 0 .. MaxWidth,
             len \in 0 .. MaxTokens * MaxWidth :
               \/ RegeneratePage(first, end, head_dim, len)
               \/ \E context \in 0 .. MaxTokens, k_bytes, v_bytes \in FileBytes :
                    CopyPage(context, k_bytes, v_bytes, first, end, head_dim, len)
    BY <1>9
  <2>2. first \in Nat /\ end \in Nat /\ head_dim \in Nat /\ len \in Nat
    <3>1. MaxTokens * MaxWidth \in Nat
      BY CallersAssumption, SMT
    <3> QED
      BY <3>1, CallersAssumption
  <2>3. CASE RegeneratePage(first, end, head_dim, len)
    BY <2>2, <2>3, PageKeeps
  <2>4. ASSUME NEW context \in 0 .. MaxTokens, NEW k_bytes \in FileBytes, NEW v_bytes \in FileBytes,
               CopyPage(context, k_bytes, v_bytes, first, end, head_dim, len)
        PROVE  IInv'
    <3>1. context \in Nat /\ k_bytes \in Nat /\ v_bytes \in Nat
      BY CallersAssumption
    <3> QED
      BY <2>2, <2>4, <3>1, CopyKeeps
  <2> QED
    BY <2>1, <2>3, <2>4
<1>10. CASE \E row \in 0 .. MaxTokens, width \in 0 .. MaxWidth, total_len \in 0 .. MaxRow :
              RowRange(row, width, total_len)
  <2>1. PICK row \in 0 .. MaxTokens, width \in 0 .. MaxWidth, total_len \in 0 .. MaxRow :
               RowRange(row, width, total_len)
    BY <1>10
  <2>2. row \in Nat /\ width \in Nat /\ total_len \in Nat
    BY CallersAssumption
  <2> QED
    BY <2>1, <2>2, RowRangeKeeps
<1>11. CASE \E o \in Options : Measure(o) \/ RunHot(o) \/ RunOnce(o)
  <2>1. PICK o \in Options : Measure(o) \/ RunHot(o) \/ RunOnce(o)
    BY <1>11
  <2>2. Numbers(o) /\ Numbers(RunHotOptions(o))
    BY CallersAssumption, OptionNumbers, HotNumbers
  <2>3. CASE Measure(o)
    BY <2>2, <2>3, MeasureKeeps DEF Measure
  <2>4. CASE RunHot(o)
    BY <2>2, <2>4, MeasureKeeps DEF RunHot
  <2>5. CASE RunOnce(o)
    BY <2>2, <2>5, RunColdKeeps
  <2> QED
    BY <2>1, <2>3, <2>4, <2>5
<1>12. CASE \E n \in 1 .. MaxSamples : \E samples \in [1 .. n -> Times] : Summarize(samples)
  <2>1. PICK n \in 1 .. MaxSamples : \E samples \in [1 .. n -> Times] : Summarize(samples)
    BY <1>12
  <2>2. PICK samples \in [1 .. n -> Times] : Summarize(samples)
    BY <2>1
  <2>3. n \in Nat \ {0} /\ samples \in [1 .. n -> Int]
    <3>1. MaxSamples \in Nat /\ Times \subseteq Int
      BY CallersAssumption
    <3>2. n \in Nat \ {0}
      BY <3>1
    <3>3. \A i \in 1 .. n : samples[i] \in Int
      BY <3>1
    <3>4. samples = [i \in 1 .. n |-> samples[i]]
      OBVIOUS
    <3> QED
      BY <3>2, <3>3, <3>4
  <2> QED
    BY <2>2, <2>3, SummarizeKeeps
<1> QED
  BY <1>1, <1>2, <1>3, <1>4, <1>5, <1>6, <1>7, <1>8, <1>9, <1>10, <1>11, <1>12, Zenon
  DEF FirstCall

(* Each step.                                                              *)
LEMMA NextInv ==
  IInv /\ [Next]_vars => IInv'
<1> SUFFICES ASSUME IInv, [Next]_vars PROVE IInv'
  OBVIOUS
<1>1. CASE FirstCall
  BY <1>1, FirstCallKeeps
<1>2. CASE RoundAgain \/ EncodeText \/ EditText \/ DecodeText
  BY <1>2, RoundAgainKeeps, EncodeKeeps, EditKeeps, DecodeKeeps
<1>3. CASE \E position \in 1 .. MaxPosition : MoveKey(position)
  BY <1>3, MoveKeyKeeps
<1>4. CASE UNCHANGED vars
  BY <1>4 DEF vars, IInv, CallFacts, RoundedToNearestEven, SelectionIsBest, MappingsSound,
              DecodingIsFaithful, PositionsEncoded, EachElementOnce, BenchmarksAreTrue
<1> QED
  BY <1>1, <1>2, <1>3, <1>4, Zenon DEF Next

(* The invariant is one of the specification.                              *)
LEMMA Invariance ==
  Spec => []IInv
BY InitInv, NextInv, PTL DEF Spec

-----------------------------------------------------------------------------
(* For floats of any two widths, round_f32 gives the nearest number of the *)
(* store, ties to even: in the normal range, among the subnormals, where   *)
(* they end, and where a carry reaches the exponent or infinity.           *)
THEOREM RoundingIsNearest ==
  Spec => []RoundedToNearestEven
<1>1. IInv => RoundedToNearestEven
  BY DEF IInv
<1> QED
  BY <1>1, Invariance, PTL

(* For every input of tune, its loop ends before a doubling overflows and  *)
(* after at most as many turns as usize has bits and one, and the page     *)
(* size is the best of those within the bounds, or the error explained.    *)
THEOREM TunedSelectionIsBest ==
  Spec => []SelectionIsBest
<1>1. IInv => SelectionIsBest
  BY DEF IInv
<1> QED
  BY <1>1, Invariance, PTL

(* For every number of query and KV heads that is accepted, map_query_head *)
(* names a KV head that exists and the heads that share it, without a wrap.*)
THEOREM HeadsAreMapped ==
  Spec => []MappingsSound
<1>1. IInv => MappingsSound
  BY DEF IInv
<1> QED
  BY <1>1, Invariance, PTL

(* For every configuration and every sequence of edits of its text, decode *)
(* accepts the text only if each field stands in it once, with the value   *)
(* returned, and never refuses what encode wrote, in whatever order.       *)
THEOREM TextsAreFaithful ==
  Spec => []DecodingIsFaithful
<1>1. IInv => DecodingIsFaithful
  BY DEF IInv
<1> QED
  BY <1>1, Invariance, PTL

(* A row that apply_key turned, at once or in moves, has each pair turned  *)
(* by its own angle at the position it has come to, with the norm that it  *)
(* had, and the rest as it was: for any number of dimensions, any rates,   *)
(* positions and rows of any length, and any angle whose cosine and sine   *)
(* are fractions.  The numbers are exact, so the rows are those that have  *)
(* no broken number on the way to the last position, as rows of fractions  *)
(* have none in a small enough unit; what rounding adds is not said.  And  *)
(* a bias falls with the distance.                                         *)
THEOREM KeysArePositioned ==
  Spec => []PositionsEncoded
<1>1. IInv => PositionsEncoded
  BY DEF IInv
<1> QED
  BY <1>1, Invariance, PTL

(* For matrices of any number of tokens and any width, pages from anywhere *)
(* to anywhere, buffers and files of any length, every element of a page   *)
(* comes from its own token and dimension, a row range stays inside, and   *)
(* both dot products take every index once, with a remainder or without.   *)
THEOREM RowsAreTiled ==
  Spec => []EachElementOnce
<1>1. IInv => EachElementOnce
  BY DEF IInv
<1> QED
  BY <1>1, Invariance, PTL

(* What the benchmarks print holds for options of any size: after the      *)
(* warm-up every run has the same hits and regenerations, whatever the     *)
(* budget holds of what the policy admits, the bytes stay within the       *)
(* estimate, a run without a cache has no hit, and half of the timings are *)
(* on either side of the median.                                           *)
THEOREM BenchmarksRepeat ==
  Spec => []BenchmarksAreTrue
<1>1. IInv => BenchmarksAreTrue
  BY DEF IInv
<1> QED
  BY <1>1, Invariance, PTL

================================================================================
