------------------------- MODULE FoldedAttentionProofs -------------------------
(***************************************************************************)
(* Theorems about FoldedAttention, for any logits, values, pages and count *)
(* of tokens: the reducer is the softmax of the rows it has folded, and    *)
(* what it writes is their weighted mean.                                  *)
(***************************************************************************)
EXTENDS FoldedAttention, FiniteSetTheorems, SequenceTheorems, TLAPS

-----------------------------------------------------------------------------
(* Induction, and folds.                                                   *)

(* The library's induction takes an operator; this one takes the set of    *)
(* the numbers for which something holds.                                  *)
LEMMA NatSetInduction ==
  ASSUME NEW S, 0 \in S, \A n \in Nat : n \in S => n + 1 \in S
  PROVE  Nat \subseteq S
<1> DEFINE T == Nat \ S
<1> SUFFICES ASSUME T # {} PROVE FALSE
  OBVIOUS
<1>1. PICK x \in T : \A y \in T : ~ (<<y, x>> \in OpToRel(<, Nat))
  <2>1. T \subseteq Nat
    OBVIOUS
  <2> HIDE DEF T
  <2>2. QED
    BY <2>1, WFMin, NatLessThanWellFounded
<1>2. \A y \in T : ~(y < x)
  BY <1>1 DEF OpToRel
<1>3. x # 0 /\ x \in Nat
  OBVIOUS
<1>4. x - 1 \in Nat /\ x - 1 < x
  BY <1>3
<1>5. x - 1 \in S
  BY <1>2, <1>4
<1>6. QED
  BY <1>3, <1>4, <1>5

(* pick takes an element out of every subset of D, and it is the iteration *)
(* that MapThenFoldSet chooses.                                            *)
Picks(pick, D) == DOMAIN pick = SUBSET D /\ \A s \in SUBSET D : s # {} => pick[s] \in s

Folds(it, D, base, step, pick) ==
  \A s \in SUBSET D : it[s] = IF s = {} THEN base ELSE step[<<pick[s], it[s \ {pick[s]}]>>]

LEMMA FoldExists ==
  ASSUME NEW D, IsFiniteSet(D), NEW V, NEW base \in V, NEW step \in [D \X V -> V],
         NEW pick, Picks(pick, D)
  PROVE  \E it \in [SUBSET D -> V] : Folds(it, D, base, step, pick)
<1> DEFINE OK(it, s) == it[s] = IF s = {} THEN base ELSE step[<<pick[s], it[s \ {pick[s]}]>>]
<1> DEFINE Upto(it, n) == \A s \in SUBSET D : Cardinality(s) <= n => OK(it, s)
<1> DEFINE S == {n \in Nat : \E it \in [SUBSET D -> V] : Upto(it, n)}
<1>0. \A s \in SUBSET D : /\ IsFiniteSet(s) /\ Cardinality(s) \in Nat
                          /\ Cardinality(s) <= 0 => s = {}
                          /\ s # {} => /\ s \ {pick[s]} \in SUBSET D
                                       /\ Cardinality(s \ {pick[s]}) = Cardinality(s) - 1
  <2> SUFFICES ASSUME NEW s \in SUBSET D
               PROVE  /\ IsFiniteSet(s) /\ Cardinality(s) \in Nat
                      /\ Cardinality(s) <= 0 => s = {}
                      /\ s # {} => /\ s \ {pick[s]} \in SUBSET D
                                   /\ Cardinality(s \ {pick[s]}) = Cardinality(s) - 1
    OBVIOUS
  <2>1. IsFiniteSet(s) /\ Cardinality(s) \in Nat
    BY FS_Subset, FS_CardinalityType
  <2>2. Cardinality(s) = 0 <=> s = {}
    BY <2>1, FS_EmptySet
  <2>3. s # {} => Cardinality(s \ {pick[s]}) = Cardinality(s) - 1
    BY <2>1, FS_RemoveElement DEF Picks
  <2>4. QED
    BY <2>1, <2>2, <2>3
<1>1. 0 \in S
  <2> DEFINE g == [s \in SUBSET D |-> base]
  <2>1. g \in [SUBSET D -> V] /\ Upto(g, 0)
    BY <1>0
  <2>2. QED
    BY <2>1
<1>2. ASSUME NEW n \in Nat, n \in S
      PROVE  n + 1 \in S
  <2>1. PICK f \in [SUBSET D -> V] : Upto(f, n)
    BY <1>2
  <2> DEFINE g == [s \in SUBSET D |-> IF s = {} THEN base ELSE step[<<pick[s], f[s \ {pick[s]}]>>]]
  <2>2. g \in [SUBSET D -> V]
    BY DEF Picks
  <2>3. \A s \in SUBSET D : Cardinality(s) <= n => f[s] = g[s]
    BY <2>1
  <2>4. \A s \in SUBSET D : s # {} /\ Cardinality(s) <= n + 1 => f[s \ {pick[s]}] = g[s \ {pick[s]}]
    <3> HIDE DEF g
    <3> SUFFICES ASSUME NEW s \in SUBSET D, s # {}, Cardinality(s) <= n + 1
                 PROVE  f[s \ {pick[s]}] = g[s \ {pick[s]}]
      OBVIOUS
    <3>0. /\ s \ {pick[s]} \in SUBSET D /\ Cardinality(s) \in Nat
          /\ Cardinality(s \ {pick[s]}) = Cardinality(s) - 1
      BY <1>0, Zenon
    <3>1. s \ {pick[s]} \in SUBSET D /\ Cardinality(s \ {pick[s]}) <= n
      BY <3>0
    <3>2. QED
      BY <2>3, <3>1, Zenon
  <2>5. Upto(g, n + 1)
    <3> SUFFICES ASSUME NEW s \in SUBSET D, Cardinality(s) <= n + 1
                 PROVE  OK(g, s)
      OBVIOUS
    <3>1. g[s] = IF s = {} THEN base ELSE step[<<pick[s], f[s \ {pick[s]}]>>]
      OBVIOUS
    <3> HIDE DEF g
    <3>2. s # {} => f[s \ {pick[s]}] = g[s \ {pick[s]}]
      BY <2>4, Zenon
    <3>3. QED
      BY <3>1, <3>2, Zenon
  <2> HIDE DEF g
  <2> HIDE DEF Upto
  <2>6. n + 1 \in Nat
    OBVIOUS
  <2>7. QED
    BY <2>2, <2>5, <2>6
<1>3. Cardinality(D) \in S
  <2> HIDE DEF S
  <2>1. QED
    BY <1>0, <1>1, <1>2, NatSetInduction
<1>4. PICK it \in [SUBSET D -> V] : Upto(it, Cardinality(D))
  BY <1>3
<1>5. \A s \in SUBSET D : Cardinality(s) <= Cardinality(D)
  BY FS_Subset
<1>6. QED
  BY <1>4, <1>5 DEF Folds

-----------------------------------------------------------------------------
(* Powers of two, which the library counts subsets with.                   *)

LEMMA PowerCounts ==
  ASSUME NEW n \in Nat
  PROVE  /\ IsFiniteSet(SUBSET (1 .. n)) /\ Cardinality(SUBSET (1 .. n)) = 2 ^ n
         /\ 2 ^ n \in Nat
<1>1. IsFiniteSet(1 .. n) /\ Cardinality(1 .. n) = n
  BY FS_Interval
<1>2. IsFiniteSet(SUBSET (1 .. n)) /\ Cardinality(SUBSET (1 .. n)) = 2 ^ Cardinality(1 .. n)
  BY <1>1, FS_SUBSET, Zenon
<1>3. Cardinality(SUBSET (1 .. n)) \in Nat
  BY <1>2, FS_CardinalityType
<1>4. QED
  BY <1>1, <1>2, <1>3

LEMMA PowerNext ==
  ASSUME NEW n \in Nat
  PROVE  2 ^ (n + 1) = 2 * 2 ^ n
<1> DEFINE A == SUBSET (1 .. n)
           B == {s \in SUBSET (1 .. n + 1) : n + 1 \in s}
           with == [s \in A |-> s \cup {n + 1}]
<1>1. IsFiniteSet(A) /\ Cardinality(A) = 2 ^ n /\ 2 ^ n \in Nat
  BY PowerCounts
<1>2. n + 1 \in Nat /\ Cardinality(SUBSET (1 .. n + 1)) = 2 ^ (n + 1) /\ 2 ^ (n + 1) \in Nat
  <2>1. n + 1 \in Nat
    OBVIOUS
  <2>2. QED
    BY <2>1, PowerCounts
<1>3. with \in Bijection(A, B)
  <2>1. n + 1 \notin 1 .. n /\ 1 .. n + 1 = (1 .. n) \cup {n + 1}
    OBVIOUS
  <2>2. with \in [A -> B]
    BY <2>1
  <2>3. \A s, t \in A : with[s] = with[t] => s = t
    <3> SUFFICES ASSUME NEW s \in A, NEW t \in A, s \cup {n + 1} = t \cup {n + 1}
                 PROVE  s = t
      OBVIOUS
    <3>1. n + 1 \notin s /\ n + 1 \notin t
      BY <2>1
    <3>2. s = (s \cup {n + 1}) \ {n + 1} /\ t = (t \cup {n + 1}) \ {n + 1}
      BY <3>1
    <3>3. QED
      BY <3>2
  <2>4. \A t \in B : \E s \in A : with[s] = t
    <3> SUFFICES ASSUME NEW t \in B PROVE \E s \in A : with[s] = t
      OBVIOUS
    <3>1. t \ {n + 1} \in A /\ with[t \ {n + 1}] = t
      BY <2>1
    <3>2. QED
      BY <3>1
  <2>5. DOMAIN with = A
    OBVIOUS
  <2> HIDE DEF with, A, B
  <2>6. QED
    BY <2>2, <2>3, <2>4, <2>5 DEF Bijection, Injection, Surjection, IsInjective
<1>4. IsFiniteSet(B) /\ Cardinality(B) = Cardinality(A)
  <2> HIDE DEF with, A, B
  <2>1. QED
    BY <1>1, <1>3, FS_Bijection DEF ExistsBijection
<1>5. A \cup B = SUBSET (1 .. n + 1) /\ A \cap B = {}
  <2>1. n + 1 \notin 1 .. n /\ 1 .. n + 1 = (1 .. n) \cup {n + 1}
    OBVIOUS
  <2>2. QED
    BY <2>1
<1> HIDE DEF with, A, B
<1>6. Cardinality(A \cup B) = Cardinality(A) + Cardinality(B) - Cardinality(A \cap B)
  BY <1>1, <1>4, FS_Union
<1>7. Cardinality(A \cap B) = 0
  BY <1>5, FS_EmptySet
<1>8. 2 ^ (n + 1) = 2 ^ n + 2 ^ n - 0
  BY <1>1, <1>2, <1>4, <1>5, <1>6, <1>7, Zenon
<1>9. \A a \in Nat : a + a - 0 = 2 * a
  OBVIOUS
<1>10. QED
  BY <1>1, <1>8, <1>9, Zenon

LEMMA PowerSum ==
  ASSUME NEW m \in Nat, NEW n \in Nat
  PROVE  2 ^ (m + n) = 2 ^ m * 2 ^ n
<1> DEFINE S == {k \in Nat : 2 ^ (m + k) = 2 ^ m * 2 ^ k}
<1>1. 0 \in S
  <2>1. 2 ^ 0 = 1
    BY SMT
  <2>2. 2 ^ m \in Nat /\ m + 0 = m
    <3>1. 2 ^ m \in Nat
      BY PowerCounts
    <3>2. m + 0 = m
      OBVIOUS
    <3>3. QED
      BY <3>1, <3>2
  <2>3. \A a \in Nat : a = a * 1
    OBVIOUS
  <2>4. 2 ^ (m + 0) = 2 ^ m * 2 ^ 0
    BY <2>1, <2>2, <2>3, Zenon
  <2>5. QED
    BY <2>4
<1>2. ASSUME NEW k \in Nat, k \in S
      PROVE  k + 1 \in S
  <2>1. 2 ^ (m + k) = 2 ^ m * 2 ^ k
    BY <1>2
  <2>2. 2 ^ (k + 1) = 2 * 2 ^ k
    BY PowerNext
  <2>3. 2 ^ ((m + k) + 1) = 2 * 2 ^ (m + k)
    <3>1. m + k \in Nat
      OBVIOUS
    <3>2. QED
      BY <3>1, PowerNext
  <2>4. 2 ^ m \in Nat /\ 2 ^ k \in Nat
    BY PowerCounts
  <2>5. \A a, b \in Nat : 2 * (a * b) = a * (2 * b)
    BY SMT
  <2>6. (m + k) + 1 = m + (k + 1)
    OBVIOUS
  <2>7. 2 ^ (m + (k + 1)) = 2 ^ m * 2 ^ (k + 1)
    BY <2>1, <2>2, <2>3, <2>4, <2>5, <2>6
  <2>8. QED
    BY <2>7
<1>3. n \in S
  <2> HIDE DEF S
  <2>1. QED
    BY <1>1, <1>2, NatSetInduction
<1>4. QED
  BY <1>3

LEMMA PowerPositive ==
  ASSUME NEW n \in Nat
  PROVE  2 ^ n \in Nat \ {0}
<1>1. {} \in SUBSET (1 .. n)
  OBVIOUS
<1>2. Cardinality(SUBSET (1 .. n)) # 0
  BY <1>1, PowerCounts, FS_EmptySet
<1>3. QED
  BY <1>2, PowerCounts

-----------------------------------------------------------------------------
(* Sums.                                                                   *)

(* g[k] is the sum of the first k of n numbers.                            *)
Partials(g, q, n) ==
  g \in [0 .. n -> Int] /\ g[0] = 0 /\ \A k \in 1 .. n : g[k] = g[k - 1] + q[k]

LEMMA SumByPrefix ==
  ASSUME NEW n \in Nat, NEW q \in [1 .. n -> Int]
  PROVE  \E g : Partials(g, q, n) /\ SumFunction(q) = g[n]
<1> DEFINE D == DOMAIN q
<1> DEFINE any(s) == CHOOSE x \in s : TRUE
<1> DEFINE Iterates(f) ==
      f = [s \in SUBSET D |-> IF s = {} THEN 0 ELSE LET x == any(s) IN q[x] + f[s \ {x}]]
<1> DEFINE it == CHOOSE f : Iterates(f)
<1>1. SumFunction(q) = it[D]
  BY Zenon DEF SumFunction, SumFunctionOnSet, FoldFunctionOnSet, MapThenFoldSet
<1>2. D = 1 .. n /\ IsFiniteSet(D)
  BY FS_Interval
<1> DEFINE pick == [s \in SUBSET D |-> any(s)]
<1> DEFINE step == [p \in D \X Int |-> q[p[1]] + p[2]]
<1>3. step \in [D \X Int -> Int]
  BY <1>2
<1>4. DOMAIN pick = SUBSET D /\ \A s \in SUBSET D : pick[s] = any(s) /\ (s # {} => any(s) \in s)
  OBVIOUS
<1> HIDE DEF any
<1>5. PICK f \in [SUBSET D -> Int] : Folds(f, D, 0, step, pick)
  <2>1. Picks(pick, D)
    BY <1>4 DEF Picks
  <2>2. IsFiniteSet(D)
    BY <1>2
  <2>3. 0 \in Int
    OBVIOUS
  <2> HIDE DEF D, step, pick
  <2>4. QED
    BY <1>3, <2>1, <2>2, <2>3, FoldExists, Zenon
<1>6. Iterates(f)
  <2>1. \A s \in SUBSET D : f[s] = IF s = {} THEN 0 ELSE q[any(s)] + f[s \ {any(s)}]
    <3> SUFFICES ASSUME NEW s \in SUBSET D, s # {}
                 PROVE  f[s] = q[any(s)] + f[s \ {any(s)}]
      BY <1>5 DEF Folds
    <3>1. f[s] = step[<<any(s), f[s \ {any(s)}]>>]
      BY <1>4, <1>5 DEF Folds
    <3>2. any(s) \in D /\ f[s \ {any(s)}] \in Int
      BY <1>4
    <3>3. QED
      BY <3>1, <3>2
  <2> HIDE DEF D
  <2>2. f = [s \in SUBSET D |-> f[s]]
    OBVIOUS
  <2>3. QED
    BY <2>1, <2>2
<1>7. Iterates(it)
  <2> HIDE DEF Iterates
  <2>1. QED
    BY <1>6
<1> HIDE DEF it
<1>8. it[{}] = 0 /\ \A s \in SUBSET D : s # {} => it[s] = q[any(s)] + it[s \ {any(s)}]
  BY <1>7
<1> DEFINE Summed(s) == it[s] \in Int /\ \A x \in s : it[s] = it[s \ {x}] + q[x]
           S == {k \in Nat : \A s \in SUBSET D : Cardinality(s) <= k => Summed(s)}
<1>9. \A s \in SUBSET D : /\ Cardinality(s) \in Nat
                          /\ Cardinality(s) <= 0 => s = {}
                          /\ \A x \in s : Cardinality(s \ {x}) = Cardinality(s) - 1
  <2> SUFFICES ASSUME NEW s \in SUBSET D
               PROVE  /\ Cardinality(s) \in Nat
                      /\ Cardinality(s) <= 0 => s = {}
                      /\ \A x \in s : Cardinality(s \ {x}) = Cardinality(s) - 1
    OBVIOUS
  <2> HIDE DEF D
  <2>1. IsFiniteSet(s) /\ Cardinality(s) \in Nat
    BY <1>2, FS_Subset, FS_CardinalityType
  <2>2. Cardinality(s) = 0 <=> s = {}
    BY <2>1, FS_EmptySet
  <2>3. \A x \in s : Cardinality(s \ {x}) = Cardinality(s) - 1
    BY <2>1, FS_RemoveElement
  <2>4. QED
    BY <2>1, <2>2, <2>3
<1>10. 0 \in S
  <2>1. \A s \in SUBSET D : Cardinality(s) <= 0 => s = {}
    BY <1>9
  <2>2. Summed({})
    BY <1>8
  <2> HIDE DEF Summed, D
  <2>3. QED
    BY <2>1, <2>2
<1>11. ASSUME NEW k \in Nat, k \in S
       PROVE  k + 1 \in S
  <2>1. ASSUME NEW s \in SUBSET D, Cardinality(s) <= k + 1
        PROVE  Summed(s)
    <3>1. CASE s = {}
      BY <1>8, <3>1
    <3>2. CASE s # {}
      <4> DEFINE p == any(s)
      <4>1. p \in s /\ it[s] = q[p] + it[s \ {p}]
        BY <1>4, <1>8, <3>2
      <4>2. ASSUME NEW x \in s
            PROVE  s \ {x} \in SUBSET D /\ Summed(s \ {x}) /\ q[x] \in Int
        <5>1. s \ {x} \in SUBSET D /\ Cardinality(s \ {x}) <= k
          BY <1>9, <2>1
        <5>2. Summed(s \ {x})
          BY <1>11, <5>1
        <5>3. QED
          BY <1>2, <5>1, <5>2
      <4>3. it[s] \in Int /\ it[s] = it[s \ {p}] + q[p]
        <5>1. it[s \ {p}] \in Int /\ q[p] \in Int
          BY <4>1, <4>2
        <5> HIDE DEF p
        <5>2. QED
          BY <4>1, <5>1
      <4>4. ASSUME NEW x \in s, x # p
            PROVE  it[s] = it[s \ {x}] + q[x]
        <5> DEFINE rest == (s \ {x}) \ {p}
        <5>1. rest = (s \ {p}) \ {x}
          OBVIOUS
        <5>2. x \in s \ {p} /\ p \in s \ {x}
          BY <4>1, <4>4
        <5>3. it[s \ {p}] = it[rest] + q[x]
          BY <4>1, <4>2, <5>1, <5>2
        <5>4. it[s \ {x}] = it[rest] + q[p]
          BY <4>2, <5>2
        <5>5. rest \in SUBSET D /\ Cardinality(rest) <= k
          <6>1. Cardinality(rest) = Cardinality(s \ {x}) - 1
            BY <1>9, <4>2, <5>2
          <6>2. Cardinality(s \ {x}) = Cardinality(s) - 1 /\ Cardinality(s) \in Nat
            BY <1>9
          <6>3. rest \in SUBSET D
            OBVIOUS
          <6> HIDE DEF rest, D
          <6>4. QED
            BY <2>1, <6>1, <6>2, <6>3
        <5>6. it[rest] \in Int
          BY <1>11, <5>5
        <5> HIDE DEF rest, p
        <5>7. q[x] \in Int /\ q[p] \in Int
          BY <4>1, <4>2
        <5>8. QED
          BY <4>1, <5>3, <5>4, <5>6, <5>7
      <4>5. QED
        BY <4>3, <4>4
    <3>3. QED
      BY <3>1, <3>2
  <2>2. QED
    BY <2>1
<1>12. n \in S
  <2> HIDE DEF S
  <2>1. QED
    BY <1>10, <1>11, NatSetInduction
<1>13. \A s \in SUBSET D : Summed(s)
  <2>1. Cardinality(D) = n
    BY <1>2, FS_Interval
  <2>2. \A s \in SUBSET D : Cardinality(s) <= n
    BY <1>2, <2>1, FS_Subset
  <2>3. QED
    BY <1>12, <2>2
<1> DEFINE g == [k \in 0 .. n |-> it[1 .. k]]
<1>14. \A k \in 0 .. n : 1 .. k \in SUBSET D
  BY <1>2
<1>15. g \in [0 .. n -> Int]
  BY <1>13, <1>14
<1>16. g[0] = 0
  <2>1. 1 .. 0 = {} /\ 0 \in 0 .. n
    OBVIOUS
  <2>2. QED
    BY <1>8, <2>1
<1>17. ASSUME NEW k \in 1 .. n
       PROVE  g[k] = g[k - 1] + q[k]
  <2>1. k \in 1 .. k /\ (1 .. k) \ {k} = 1 .. k - 1 /\ k \in 0 .. n /\ k - 1 \in 0 .. n
    OBVIOUS
  <2>2. it[1 .. k] = it[(1 .. k) \ {k}] + q[k]
    BY <1>13, <1>14, <2>1
  <2>3. QED
    BY <2>1, <2>2
<1>18. g[n] = it[D]
  BY <1>2
<1> HIDE DEF g
<1>19. Partials(g, q, n) /\ SumFunction(q) = g[n]
  BY <1>1, <1>15, <1>16, <1>17, <1>18 DEF Partials
<1>20. QED
  BY <1>19

LEMMA SumIsInt ==
  ASSUME NEW n \in Nat, NEW q \in [1 .. n -> Int]
  PROVE  SumFunction(q) \in Int /\ (n = 0 => SumFunction(q) = 0)
<1>1. PICK g : Partials(g, q, n) /\ SumFunction(q) = g[n]
  BY SumByPrefix
<1>2. n \in 0 .. n
  OBVIOUS
<1>3. QED
  BY <1>1, <1>2 DEF Partials

(* One more number adds to the sum.                                        *)
LEMMA SumGrows ==
  ASSUME NEW n \in Nat, NEW q \in [1 .. n -> Int], NEW r \in [1 .. n + 1 -> Int],
         \A i \in 1 .. n : r[i] = q[i]
  PROVE  SumFunction(r) = SumFunction(q) + r[n + 1]
<1>1. PICK g : Partials(g, q, n) /\ SumFunction(q) = g[n]
  BY SumByPrefix
<1>2. PICK h : Partials(h, r, n + 1) /\ SumFunction(r) = h[n + 1]
  <2>1. n + 1 \in Nat
    OBVIOUS
  <2>2. QED
    BY <2>1, SumByPrefix
<1> DEFINE S == {k \in Nat : k <= n => h[k] = g[k]}
<1>3. 0 \in S
  BY <1>1, <1>2 DEF Partials
<1>4. ASSUME NEW k \in Nat, k \in S
      PROVE  k + 1 \in S
  <2> SUFFICES ASSUME k + 1 <= n PROVE h[k + 1] = g[k + 1]
    OBVIOUS
  <2>1. h[k] = g[k] /\ k + 1 \in 1 .. n /\ k + 1 \in 1 .. n + 1 /\ (k + 1) - 1 = k
    BY <1>4
  <2>2. h[k + 1] = h[k] + r[k + 1] /\ g[k + 1] = g[k] + q[k + 1]
    BY <1>1, <1>2, <2>1 DEF Partials
  <2>3. QED
    BY <2>1, <2>2
<1>5. n \in S
  <2> HIDE DEF S
  <2>1. QED
    BY <1>3, <1>4, NatSetInduction
<1>6. n + 1 \in 1 .. n + 1 /\ (n + 1) - 1 = n /\ h[n] = g[n]
  BY <1>5
<1>7. QED
  BY <1>1, <1>2, <1>6 DEF Partials

(* Sums are in the proportion of their numbers, and in their order.        *)
LEMMA SumScales ==
  ASSUME NEW n \in Nat, NEW q \in [1 .. n -> Int], NEW r \in [1 .. n -> Int],
         NEW c \in Int, NEW e \in Int, \A i \in 1 .. n : q[i] * c = r[i] * e
  PROVE  SumFunction(q) * c = SumFunction(r) * e
<1>1. PICK g : Partials(g, q, n) /\ SumFunction(q) = g[n]
  BY SumByPrefix
<1>2. PICK h : Partials(h, r, n) /\ SumFunction(r) = h[n]
  BY SumByPrefix
<1> DEFINE S == {k \in Nat : k <= n => g[k] * c = h[k] * e}
<1>3. 0 \in S
  BY <1>1, <1>2 DEF Partials
<1>4. ASSUME NEW k \in Nat, k \in S
      PROVE  k + 1 \in S
  <2> SUFFICES ASSUME k + 1 <= n PROVE g[k + 1] * c = h[k + 1] * e
    OBVIOUS
  <2>1. g[k] * c = h[k] * e /\ k + 1 \in 1 .. n /\ k \in 0 .. n /\ (k + 1) - 1 = k
    BY <1>4
  <2>2. g[k + 1] = g[k] + q[k + 1] /\ h[k + 1] = h[k] + r[k + 1]
    BY <1>1, <1>2, <2>1 DEF Partials
  <2>3. g[k] \in Int /\ h[k] \in Int /\ q[k + 1] \in Int /\ r[k + 1] \in Int
    BY <1>1, <1>2, <2>1 DEF Partials
  <2>4. \A a, b, m \in Int : (a + b) * m = a * m + b * m
    BY SMT
  <2>5. q[k + 1] * c = r[k + 1] * e
    BY <2>1
  <2>6. /\ (g[k] + q[k + 1]) * c = g[k] * c + q[k + 1] * c
        /\ (h[k] + r[k + 1]) * e = h[k] * e + r[k + 1] * e
    BY <2>3, <2>4
  <2>7. QED
    BY <2>1, <2>2, <2>5, <2>6, Zenon
<1>5. n \in S
  <2> HIDE DEF S
  <2>1. QED
    BY <1>3, <1>4, NatSetInduction
<1>6. QED
  BY <1>1, <1>2, <1>5

LEMMA SumBounds ==
  ASSUME NEW n \in Nat, NEW q \in [1 .. n -> Int], NEW r \in [1 .. n -> Int], NEW v \in Int
  PROVE  /\ (\A i \in 1 .. n : r[i] <= v * q[i]) => SumFunction(r) <= v * SumFunction(q)
         /\ (\A i \in 1 .. n : v * q[i] <= r[i]) => v * SumFunction(q) <= SumFunction(r)
<1>1. PICK g : Partials(g, q, n) /\ SumFunction(q) = g[n]
  BY SumByPrefix
<1>2. PICK h : Partials(h, r, n) /\ SumFunction(r) = h[n]
  BY SumByPrefix
<1> DEFINE S == {k \in Nat : k <= n =>
                   /\ (\A i \in 1 .. n : r[i] <= v * q[i]) => h[k] <= v * g[k]
                   /\ (\A i \in 1 .. n : v * q[i] <= r[i]) => v * g[k] <= h[k]}
<1>3. 0 \in S
  BY <1>1, <1>2 DEF Partials
<1>4. ASSUME NEW k \in Nat, k \in S
      PROVE  k + 1 \in S
  <2> SUFFICES ASSUME k + 1 <= n
               PROVE  /\ (\A i \in 1 .. n : r[i] <= v * q[i]) => h[k + 1] <= v * g[k + 1]
                      /\ (\A i \in 1 .. n : v * q[i] <= r[i]) => v * g[k + 1] <= h[k + 1]
    OBVIOUS
  <2>1. /\ (\A i \in 1 .. n : r[i] <= v * q[i]) => h[k] <= v * g[k]
        /\ (\A i \in 1 .. n : v * q[i] <= r[i]) => v * g[k] <= h[k]
        /\ k + 1 \in 1 .. n /\ k \in 0 .. n /\ (k + 1) - 1 = k
    BY <1>4
  <2>2. g[k + 1] = g[k] + q[k + 1] /\ h[k + 1] = h[k] + r[k + 1]
    BY <1>1, <1>2, <2>1 DEF Partials
  <2>3. g[k] \in Int /\ h[k] \in Int /\ q[k + 1] \in Int /\ r[k + 1] \in Int
    BY <1>1, <1>2, <2>1 DEF Partials
  <2>4. v * g[k + 1] = v * g[k] + v * q[k + 1] /\ v * g[k] \in Int /\ v * q[k + 1] \in Int
    <3>1. \A a, b \in Int : v * (a + b) = v * a + v * b /\ v * a \in Int
      BY SMT
    <3>2. QED
      BY <2>2, <2>3, <3>1
  <2>5. \A a, b, x, y \in Int : a <= x /\ b <= y => a + b <= x + y
    OBVIOUS
  <2>6. (\A i \in 1 .. n : r[i] <= v * q[i]) => h[k + 1] <= v * g[k + 1]
    BY <2>1, <2>2, <2>3, <2>4, <2>5
  <2>7. (\A i \in 1 .. n : v * q[i] <= r[i]) => v * g[k + 1] <= h[k + 1]
    BY <2>1, <2>2, <2>3, <2>4, <2>5
  <2>8. QED
    BY <2>6, <2>7
<1>5. n \in S
  <2> HIDE DEF S
  <2>1. QED
    BY <1>3, <1>4, NatSetInduction
<1>6. QED
  BY <1>1, <1>2, <1>5

LEMMA SumPositive ==
  ASSUME NEW n \in Nat, NEW q \in [1 .. n -> Int], \A i \in 1 .. n : q[i] >= 1
  PROVE  SumFunction(q) >= n
<1>1. PICK g : Partials(g, q, n) /\ SumFunction(q) = g[n]
  BY SumByPrefix
<1> DEFINE S == {k \in Nat : k <= n => g[k] >= k}
<1>2. 0 \in S
  BY <1>1 DEF Partials
<1>3. ASSUME NEW k \in Nat, k \in S
      PROVE  k + 1 \in S
  <2> SUFFICES ASSUME k + 1 <= n PROVE g[k + 1] >= k + 1
    OBVIOUS
  <2>1. g[k] >= k /\ k + 1 \in 1 .. n /\ k \in 0 .. n /\ (k + 1) - 1 = k
    BY <1>3
  <2>2. g[k + 1] = g[k] + q[k + 1] /\ g[k] \in Int /\ q[k + 1] \in Int /\ q[k + 1] >= 1
    BY <1>1, <2>1 DEF Partials
  <2>3. QED
    BY <2>1, <2>2
<1>4. n \in S
  <2> HIDE DEF S
  <2>1. QED
    BY <1>2, <1>3, NatSetInduction
<1>5. QED
  BY <1>1, <1>4

-----------------------------------------------------------------------------
(* Masses and moments of rows.                                             *)

Weights(s) == [i \in DOMAIN s |-> 2 ^ s[i].logit]
Moments(s) == [i \in DOMAIN s |-> s[i].value * 2 ^ s[i].logit]

LEMMA RowFacts ==
  ASSUME NEW row \in Row
  PROVE  /\ row.logit \in 0 .. LogitSpan /\ row.logit \in Nat /\ row.value \in Int
         /\ 2 ^ row.logit \in Nat \ {0}
<1>1. row.logit \in 0 .. LogitSpan /\ row.value \in Int
  BY FoldedAssumption DEF Row
<1>2. row.logit \in Nat
  BY <1>1, FoldedAssumption
<1>3. QED
  BY <1>1, <1>2, PowerPositive

LEMMA WeightFacts ==
  ASSUME NEW s \in Seq(Row)
  PROVE  /\ Len(s) \in Nat /\ DOMAIN s = 1 .. Len(s)
         /\ Weights(s) \in [1 .. Len(s) -> Int] /\ Moments(s) \in [1 .. Len(s) -> Int]
         /\ Mass(s) = SumFunction(Weights(s)) /\ Moment(s) = SumFunction(Moments(s))
         /\ Mass(s) \in Int /\ Moment(s) \in Int /\ Mass(s) >= Len(s)
         /\ s = << >> => Mass(s) = 0 /\ Moment(s) = 0
<1>1. Len(s) \in Nat /\ DOMAIN s = 1 .. Len(s) /\ \A i \in 1 .. Len(s) : s[i] \in Row
  OBVIOUS
<1>2. \A i \in 1 .. Len(s) : 2 ^ s[i].logit \in Nat \ {0} /\ s[i].value \in Int
  BY <1>1, RowFacts
<1>3. \A i \in 1 .. Len(s) : Weights(s)[i] = 2 ^ s[i].logit /\ Weights(s)[i] >= 1
  BY <1>1, <1>2 DEF Weights
<1>4. \A a \in Int, b \in Nat : a * b \in Int
  BY SMT
<1>5. Weights(s) \in [1 .. Len(s) -> Int] /\ Moments(s) \in [1 .. Len(s) -> Int]
  BY <1>1, <1>2, <1>4 DEF Weights, Moments
<1>6. Mass(s) = SumFunction(Weights(s)) /\ Moment(s) = SumFunction(Moments(s))
  BY DEF Mass, Moment, Weights, Moments
<1>7. SumFunction(Weights(s)) \in Int /\ SumFunction(Moments(s)) \in Int
      /\ (Len(s) = 0 => SumFunction(Weights(s)) = 0 /\ SumFunction(Moments(s)) = 0)
  BY <1>1, <1>5, SumIsInt
<1>8. SumFunction(Weights(s)) >= Len(s)
  BY <1>1, <1>3, <1>5, SumPositive
<1>9. s = << >> => Len(s) = 0
  OBVIOUS
<1>10. QED
  BY <1>1, <1>5, <1>6, <1>7, <1>8, <1>9

(* One more row.                                                           *)
LEMMA MassGrows ==
  ASSUME NEW s \in Seq(Row), NEW row \in Row
  PROVE  /\ Mass(Append(s, row)) = Mass(s) + 2 ^ row.logit
         /\ Moment(Append(s, row)) = Moment(s) + row.value * 2 ^ row.logit
<1> DEFINE n == Len(s)
           t == Append(s, row)
<1>1. /\ n \in Nat /\ t \in Seq(Row) /\ Len(t) = n + 1 /\ t[n + 1] = row
      /\ \A i \in 1 .. n : t[i] = s[i]
  OBVIOUS
<1>2. DOMAIN s = 1 .. n /\ DOMAIN t = 1 .. n + 1
  BY <1>1
<1> HIDE DEF n, t
<1>3. /\ Weights(s) \in [1 .. n -> Int] /\ Weights(t) \in [1 .. n + 1 -> Int]
      /\ Moments(s) \in [1 .. n -> Int] /\ Moments(t) \in [1 .. n + 1 -> Int]
      /\ Mass(s) = SumFunction(Weights(s)) /\ Moment(s) = SumFunction(Moments(s))
      /\ Mass(t) = SumFunction(Weights(t)) /\ Moment(t) = SumFunction(Moments(t))
  BY <1>1, WeightFacts DEF n
<1>4. \A i \in 1 .. n : i \in 1 .. n + 1
  BY <1>1
<1>5. \A i \in 1 .. n : Weights(t)[i] = Weights(s)[i] /\ Moments(t)[i] = Moments(s)[i]
  BY <1>1, <1>2, <1>4 DEF Weights, Moments
<1>6. n + 1 \in 1 .. n + 1
  BY <1>1
<1>7. Weights(t)[n + 1] = 2 ^ row.logit /\ Moments(t)[n + 1] = row.value * 2 ^ row.logit
  BY <1>1, <1>2, <1>6 DEF Weights, Moments
<1>8. SumFunction(Weights(t)) = SumFunction(Weights(s)) + Weights(t)[n + 1]
  BY <1>1, <1>3, <1>5, SumGrows
<1>9. SumFunction(Moments(t)) = SumFunction(Moments(s)) + Moments(t)[n + 1]
  BY <1>1, <1>3, <1>5, SumGrows
<1>10. QED
  BY <1>3, <1>7, <1>8, <1>9 DEF t

-----------------------------------------------------------------------------
(* The invariant.                                                          *)

(* The reducer in terms of the rows s, with every quantity explicit: the   *)
(* divisions of a rescaling are exact because of it.                       *)
SoftmaxOf(s) ==
  /\ s = << >> => max_logit = NegInf /\ denom = 0 /\ acc = 0
  /\ s # << >> =>
       /\ max_logit \in 0 .. LogitSpan
       /\ \E i \in DOMAIN s : s[i].logit = max_logit
       /\ \A i \in DOMAIN s : s[i].logit <= max_logit
       /\ denom = 2 ^ (LogitSpan - max_logit) * Mass(s)
       /\ acc = 2 ^ (LogitSpan - max_logit) * Moment(s)

(* The buffer of logits is long enough for the page, and holds those of    *)
(* the rows that the first loop has been over.                             *)
Busy ==
  /\ DOMAIN call = {"pc", "page", "row", "broken"}
  /\ call.pc \in {"logits", "fold"}
  /\ call.page \in Seq(Row) /\ call.row \in 1 .. Len(call.page) + 1
  /\ Len(call.page) <= Len(logits)
  /\ call.pc = "logits" => \A i \in 1 .. call.row - 1 : logits[i] = call.page[i].logit
  /\ call.pc = "fold" => \A i \in 1 .. Len(call.page) : logits[i] = call.page[i].logit

ControlInv ==
  /\ rows \in Seq(Row) /\ consumed_tokens = Len(rows)
  /\ logits \in Seq(Int)
  /\ call = Idle \/ Busy

Inv == ControlInv /\ SoftmaxOf(FoldedRows)

(* Rescaling from one maximum to a larger one divides without remainder.   *)
LEMMA RescaleIsExact ==
  ASSUME NEW m \in 0 .. LogitSpan, NEW n \in 0 .. LogitSpan, m <= n, NEW y \in Int
  PROVE  Rescaled(2 ^ (LogitSpan - m) * y, m - n) = 2 ^ (LogitSpan - n) * y
<1> DEFINE a == LogitSpan - m
           b == LogitSpan + (m - n)
           c == LogitSpan - n
<1>1. LogitSpan \in Nat /\ a \in Nat /\ b \in Nat /\ c \in Nat /\ a + b = c + LogitSpan
  BY FoldedAssumption
<1> HIDE DEF a, b, c
<1>2. 2 ^ a * 2 ^ b = 2 ^ c * 2 ^ LogitSpan
  BY <1>1, PowerSum
<1>3. /\ 2 ^ a \in Nat \ {0} /\ 2 ^ b \in Nat \ {0} /\ 2 ^ c \in Nat \ {0}
      /\ 2 ^ LogitSpan \in Nat \ {0}
  BY <1>1, PowerPositive
<1>4. (2 ^ a * y) * 2 ^ b = (2 ^ c * y) * 2 ^ LogitSpan
  <2>1. \A p, r \in Nat : (p * y) * r = (p * r) * y
    BY SMT
  <2>2. 2 ^ a \in Nat /\ 2 ^ b \in Nat /\ 2 ^ c \in Nat /\ 2 ^ LogitSpan \in Nat
    BY <1>3
  <2>3. /\ (2 ^ a * y) * 2 ^ b = (2 ^ a * 2 ^ b) * y
        /\ (2 ^ c * y) * 2 ^ LogitSpan = (2 ^ c * 2 ^ LogitSpan) * y
    BY <2>1, <2>2
  <2>4. QED
    BY <1>2, <2>3, Zenon
<1>5. ASSUME NEW k \in Int, NEW d \in Nat \ {0}
      PROVE  (k * d) \div d = k
  BY SMT
<1>6. 2 ^ c * y \in Int
  <2>1. \A p \in Nat : p * y \in Int
    BY SMT
  <2>2. QED
    BY <1>3, <2>1
<1>7. ((2 ^ c * y) * 2 ^ LogitSpan) \div 2 ^ LogitSpan = 2 ^ c * y
  BY <1>3, <1>5, <1>6
<1>8. ((2 ^ a * y) * 2 ^ b) \div 2 ^ LogitSpan = 2 ^ c * y
  BY <1>4, <1>7
<1>9. QED
  BY <1>8 DEF Rescaled, Exp, One, a, b, c

(* A weight relative to a maximum, in terms of its power.                  *)
LEMMA WeightIsPower ==
  ASSUME NEW l \in 0 .. LogitSpan, NEW n \in 0 .. LogitSpan, l <= n
  PROVE  /\ Exp(l - n) = 2 ^ (LogitSpan - n) * 2 ^ l
         /\ 2 ^ (LogitSpan - n) \in Nat \ {0} /\ 2 ^ l \in Nat \ {0}
<1>1. LogitSpan \in Nat /\ LogitSpan - n \in Nat /\ l \in Nat
      /\ (LogitSpan - n) + l = LogitSpan + (l - n)
  BY FoldedAssumption
<1>2. 2 ^ ((LogitSpan - n) + l) = 2 ^ (LogitSpan - n) * 2 ^ l
  BY <1>1, PowerSum
<1>3. 2 ^ (LogitSpan - n) \in Nat \ {0} /\ 2 ^ l \in Nat \ {0}
  BY <1>1, PowerPositive
<1>4. QED
  BY <1>1, <1>2, <1>3 DEF Exp

(* consume_one adds its row.                                               *)
LEMMA FoldAddsRow ==
  ASSUME NEW s \in Seq(Row), NEW row \in Row, NEW t, t = Append(s, row), SoftmaxOf(s),
         NEW new_max, new_max = Larger(max_logit, row.logit), max_logit' = new_max,
         denom' = (IF max_logit = NegInf THEN 0 ELSE Rescaled(denom, max_logit - new_max))
                    + Exp(row.logit - new_max),
         acc' = (IF max_logit = NegInf THEN 0 ELSE Rescaled(acc, max_logit - new_max))
                  + row.value * Exp(row.logit - new_max)
  PROVE  SoftmaxOf(t)'
<1> DEFINE W == 2 ^ (LogitSpan - new_max)
           w == 2 ^ row.logit
<1>1. row.logit \in 0 .. LogitSpan /\ row.value \in Int /\ LogitSpan \in Nat
  BY RowFacts, FoldedAssumption
<1>2. t # << >> /\ Len(t) = Len(s) + 1 /\ DOMAIN t = 1 .. Len(s) + 1 /\ t[Len(s) + 1] = row
      /\ DOMAIN s = 1 .. Len(s) /\ Len(s) \in Nat /\ \A i \in 1 .. Len(s) : t[i] = s[i]
  OBVIOUS
<1>3. /\ Mass(t) = Mass(s) + w /\ Moment(t) = Moment(s) + row.value * w
      /\ Mass(s) \in Int /\ Moment(s) \in Int
      /\ s = << >> => Mass(s) = 0 /\ Moment(s) = 0
  BY MassGrows, WeightFacts
<1>4. /\ new_max \in 0 .. LogitSpan /\ row.logit <= new_max
      /\ s # << >> => max_logit \in 0 .. LogitSpan /\ max_logit <= new_max
      /\ new_max = row.logit \/ (s # << >> /\ new_max = max_logit)
  BY <1>1 DEF SoftmaxOf, Larger, NegInf
<1>5. Exp(row.logit - new_max) = W * w /\ W \in Nat \ {0} /\ w \in Nat \ {0}
  BY <1>1, <1>4, WeightIsPower
<1>6. \E i \in DOMAIN t : t[i].logit = new_max
  <2>1. CASE new_max = row.logit
    <3>1. Len(s) + 1 \in DOMAIN t /\ t[Len(s) + 1].logit = new_max
      BY <1>2, <2>1
    <3>2. QED
      BY <3>1
  <2>2. CASE s # << >> /\ new_max = max_logit
    <3>1. PICK i \in 1 .. Len(s) : s[i].logit = max_logit
      BY <1>2, <2>2 DEF SoftmaxOf
    <3>2. i \in DOMAIN t /\ t[i].logit = new_max
      BY <1>2, <2>2, <3>1
    <3>3. QED
      BY <3>2
  <2>3. QED
    BY <1>4, <2>1, <2>2
<1>7. \A i \in DOMAIN t : t[i].logit <= new_max
  <2> SUFFICES ASSUME NEW i \in DOMAIN t PROVE t[i].logit <= new_max
    OBVIOUS
  <2>1. CASE i = Len(s) + 1
    BY <1>2, <1>4, <2>1
  <2>2. CASE i # Len(s) + 1
    <3>1. i \in 1 .. Len(s) /\ s # << >> /\ t[i] = s[i]
      BY <1>2, <2>2
    <3>2. s[i].logit <= max_logit
      BY <1>2, <3>1 DEF SoftmaxOf
    <3>3. s[i].logit \in Int
      BY <3>1, RowFacts
    <3>4. QED
      BY <1>4, <3>1, <3>2, <3>3
  <2>3. QED
    BY <2>1, <2>2
<1>8. /\ (IF max_logit = NegInf THEN 0 ELSE Rescaled(denom, max_logit - new_max)) = W * Mass(s)
      /\ (IF max_logit = NegInf THEN 0 ELSE Rescaled(acc, max_logit - new_max)) = W * Moment(s)
  <2>1. CASE s = << >>
    <3>1. max_logit = NegInf /\ Mass(s) = 0 /\ Moment(s) = 0
      BY <1>3, <2>1 DEF SoftmaxOf
    <3>2. \A a \in Nat : 0 = a * 0
      OBVIOUS
    <3>3. QED
      BY <1>5, <3>1, <3>2
  <2>2. CASE s # << >>
    <3>1. /\ max_logit # NegInf
          /\ denom = 2 ^ (LogitSpan - max_logit) * Mass(s)
          /\ acc = 2 ^ (LogitSpan - max_logit) * Moment(s)
      BY <1>4, <2>2 DEF SoftmaxOf, NegInf
    <3>2. /\ Rescaled(denom, max_logit - new_max) = W * Mass(s)
          /\ Rescaled(acc, max_logit - new_max) = W * Moment(s)
      BY <1>3, <1>4, <2>2, <3>1, RescaleIsExact
    <3>3. QED
      BY <3>1, <3>2
  <2>3. QED
    BY <2>1, <2>2
<1>9. denom' = W * Mass(s) + W * w /\ acc' = W * Moment(s) + row.value * (W * w)
  BY <1>5, <1>8
<1> HIDE DEF W, w
<1>10. /\ W * Mass(s) + W * w = W * (Mass(s) + w)
       /\ W * Moment(s) + row.value * (W * w) = W * (Moment(s) + row.value * w)
  <2>1. \A a, b, p, q \in Int : p * a + p * b = p * (a + b)
                                /\ p * a + q * (p * b) = p * (a + q * b)
    BY SMT
  <2>2. W \in Int /\ w \in Int /\ Mass(s) \in Int /\ Moment(s) \in Int /\ row.value \in Int
    BY <1>1, <1>3, <1>5
  <2>3. QED
    BY <2>1, <2>2
<1>11. denom' = W * Mass(t) /\ acc' = W * Moment(t)
  BY <1>3, <1>9, <1>10
<1>12. QED
  BY <1>2, <1>4, <1>6, <1>7, <1>11 DEF SoftmaxOf, W

(* What the invariant says of the rows in the words of the properties.     *)
LEMMA SoftmaxMeans ==
  ASSUME NEW s \in Seq(Row), s # << >>, SoftmaxOf(s)
  PROVE  /\ max_logit = LargestLogit(s)
         /\ denom * 2 ^ max_logit = One * Mass(s)
         /\ acc * 2 ^ max_logit = One * Moment(s)
         /\ denom \in Nat \ {0} /\ acc \in Int /\ max_logit \in 0 .. LogitSpan
<1> DEFINE W == 2 ^ (LogitSpan - max_logit)
           P == 2 ^ max_logit
<1>1. /\ max_logit \in 0 .. LogitSpan
      /\ denom = W * Mass(s) /\ acc = W * Moment(s)
  BY DEF SoftmaxOf
<1>2. /\ LogitSpan \in Nat /\ max_logit \in Nat /\ LogitSpan - max_logit \in Nat
      /\ (LogitSpan - max_logit) + max_logit = LogitSpan
  BY <1>1, FoldedAssumption
<1>3. W * P = One /\ W \in Nat \ {0} /\ P \in Nat \ {0}
  BY <1>2, PowerSum, PowerPositive DEF One
<1>4. Mass(s) \in Nat \ {0} /\ Moment(s) \in Int
  <2>1. Len(s) \in Nat /\ Len(s) # 0
    OBVIOUS
  <2>2. QED
    BY <2>1, WeightFacts
<1> HIDE DEF W, P
<1>5. \A a, b, c \in Int : (a * b) * c = (a * c) * b /\ a * b \in Int
  BY SMT
<1>6. (W * Mass(s)) * P = (W * P) * Mass(s) /\ (W * Moment(s)) * P = (W * P) * Moment(s)
      /\ W * Moment(s) \in Int
  <2>1. W \in Int /\ P \in Int /\ Mass(s) \in Int
    BY <1>3, <1>4
  <2>2. QED
    BY <1>4, <1>5, <2>1
<1>7. W * Mass(s) \in Nat \ {0}
  BY <1>3, <1>4, SMT
<1>8. max_logit = LargestLogit(s)
  <2> DEFINE S == {NegInf} \cup {row.logit : row \in Range(s)}
  <2>1. Range(s) = {s[i] : i \in DOMAIN s}
    BY DEF Range
  <2>2. max_logit \in S
    BY <2>1 DEF SoftmaxOf
  <2>3. \A x \in S : x \in Int /\ x <= max_logit
    <3>1. \A i \in DOMAIN s : s[i] \in Row
      OBVIOUS
    <3>2. \A i \in DOMAIN s : s[i].logit \in Int /\ s[i].logit <= max_logit
      BY <3>1, RowFacts DEF SoftmaxOf
    <3>3. QED
      BY <1>2, <2>1, <3>2 DEF NegInf
  <2> HIDE DEF S
  <2>4. \A x \in S : (\A y \in S : x >= y) => x = max_logit
    BY <1>2, <2>2, <2>3
  <2>5. \A y \in S : max_logit >= y
    BY <1>2, <2>3
  <2>6. (CHOOSE x \in S : \A y \in S : x >= y) = max_logit
    BY <2>2, <2>4, <2>5
  <2>7. QED
    BY <2>6 DEF LargestLogit, Max, S
<1>9. QED
  BY <1>1, <1>3, <1>6, <1>7, <1>8 DEF P

-----------------------------------------------------------------------------
(* The steps.                                                              *)

LEMMA InitInv == Init => Inv
<1> SUFFICES ASSUME Init PROVE Inv
  OBVIOUS
<1>1. FoldedRows = << >>
  BY DEF Init, Idle, FoldedRows
<1>2. QED
  BY <1>1 DEF Init, Inv, ControlInv, SoftmaxOf

LEMMA ZeroesAre ==
  ASSUME NEW n \in Nat
  PROVE  Zeroes(n) \in Seq(Int) /\ Len(Zeroes(n)) = n
<1>1. Zeroes(n) \in [1 .. n -> Int]
  BY DEF Zeroes
<1>2. QED
  BY <1>1

LEMMA PagesAre ==
  ASSUME NEW page \in Pages
  PROVE  page \in Seq(Row) /\ Len(page) \in Nat
<1>1. PICK n \in 1 .. PageRows : page \in [1 .. n -> Row]
  BY DEF Pages
<1>2. n \in Nat
  BY FoldedAssumption
<1>3. QED
  BY <1>1, <1>2

(* Where the folded rows and the accumulators stay, their relation does.   *)
LEMMA SameRows ==
  ASSUME NEW s, s = FoldedRows, SoftmaxOf(s), FoldedRows' = s,
         UNCHANGED <<max_logit, denom, acc>>
  PROVE  SoftmaxOf(FoldedRows)'
<1>1. SoftmaxOf(s)'
  BY DEF SoftmaxOf
<1>2. SoftmaxOf(FoldedRows)' <=> SoftmaxOf(s)'
  BY DEF SoftmaxOf
<1>3. QED
  BY <1>1, <1>2

LEMMA ResetInv == Inv /\ Reset => Inv'
<1> SUFFICES ASSUME Inv, Reset PROVE Inv'
  OBVIOUS
<1>1. FoldedRows' = << >>
  BY DEF Reset, Idle, FoldedRows
<1>2. logits' \in Seq(Int)
  BY ZeroesAre DEF Reset, Inv, ControlInv
<1>3. ControlInv'
  BY <1>2 DEF Reset, ControlInv
<1>4. SoftmaxOf(FoldedRows)'
  BY <1>1 DEF Reset, SoftmaxOf
<1>5. QED
  BY <1>3, <1>4 DEF Inv

(* The calls that end without a step of the loops.                         *)
LEMMA QuietInv ==
  ASSUME Inv, UNCHANGED <<max_logit, denom, acc, consumed_tokens, logits, call, rows>>
  PROVE  Inv'
<1>1. FoldedRows' = FoldedRows
  BY DEF FoldedRows
<1>2. ControlInv'
  BY DEF Inv, ControlInv, Busy
<1>3. QED
  BY <1>1, <1>2, SameRows DEF Inv

LEMMA ConsumeBeginInv ==
  ASSUME Inv, NEW page \in Pages, NEW broken \in 0 .. Len(page), ConsumeBegin(page, broken)
  PROVE  Inv'
<1>1. page \in Seq(Row) /\ Len(page) \in Nat
  BY PagesAre
<1>2. logits \in Seq(Int) /\ Len(logits) \in Nat /\ call = Idle /\ rows \in Seq(Row)
  BY DEF Inv, ControlInv, ConsumeBegin
<1>3. logits' \in Seq(Int) /\ Len(page) <= Len(logits')
  <2>1. Larger(Len(logits), Len(page)) \in Nat /\ Len(page) <= Larger(Len(logits), Len(page))
    BY <1>1, <1>2 DEF Larger
  <2>2. QED
    BY <2>1, ZeroesAre DEF ConsumeBegin
<1>4. call' = [pc |-> "logits", page |-> page, row |-> 1, broken |-> broken]
      /\ UNCHANGED <<max_logit, denom, acc, consumed_tokens, rows>>
  BY DEF ConsumeBegin, reducer
<1>5. Busy'
  BY <1>1, <1>3, <1>4 DEF Busy
<1>6. FoldedRows' = FoldedRows
  BY <1>2, <1>4 DEF FoldedRows, Idle
<1>7. ControlInv'
  BY <1>3, <1>4, <1>5 DEF Inv, ControlInv
<1>8. QED
  BY <1>4, <1>6, <1>7, SameRows DEF Inv

LEMMA BusyFacts ==
  ASSUME Inv, call.pc \in {"logits", "fold"}
  PROVE  /\ Busy /\ rows \in Seq(Row) /\ consumed_tokens = Len(rows) /\ logits \in Seq(Int)
         /\ call.page \in Seq(Row) /\ Len(call.page) \in Nat
         /\ call.row \in 1 .. Len(call.page) + 1
         /\ DOMAIN call = {"pc", "page", "row", "broken"}
<1>1. call # Idle
  BY DEF Idle
<1>2. Busy
  BY <1>1 DEF Inv, ControlInv
<1>3. QED
  BY <1>2 DEF Inv, ControlInv, Busy

LEMMA LogitInv == Inv /\ Logit => Inv'
<1> SUFFICES ASSUME Inv, Logit PROVE Inv'
  OBVIOUS
<1>1. /\ call.pc = "logits" /\ call.row <= Len(call.page)
      /\ logits' = [logits EXCEPT ![call.row] = call.page[call.row].logit]
      /\ call' = [call EXCEPT !.row = call.row + 1]
      /\ UNCHANGED <<max_logit, denom, acc, consumed_tokens, rows>>
  BY DEF Logit, reducer
<1>2. /\ Busy /\ call.page \in Seq(Row) /\ Len(call.page) \in Nat
      /\ call.row \in 1 .. Len(call.page) + 1 /\ logits \in Seq(Int)
      /\ DOMAIN call = {"pc", "page", "row", "broken"}
  BY <1>1, BusyFacts
<1>3. call.row \in 1 .. Len(call.page) /\ Len(call.page) <= Len(logits)
  BY <1>1, <1>2 DEF Busy
<1>4. call.page[call.row].logit \in Int
  BY <1>2, <1>3, RowFacts
<1>5. /\ logits' \in Seq(Int) /\ Len(logits') = Len(logits)
      /\ logits'[call.row] = call.page[call.row].logit
      /\ \A i \in 1 .. call.row - 1 : logits'[i] = logits[i]
  BY <1>1, <1>2, <1>3, <1>4
<1>6. /\ call'.pc = "logits" /\ call'.page = call.page /\ call'.row = call.row + 1
      /\ DOMAIN call' = DOMAIN call
  BY <1>1, <1>2
<1>7. \A i \in 1 .. call.row : logits'[i] = call.page[i].logit
  <2>1. \A i \in 1 .. call.row : i = call.row \/ i \in 1 .. call.row - 1
    BY <1>2
  <2>2. \A i \in 1 .. call.row - 1 : logits[i] = call.page[i].logit
    BY <1>1, <1>2 DEF Busy
  <2>3. QED
    BY <1>5, <2>1, <2>2
<1>8. (call.row + 1) - 1 = call.row /\ call.row + 1 \in 1 .. Len(call.page) + 1
  BY <1>2, <1>3
<1>9. Busy'
  BY <1>2, <1>3, <1>5, <1>6, <1>7, <1>8 DEF Busy
<1>10. FoldedRows' = FoldedRows
  BY <1>1, <1>6 DEF FoldedRows
<1>11. ControlInv'
  BY <1>1, <1>5, <1>9 DEF Inv, ControlInv
<1>12. QED
  BY <1>1, <1>10, <1>11, SameRows DEF Inv

LEMMA LogitNotFiniteInv == Inv /\ LogitNotFinite => Inv'
<1> SUFFICES ASSUME Inv, LogitNotFinite PROVE Inv'
  OBVIOUS
<1>1. /\ call.pc = "logits" /\ call' = Idle /\ logits' = Zeroes(Len(logits))
      /\ UNCHANGED <<max_logit, denom, acc, consumed_tokens, rows>>
  BY DEF LogitNotFinite, reducer
<1>2. logits' \in Seq(Int)
  BY <1>1, ZeroesAre DEF Inv, ControlInv
<1>3. FoldedRows' = FoldedRows
  BY <1>1 DEF FoldedRows, Idle
<1>4. ControlInv'
  BY <1>1, <1>2 DEF Inv, ControlInv
<1>5. QED
  BY <1>1, <1>3, <1>4, SameRows DEF Inv

LEMMA LogitsDoneInv == Inv /\ LogitsDone => Inv'
<1> SUFFICES ASSUME Inv, LogitsDone PROVE Inv'
  OBVIOUS
<1>1. /\ call.pc = "logits" /\ call.row > Len(call.page)
      /\ call' = [call EXCEPT !.pc = "fold", !.row = 1]
      /\ UNCHANGED <<max_logit, denom, acc, consumed_tokens, logits, rows>>
  BY DEF LogitsDone, reducer
<1>2. /\ Busy /\ call.page \in Seq(Row) /\ Len(call.page) \in Nat /\ rows \in Seq(Row)
      /\ call.row \in 1 .. Len(call.page) + 1
      /\ DOMAIN call = {"pc", "page", "row", "broken"}
  BY <1>1, BusyFacts
<1>3. call'.pc = "fold" /\ call'.page = call.page /\ call'.row = 1 /\ DOMAIN call' = DOMAIN call
  BY <1>1, <1>2
<1>4. call.row - 1 = Len(call.page) /\ 1 \in 1 .. Len(call.page) + 1
  BY <1>1, <1>2
<1>5. Busy'
  BY <1>1, <1>2, <1>3, <1>4 DEF Busy
<1>6. FoldedRows' = rows /\ FoldedRows = rows
  <2>1. SubSeq(call.page, 1, 1 - 1) = << >>
    BY <1>2
  <2>2. rows \o << >> = rows
    BY <1>2, ConcatEmptySeq
  <2>3. QED
    BY <1>1, <1>3, <2>1, <2>2 DEF FoldedRows
<1>7. ControlInv'
  BY <1>1, <1>5 DEF Inv, ControlInv
<1>8. QED
  BY <1>1, <1>6, <1>7, SameRows DEF Inv

LEMMA FoldInv == Inv /\ Fold => Inv'
<1> SUFFICES ASSUME Inv, Fold PROVE Inv'
  OBVIOUS
<1> DEFINE page == call.page
           r == call.row
           row == page[r]
           new_max == Larger(max_logit, logits[r])
<1>1. /\ call.pc = "fold" /\ r <= Len(page)
      /\ call' = [call EXCEPT !.row = r + 1]
      /\ UNCHANGED <<logits, consumed_tokens, rows>>
  BY DEF Fold
<1>2. /\ Busy /\ page \in Seq(Row) /\ Len(page) \in Nat /\ rows \in Seq(Row)
      /\ r \in 1 .. Len(page) + 1 /\ DOMAIN call = {"pc", "page", "row", "broken"}
  BY <1>1, BusyFacts
<1>3. r \in 1 .. Len(page) /\ row \in Row /\ logits[r] = row.logit
  <2>1. r \in 1 .. Len(page)
    BY <1>1, <1>2
  <2>2. QED
    BY <1>1, <1>2, <2>1 DEF Busy
<1>4. /\ max_logit' = new_max
      /\ denom' = (IF max_logit = NegInf THEN 0 ELSE Rescaled(denom, max_logit - new_max))
                    + Exp(row.logit - new_max)
      /\ acc' = (IF max_logit = NegInf THEN 0 ELSE Rescaled(acc, max_logit - new_max))
                    + row.value * Exp(row.logit - new_max)
  BY <1>3 DEF Fold
<1>5. call'.pc = "fold" /\ call'.page = page /\ call'.row = r + 1 /\ DOMAIN call' = DOMAIN call
  BY <1>1, <1>2
<1>6. r + 1 \in 1 .. Len(page) + 1 /\ (r + 1) - 1 = r
  BY <1>2, <1>3
<1>7. Busy'
  BY <1>1, <1>2, <1>5, <1>6 DEF Busy
<1>8. ControlInv'
  BY <1>1, <1>7 DEF Inv, ControlInv
<1> DEFINE before == SubSeq(page, 1, r - 1)
           s == rows \o before
           t == Append(s, row)
<1> HIDE DEF page, r, row
<1>9. before \in Seq(Row) /\ s \in Seq(Row)
  <2>1. 1 \in Int /\ r - 1 \in Int /\ \A i \in 1 .. r - 1 : page[i] \in Row
    BY <1>2, <1>3
  <2>2. before \in Seq(Row)
    BY <2>1, SubSeqProperties
  <2> HIDE DEF before
  <2>3. QED
    BY <1>2, <2>2, ConcatProperties
<1>10. SubSeq(page, 1, r) = Append(before, row)
  <2>1. r \in 1 .. Len(page) /\ 1 \in 1 .. r
    BY <1>2, <1>3
  <2>2. SubSeq(page, 1, r) = Append(SubSeq(page, 1, r - 1), page[r])
    BY <1>2, <2>1
  <2>3. QED
    BY <2>2 DEF row
<1>11. rows \o Append(before, row) = t
  <2> HIDE DEF before
  <2>1. Append(before, row) = before \o <<row>> /\ Append(s, row) = s \o <<row>>
    BY <1>3, <1>9, AppendIsConcat
  <2>2. <<row>> \in Seq(Row)
    BY <1>3
  <2>3. (rows \o before) \o <<row>> = rows \o (before \o <<row>>)
    BY <1>2, <1>9, <2>2, ConcatAssociative
  <2>4. QED
    BY <2>1, <2>3
<1>12. FoldedRows = s /\ FoldedRows' = t
  BY <1>1, <1>5, <1>6, <1>10, <1>11 DEF FoldedRows, page, r
<1>13. SoftmaxOf(s)
  BY <1>12 DEF Inv
<1>14. new_max = Larger(max_logit, row.logit)
  BY <1>3
<1> SUFFICES ASSUME NEW before_rows, before_rows = s, NEW after_rows, after_rows = t
             PROVE  SoftmaxOf(FoldedRows)'
  BY <1>8 DEF Inv
<1> HIDE DEF s, t, new_max
<1>15. /\ before_rows \in Seq(Row) /\ SoftmaxOf(before_rows)
       /\ after_rows = Append(before_rows, row)
  BY <1>9, <1>13 DEF t
<1>16. SoftmaxOf(after_rows)'
  BY <1>3, <1>4, <1>14, <1>15, FoldAddsRow
<1>17. QED
  BY <1>12, <1>16 DEF SoftmaxOf

LEMMA ConsumeDoneInv == Inv /\ ConsumeDone => Inv'
<1> SUFFICES ASSUME Inv, ConsumeDone PROVE Inv'
  OBVIOUS
<1>1. /\ call.pc = "fold" /\ call.row > Len(call.page) /\ call' = Idle
      /\ consumed_tokens' = consumed_tokens + Len(call.page) /\ rows' = rows \o call.page
      /\ UNCHANGED <<max_logit, denom, acc, logits>>
  BY DEF ConsumeDone
<1>2. /\ call.page \in Seq(Row) /\ Len(call.page) \in Nat /\ rows \in Seq(Row)
      /\ call.row \in 1 .. Len(call.page) + 1 /\ consumed_tokens = Len(rows)
  BY <1>1, BusyFacts
<1>3. call.row - 1 = Len(call.page)
  <2>1. call.row > Len(call.page) /\ call.row \in 1 .. Len(call.page) + 1 /\ Len(call.page) \in Nat
    BY <1>1, <1>2, Zenon
  <2>2. QED
    BY <2>1
<1>4. SubSeq(call.page, 1, call.row - 1) = call.page
  BY <1>2, <1>3, SubSeqFull
<1>5. FoldedRows' = FoldedRows
  BY <1>1, <1>4 DEF FoldedRows, Idle
<1>6. rows' \in Seq(Row) /\ consumed_tokens' = Len(rows')
  BY <1>1, <1>2
<1>7. ControlInv'
  BY <1>1, <1>6 DEF Inv, ControlInv
<1>8. QED
  BY <1>1, <1>5, <1>7, SameRows DEF Inv

LEMMA NextInv == Inv /\ [Next]_vars => Inv'
<1> SUFFICES ASSUME Inv, [Next]_vars PROVE Inv'
  OBVIOUS
<1>1. CASE Reset
  BY <1>1, ResetInv
<1>2. CASE ConsumeRefused \/ FinishRefused \/ FinishFails \/ Finish
  BY <1>2, QuietInv DEF ConsumeRefused, FinishRefused, FinishFails, Finish, reducer
<1>3. ASSUME NEW page \in Pages, ConsumeOverflows(page)
      PROVE  Inv'
  BY <1>3, QuietInv DEF ConsumeOverflows, reducer
<1>4. ASSUME NEW page \in Pages, NEW broken \in 0 .. Len(page), ConsumeBegin(page, broken)
      PROVE  Inv'
  BY <1>4, ConsumeBeginInv
<1>5. CASE ConsumeStep
  BY <1>5, LogitInv, LogitNotFiniteInv, LogitsDoneInv, FoldInv, ConsumeDoneInv DEF ConsumeStep
<1>6. CASE UNCHANGED vars
  BY <1>6, QuietInv DEF vars, reducer
<1>7. QED
  BY <1>1, <1>2, <1>3, <1>4, <1>5, <1>6 DEF Next

LEMMA Inductive == Spec => []Inv
BY InitInv, NextInv, PTL DEF Spec

LEMMA FoldedAreRows == Inv => FoldedRows \in Seq(Row)
<1> SUFFICES ASSUME Inv PROVE FoldedRows \in Seq(Row)
  OBVIOUS
<1>1. CASE call.pc = "fold"
  <2>1. /\ call.page \in Seq(Row) /\ Len(call.page) \in Nat /\ rows \in Seq(Row)
        /\ call.row \in 1 .. Len(call.page) + 1
    BY <1>1, BusyFacts
  <2>2. 1 \in Int /\ call.row - 1 \in Int /\ \A i \in 1 .. call.row - 1 : call.page[i] \in Row
    BY <2>1
  <2>3. SubSeq(call.page, 1, call.row - 1) \in Seq(Row)
    BY <2>2, SubSeqProperties
  <2>4. QED
    BY <1>1, <2>1, <2>3, ConcatProperties DEF FoldedRows
<1>2. CASE call.pc # "fold"
  BY <1>2 DEF FoldedRows, Inv, ControlInv
<1>3. QED
  BY <1>1, <1>2

-----------------------------------------------------------------------------
(* Between any two rows, and however the rows were cut into pages, the     *)
(* reducer is the softmax of the rows that it has folded.                  *)
THEOREM ReducerIsSoftmax == Spec => []FoldIsSoftmax
<1>1. ASSUME Inv
      PROVE  FoldIsSoftmax
  <2>1. FoldedRows \in Seq(Row) /\ SoftmaxOf(FoldedRows) /\ consumed_tokens = Len(rows)
    BY <1>1, FoldedAreRows DEF Inv, ControlInv
  <2>2. FoldedRows = << >> => <<max_logit, denom, acc>> = <<NegInf, 0, 0>>
    BY <2>1 DEF SoftmaxOf
  <2> SUFFICES ASSUME NEW s, s = FoldedRows, s # << >>
               PROVE  /\ max_logit = LargestLogit(s)
                      /\ denom * 2 ^ max_logit = One * Mass(s)
                      /\ acc * 2 ^ max_logit = One * Moment(s)
    BY <2>1, <2>2 DEF FoldIsSoftmax
  <2>3. s \in Seq(Row) /\ SoftmaxOf(s)
    BY <2>1
  <2>4. QED
    BY <2>3, SoftmaxMeans
<1>2. QED
  BY <1>1, Inductive, PTL

-----------------------------------------------------------------------------
(* The output.                                                             *)

(* Some row has the smallest value, and some the largest.                  *)
LEMMA ExtremesExist ==
  ASSUME NEW s \in Seq(Row), s # << >>
  PROVE  \E i, j \in DOMAIN s : \A k \in DOMAIN s : s[i].value <= s[k].value /\ s[k].value <= s[j].value
<1> DEFINE v(i) == s[i].value
           Least(n) == \E i \in 1 .. n : \A k \in 1 .. n : v(i) <= v(k)
           Greatest(n) == \E j \in 1 .. n : \A k \in 1 .. n : v(k) <= v(j)
           S == {n \in Nat : n = 0 \/ n > Len(s) \/ (Least(n) /\ Greatest(n))}
<1>1. /\ Len(s) \in Nat /\ Len(s) # 0 /\ DOMAIN s = 1 .. Len(s)
      /\ \A i \in 1 .. Len(s) : v(i) \in Int
  <2>1. /\ Len(s) \in Nat /\ Len(s) # 0 /\ DOMAIN s = 1 .. Len(s)
        /\ \A i \in 1 .. Len(s) : s[i] \in Row
    OBVIOUS
  <2>2. QED
    BY <2>1, RowFacts
<1>2. 0 \in S
  OBVIOUS
<1>3. ASSUME NEW n \in Nat, n \in S
      PROVE  n + 1 \in S
  <2> SUFFICES ASSUME ~(n + 1 > Len(s)) PROVE Least(n + 1) /\ Greatest(n + 1)
    OBVIOUS
  <2>1. \A k \in 1 .. n + 1 : v(k) \in Int /\ (k = n + 1 \/ k \in 1 .. n)
    BY <1>1
  <2>2. n + 1 \in 1 .. n + 1 /\ \A k \in 1 .. n : k \in 1 .. n + 1
    OBVIOUS
  <2> HIDE DEF v
  <2>3. CASE n = 0
    <3>1. \A k \in 1 .. n + 1 : k = n + 1
      BY <2>3
    <3>2. \A k \in 1 .. n + 1 : v(n + 1) <= v(k) /\ v(k) <= v(n + 1)
      BY <2>1, <2>2, <3>1
    <3>3. QED
      BY <2>2, <3>2
  <2>4. CASE n # 0
    <3>1. Least(n) /\ Greatest(n)
      BY <1>1, <1>3, <2>4
    <3>2. PICK i \in 1 .. n : \A k \in 1 .. n : v(i) <= v(k)
      BY <3>1
    <3>3. PICK j \in 1 .. n : \A k \in 1 .. n : v(k) <= v(j)
      BY <3>1
    <3>4. Least(n + 1)
      <4>1. CASE v(i) <= v(n + 1)
        BY <2>1, <2>2, <3>2, <4>1
      <4>2. CASE ~(v(i) <= v(n + 1))
        <5>1. \A k \in 1 .. n + 1 : v(n + 1) <= v(k)
          BY <2>1, <2>2, <3>2, <4>2
        <5>2. QED
          BY <2>2, <5>1
      <4>3. QED
        BY <4>1, <4>2
    <3>5. Greatest(n + 1)
      <4>1. CASE v(n + 1) <= v(j)
        BY <2>1, <2>2, <3>3, <4>1
      <4>2. CASE ~(v(n + 1) <= v(j))
        <5>1. \A k \in 1 .. n + 1 : v(k) <= v(n + 1)
          BY <2>1, <2>2, <3>3, <4>2
        <5>2. QED
          BY <2>2, <5>1
      <4>3. QED
        BY <4>1, <4>2
    <3>6. QED
      BY <3>4, <3>5
  <2>5. QED
    BY <2>3, <2>4
<1>4. Len(s) \in S
  <2> HIDE DEF S
  <2>1. QED
    BY <1>1, <1>2, <1>3, NatSetInduction
<1>5. Least(Len(s)) /\ Greatest(Len(s))
  BY <1>1, <1>4
<1>6. QED
  BY <1>1, <1>5

(* The mean of the values, weighted by mass, is between any two bounds of  *)
(* them.                                                                   *)
LEMMA MomentBounds ==
  ASSUME NEW s \in Seq(Row), NEW v \in Int
  PROVE  /\ (\A i \in DOMAIN s : s[i].value <= v) => Moment(s) <= v * Mass(s)
         /\ (\A i \in DOMAIN s : v <= s[i].value) => v * Mass(s) <= Moment(s)
<1> DEFINE n == Len(s)
           w == Weights(s)
           m == Moments(s)
<1>1. /\ n \in Nat /\ DOMAIN s = 1 .. n /\ w \in [1 .. n -> Int] /\ m \in [1 .. n -> Int]
      /\ Mass(s) = SumFunction(w) /\ Moment(s) = SumFunction(m)
  BY WeightFacts
<1>2. \A i \in 1 .. n : /\ w[i] = 2 ^ s[i].logit /\ m[i] = s[i].value * w[i]
                        /\ w[i] \in Nat /\ s[i].value \in Int
  <2>1. \A i \in 1 .. n : s[i] \in Row
    OBVIOUS
  <2>2. \A i \in 1 .. n : s[i].value \in Int /\ 2 ^ s[i].logit \in Nat
    BY <2>1, RowFacts
  <2>3. \A i \in 1 .. n : w[i] = 2 ^ s[i].logit /\ m[i] = s[i].value * 2 ^ s[i].logit
    BY <1>1 DEF Weights, Moments
  <2>4. QED
    BY <2>2, <2>3
<1>3. \A a, b \in Int, c \in Nat : a <= b => a * c <= b * c
  BY SMT
<1> HIDE DEF n, w, m
<1>4. ASSUME \A i \in DOMAIN s : s[i].value <= v
      PROVE  Moment(s) <= v * Mass(s)
  <2>1. \A i \in 1 .. n : m[i] <= v * w[i]
    BY <1>1, <1>2, <1>3, <1>4
  <2>2. QED
    BY <1>1, <2>1, SumBounds
<1>5. ASSUME \A i \in DOMAIN s : v <= s[i].value
      PROVE  v * Mass(s) <= Moment(s)
  <2>1. \A i \in 1 .. n : v * w[i] <= m[i]
    BY <1>1, <1>2, <1>3, <1>5
  <2>2. QED
    BY <1>1, <2>1, SumBounds
<1>6. QED
  BY <1>4, <1>5

(* The attention that sees all rows at once has the very sums of the       *)
(* reducer.                                                                *)
LEMMA DirectIsReduced ==
  ASSUME NEW s \in Seq(Row), s # << >>, SoftmaxOf(s)
  PROVE  DirectAttention(s).num = acc /\ DirectAttention(s).den = denom
<1> DEFINE n == Len(s)
           W == 2 ^ (LogitSpan - max_logit)
           weight == [i \in DOMAIN s |-> Exp(s[i].logit - LargestLogit(s))]
           weighted == [i \in DOMAIN s |-> s[i].value * weight[i]]
<1>1. /\ n \in Nat /\ DOMAIN s = 1 .. n /\ \A i \in 1 .. n : s[i] \in Row
      /\ Weights(s) \in [1 .. n -> Int] /\ Moments(s) \in [1 .. n -> Int]
      /\ Mass(s) = SumFunction(Weights(s)) /\ Moment(s) = SumFunction(Moments(s))
      /\ Mass(s) \in Int /\ Moment(s) \in Int
  BY WeightFacts
<1>2. LargestLogit(s) = max_logit /\ max_logit \in 0 .. LogitSpan
  BY SoftmaxMeans
<1>3. /\ \A i \in 1 .. n : s[i].logit <= max_logit
      /\ denom = W * Mass(s) /\ acc = W * Moment(s)
  BY <1>1 DEF SoftmaxOf
<1>4. W \in Int
  BY <1>2, FoldedAssumption, PowerPositive
<1>5. ASSUME NEW i \in 1 .. n
      PROVE  /\ weight[i] = W * Weights(s)[i] /\ weighted[i] = s[i].value * (W * Weights(s)[i])
             /\ Weights(s)[i] \in Int /\ s[i].value \in Int
             /\ Moments(s)[i] = s[i].value * Weights(s)[i]
  <2>1. s[i] \in Row /\ s[i].logit <= max_logit
    BY <1>1, <1>3
  <2>2. s[i].logit \in 0 .. LogitSpan /\ s[i].value \in Int
    BY <2>1, RowFacts
  <2>3. Exp(s[i].logit - max_logit) = W * 2 ^ s[i].logit
    BY <1>2, <2>1, <2>2, WeightIsPower
  <2>4. Weights(s)[i] = 2 ^ s[i].logit /\ Moments(s)[i] = s[i].value * 2 ^ s[i].logit
    BY <1>1 DEF Weights, Moments
  <2>5. weight[i] = Exp(s[i].logit - max_logit) /\ weighted[i] = s[i].value * weight[i]
    BY <1>1, <1>2
  <2>6. Weights(s)[i] \in Int
    BY <1>1
  <2> HIDE DEF weight, weighted, W
  <2>7. QED
    BY <2>2, <2>3, <2>4, <2>5, <2>6
<1>6. DOMAIN weight = 1 .. n /\ DOMAIN weighted = 1 .. n
  BY <1>1
<1> HIDE DEF W, n
<1>7. \A a, b, c \in Int : /\ a * b \in Int /\ (a * b) * 1 = b * a
                           /\ c * (a * b) \in Int /\ (c * (a * b)) * 1 = (c * b) * a
  BY SMT
<1>8. \A i \in 1 .. n : /\ weight[i] \in Int /\ weight[i] * 1 = Weights(s)[i] * W
                        /\ weighted[i] \in Int /\ weighted[i] * 1 = Moments(s)[i] * W
  <2> HIDE DEF weight, weighted
  <2>1. QED
    BY <1>4, <1>5, <1>7
<1>9. weight \in [1 .. n -> Int] /\ weighted \in [1 .. n -> Int]
  BY <1>6, <1>8
<1>10. DirectAttention(s).num = SumFunction(weighted) /\ DirectAttention(s).den = SumFunction(weight)
  BY DEF DirectAttention
<1> HIDE DEF weight, weighted
<1>11. /\ SumFunction(weight) * 1 = SumFunction(Weights(s)) * W
       /\ SumFunction(weighted) * 1 = SumFunction(Moments(s)) * W
  <2>1. 1 \in Int
    OBVIOUS
  <2>2. \A i \in 1 .. n : weight[i] * 1 = Weights(s)[i] * W
    BY <1>8, Zenon
  <2>3. \A i \in 1 .. n : weighted[i] * 1 = Moments(s)[i] * W
    BY <1>8, Zenon
  <2>4. ASSUME NEW q \in [1 .. n -> Int], NEW r \in [1 .. n -> Int], NEW e \in Int,
               \A i \in 1 .. n : q[i] * 1 = r[i] * e
        PROVE  SumFunction(q) * 1 = SumFunction(r) * e
    <3>1. n \in Nat
      BY <1>1
    <3>2. QED
      BY <2>4, <2>1, <3>1, SumScales
  <2>5. SumFunction(weight) * 1 = SumFunction(Weights(s)) * W
    BY <1>1, <1>4, <1>9, <2>2, <2>4, Zenon
  <2>6. SumFunction(weighted) * 1 = SumFunction(Moments(s)) * W
    BY <1>1, <1>4, <1>9, <2>3, <2>4, Zenon
  <2>7. QED
    BY <2>5, <2>6
<1>12. SumFunction(weight) \in Int /\ SumFunction(weighted) \in Int
  BY <1>1, <1>9, SumIsInt
<1>13. \A a, b \in Int : a * b = b * a /\ a * 1 = a
  BY SMT
<1>14. QED
  BY <1>1, <1>3, <1>4, <1>10, <1>11, <1>12, <1>13

(* The quotient that finish_into writes is a softmax: see OutputIsSoftmax. *)
LEMMA FinishWritesSoftmax ==
  ASSUME Inv, Finish
  PROVE  /\ output'.num * Mass(rows) = output'.den * Moment(rows)
         /\ output'.num * DirectAttention(rows).den = output'.den * DirectAttention(rows).num
         /\ \E i, j \in DOMAIN rows :
              /\ rows[i].value * output'.den <= output'.num
              /\ output'.num <= rows[j].value * output'.den
<1> DEFINE s == rows
           W == 2 ^ (LogitSpan - max_logit)
<1>1. /\ call = Idle /\ consumed_tokens # 0
      /\ output'.num = acc /\ output'.den = denom
  BY DEF Finish, Finishable
<1>2. s \in Seq(Row) /\ consumed_tokens = Len(s) /\ FoldedRows = s
  BY <1>1 DEF Inv, ControlInv, FoldedRows, Idle
<1>3. s # << >> /\ SoftmaxOf(s)
  BY <1>1, <1>2 DEF Inv
<1>4. /\ DirectAttention(s).num = acc /\ DirectAttention(s).den = denom
  BY <1>2, <1>3, DirectIsReduced
<1>5. /\ max_logit \in 0 .. LogitSpan
      /\ denom = W * Mass(s) /\ acc = W * Moment(s)
  BY <1>3 DEF SoftmaxOf
<1>6. W \in Nat /\ Mass(s) \in Int /\ Moment(s) \in Int
  BY <1>2, <1>5, FoldedAssumption, PowerPositive, WeightFacts
<1>7. PICK i, j \in DOMAIN s : \A k \in DOMAIN s : s[i].value <= s[k].value /\ s[k].value <= s[j].value
  BY <1>2, <1>3, ExtremesExist
<1>8. s[i].value \in Int /\ s[j].value \in Int
  <2>1. s[i] \in Row /\ s[j] \in Row
    BY <1>2
  <2>2. QED
    BY <2>1, RowFacts
<1>9. s[i].value * Mass(s) <= Moment(s)
  <2>1. \A k \in DOMAIN s : s[i].value <= s[k].value
    BY <1>7
  <2>2. QED
    BY <1>2, <1>8, <2>1, MomentBounds
<1>10. Moment(s) <= s[j].value * Mass(s)
  <2>1. \A k \in DOMAIN s : s[k].value <= s[j].value
    BY <1>7
  <2>2. QED
    BY <1>2, <1>8, <2>1, MomentBounds
<1>11. \A a, b, v \in Int, c \in Nat :
         /\ (c * a) * b = (c * b) * a
         /\ v * a <= b => v * (c * a) <= c * b
         /\ b <= v * a => c * b <= v * (c * a)
  <2>1. \A a, b, v \in Int, c \in Nat : /\ (c * a) * b = (c * b) * a
                                        /\ v * (c * a) = c * (v * a) /\ v * a \in Int
    BY SMT
  <2>2. \A x, y \in Int, c \in Nat : x <= y => c * x <= c * y
    BY SMT
  <2>3. QED
    BY <2>1, <2>2
<1> HIDE DEF s, W
<1>12. acc * Mass(s) = denom * Moment(s)
  BY <1>5, <1>6, <1>11
<1>13. acc * denom = denom * acc
  <2>1. acc \in Int /\ denom \in Int
    BY <1>5, <1>6
  <2>2. \A a, b \in Int : a * b = b * a
    BY SMT
  <2>3. QED
    BY <2>1, <2>2
<1>14. s[i].value * denom <= acc /\ acc <= s[j].value * denom
  BY <1>5, <1>6, <1>8, <1>9, <1>10, <1>11
<1>15. QED
  BY <1>1, <1>4, <1>7, <1>12, <1>13, <1>14 DEF s

(* Whatever finish_into writes is the softmax-weighted mean of all rows    *)
(* since the reset: what direct attention gives, and between the smallest  *)
(* and the largest value.                                                  *)
THEOREM OutputsAreSoftmax == Spec => OutputIsSoftmax
<1>1. ASSUME Inv, [Next]_vars, output' # output
      PROVE  Finish
  BY <1>1 DEF Next, ConsumeStep, vars, reducer, Reset, ConsumeRefused, ConsumeOverflows, ConsumeBegin,
    Logit, LogitNotFinite, LogitsDone, Fold, ConsumeDone, FinishRefused, FinishFails
<1>2. Inv /\ [Next]_vars =>
        [output' # output =>
           /\ output'.num * Mass(rows) = output'.den * Moment(rows)
           /\ LET direct == DirectAttention(rows)
              IN  output'.num * direct.den = output'.den * direct.num
           /\ \E i, j \in DOMAIN rows :
                rows[i].value * output'.den <= output'.num /\ output'.num <= rows[j].value * output'.den]_vars
  BY <1>1, FinishWritesSoftmax
<1>3. QED
  BY <1>2, Inductive, PTL DEF Spec, OutputIsSoftmax
=============================================================================
