------------------------ MODULE DecodeValidationProofs ------------------------
(***************************************************************************)
(* Theorems about the mapping of heads and about DecodeValidation, for any *)
(* topologies, plans, steps and drifts.                                    *)
(***************************************************************************)
EXTENDS DecodeValidation, FiniteSetTheorems, SequenceTheorems, TLAPS

-----------------------------------------------------------------------------
(* The mapping of heads.                                                   *)

(* Euclidean division brackets its quotient, and only its quotient.        *)
LEMMA Division ==
  ASSUME NEW a \in Nat, NEW b \in Nat \ {0}
  PROVE  /\ a \div b \in Nat
         /\ b * (a \div b) <= a /\ a < b * (a \div b) + b
         /\ a = b * (a \div b) + (a % b) /\ a % b \in 0 .. b - 1
<1>1. a \div b \in Nat
  BY SMT
<1>2. a = b * (a \div b) + (a % b) /\ a % b \in 0 .. b - 1
  BY SMT
<1> QED
  BY <1>1, <1>2, SMT

LEMMA QuotientUnique ==
  ASSUME NEW a \in Nat, NEW b \in Nat \ {0}, NEW k \in Nat,
         b * k <= a, a < b * k + b
  PROVE  a \div b = k
<1> DEFINE d == a \div b
<1>1. d \in Nat /\ b * d <= a /\ a < b * d + b
  BY Division
<1>2. ~ (d < k)
  <2> SUFFICES ASSUME d < k PROVE FALSE
    OBVIOUS
  <2>1. b * (d + 1) <= b * k
    BY <1>1, SMT
  <2> QED
    BY <1>1, <2>1, SMT
<1>3. ~ (k < d)
  <2> SUFFICES ASSUME k < d PROVE FALSE
    OBVIOUS
  <2>1. b * (k + 1) <= b * d
    BY <1>1, SMT
  <2> QED
    BY <1>1, <2>1, SMT
<1> QED
  BY <1>1, <1>2, <1>3, SMT
-----------------------------------------------------------------------------
(* The groups of an accepted topology tile its query heads, and whatever   *)
(* its kind, a head is served by the number of its group.                  *)
LEMMA GroupsTile ==
  ASSUME NEW t \in TopologyFields, Accepted(t)
  PROVE  /\ GroupSize(t) \in Nat \ {0}
         /\ GroupSize(t) * t.kv_heads = t.query_heads
         /\ \A h \in 0 .. t.query_heads - 1 : KvHead(t, h) = h \div GroupSize(t)
<1> DEFINE q == t.query_heads
           v == t.kv_heads
<1>1. q \in Nat \ {0} /\ v \in Nat \ {0} /\ v <= q
  BY SMT DEF TopologyFields, Accepted
<1>2. CASE t.kind = "Mha"
  <2>1. q = v
    BY <1>2 DEF Accepted
  <2>2. q \div v = 1
    BY <1>1, <2>1, QuotientUnique, SMT
  <2>3. \A h \in 0 .. q - 1 : h \div 1 = h
    BY <1>1, SMT
  <2> QED
    BY <1>1, <1>2, <2>1, <2>2, <2>3, SMT DEF GroupSize, KvHead
<1>3. CASE t.kind = "Mqa"
  <2>1. v = 1
    BY <1>3 DEF Accepted
  <2>2. q \div v = q
    BY <1>1, <2>1, SMT
  <2>3. \A h \in 0 .. q - 1 : h \div q = 0
    <3> TAKE h \in 0 .. q - 1
    <3>1. h \in Nat /\ q * 0 <= h /\ h < q * 0 + q
      BY <1>1, SMT
    <3> QED
      BY <1>1, <3>1, QuotientUnique
  <2> QED
    BY <1>1, <1>3, <2>1, <2>2, <2>3, SMT DEF GroupSize, KvHead
<1>4. CASE t.kind = "Gqa"
  <2>1. q % v = 0
    BY <1>4 DEF Accepted
  <2>2. q = v * (q \div v) /\ q \div v \in Nat
    <3>1. q \div v \in Nat /\ q = v * (q \div v) + (q % v)
      BY <1>1, Division
    <3> HIDE DEF q, v
    <3> QED
      BY <1>1, <2>1, <3>1, SMT
  <2>3. q \div v # 0
    BY <1>1, <2>2, SMT
  <2>4. GroupSize(t) \in Nat \ {0} /\ GroupSize(t) * v = q
    BY <1>1, <2>2, <2>3, SMT DEF GroupSize
  <2> QED
    BY <1>4, <2>4 DEF KvHead
<1> QED
  BY <1>2, <1>3, <1>4 DEF TopologyFields, Kinds

(* Every query head of every accepted topology is mapped to a KV head that *)
(* exists, in the group that holds it, and without wrap-around.            *)
THEOREM MappingIsSound ==
  ASSUME NEW t \in TopologyFields, Accepted(t), NEW h \in 0 .. t.query_heads - 1
  PROVE  MappingSound(t, h)
<1> DEFINE g == GroupSize(t)
           q == t.query_heads
           v == t.kv_heads
           k == KvHead(t, h)
<1>1. g \in Nat \ {0} /\ g * v = q /\ k = h \div g
  BY GroupsTile
<1>2. q \in Nat /\ v \in Nat /\ h \in Nat /\ h < q
  BY SMT DEF TopologyFields
<1>3. k \in Nat /\ g * k <= h /\ h < g * k + g
  BY <1>1, <1>2, Division
<1>4. k < v
  <2> SUFFICES ASSUME ~ (k < v) PROVE FALSE
    OBVIOUS
  <2>1. g * v <= g * k
    BY <1>1, <1>2, <1>3, SMT
  <2> QED
    BY <1>1, <1>2, <1>3, <2>1, SMT
<1>5. g * k + g <= q
  <2>1. g * (k + 1) <= g * v
    BY <1>1, <1>2, <1>3, <1>4, SMT
  <2> QED
    BY <1>1, <1>3, <2>1, SMT
<1>6. k * g = g * k
  BY <1>1, <1>3, SMT
<1> HIDE DEF g, q, v, k
<1>7. k < v /\ k * g <= h /\ h < k * g + g /\ k * g + g <= q
  BY <1>3, <1>4, <1>5, <1>6
<1> QED
  BY <1>7 DEF MappingSound, Mapping, g, q, v, k

(* The group that a mapping names is exactly the set of the heads that     *)
(* share its KV head.                                                      *)
THEOREM GroupsAreShared ==
  ASSUME NEW t \in TopologyFields, Accepted(t), NEW h \in 0 .. t.query_heads - 1
  PROVE  GroupIsShared(t, h)
<1> DEFINE g == GroupSize(t)
           q == t.query_heads
           k == KvHead(t, h)
<1>1. g \in Nat \ {0} /\ \A i \in 0 .. q - 1 : KvHead(t, i) = i \div g
  BY GroupsTile
<1>2. q \in Nat /\ h \in Nat
  BY SMT DEF TopologyFields
<1>3. k \in Nat
  BY <1>1, <1>2, Division
<1>4. ASSUME NEW i \in 0 .. q - 1
      PROVE  KvHead(t, i) = k <=> k * g <= i /\ i < k * g + g
  <2>1. i \in Nat /\ k * g = g * k
    BY <1>1, <1>2, <1>3, SMT
  <2>2. ASSUME i \div g = k PROVE g * k <= i /\ i < g * k + g
    BY <1>1, <2>1, <2>2, Division
  <2>3. ASSUME g * k <= i, i < g * k + g PROVE i \div g = k
    BY <1>1, <1>3, <2>1, <2>3, QuotientUnique
  <2>4. KvHead(t, i) = i \div g
    BY <1>1
  <2> HIDE DEF g, k
  <2> QED
    BY <2>1, <2>2, <2>3, <2>4
<1> QED
  BY <1>4 DEF GroupIsShared, Mapping

-----------------------------------------------------------------------------
(* Nothing is left in freed memory.                                        *)

(* The buffers that hold data between two stages, query first.             *)
Holding ==
  [start          |-> {},
   query          |-> {},
   baseline       |-> {"query"},
   attend         |-> {"query", "full_output"},
   compare        |-> {"query"} \cup Outputs,
   project_full   |-> {"query"} \cup Outputs,
   project_atlas  |-> {"query", "full_logits"} \cup Outputs,
   compare_logits |-> {"query"} \cup Outputs \cup LogitBuffers,
   passed         |-> {},
   failed         |-> {}]

(* What lives is what the stage holds, and nothing was left before.        *)
HoldingInv == pc \in DOMAIN Holding /\ live \subseteq Holding[pc] /\ left = {}

(* A stage that fails wipes all that its caller does not own.              *)
LEMMA FailKeeps ==
  ASSUME NEW holding, NEW wiped, left = {}, Fail(holding, wiped), holding \subseteq wiped
  PROVE  HoldingInv'
BY DEF Fail, HoldingInv, Holding

LEMMA InitHolds == Init => HoldingInv
BY DEF Init, HoldingInv, Holding

LEMMA NextHolds == HoldingInv /\ [Next]_vars => HoldingInv'
<1> SUFFICES ASSUME HoldingInv, [Next]_vars PROVE HoldingInv'
  OBVIOUS
<1> USE DEF Outputs, LogitBuffers
<1>1. CASE PlanRefused \/ Start \/ MakeQuery \/ Baseline \/ OutputsAgree \/ ProjectFull
  BY <1>1 DEF HoldingInv, Holding, PlanRefused, Start, MakeQuery, Baseline, OutputsAgree, ProjectFull
<1>2. CASE QueryRefused \/ QueryFails
  BY <1>2, FailKeeps DEF HoldingInv, Holding, QueryRefused, QueryFails
<1>3. CASE RequestRefused
  BY <1>3, FailKeeps DEF HoldingInv, Holding, RequestRefused, StepFails
<1>4. CASE BaselineFails
  BY <1>4, FailKeeps DEF HoldingInv, Holding, BaselineFails, StepFails
<1>5. ASSUME NEW hot \in HotBytes, AttendFails(hot)
      PROVE  HoldingInv'
  BY <1>5, FailKeeps DEF HoldingInv, Holding, AttendFails, StepFails
<1>6. ASSUME NEW hot \in HotBytes, NEW d \in Drifts, Attend(hot, d)
      PROVE  HoldingInv'
  BY <1>6 DEF HoldingInv, Holding, Attend
<1>7. CASE OutputDrifts \/ CompareFails
  BY <1>7, FailKeeps DEF HoldingInv, Holding, OutputDrifts, CompareFails, StepFails
<1>8. CASE ProjectFails
  BY <1>8, FailKeeps DEF HoldingInv, Holding, ProjectFails, StepFails
<1>9. ASSUME NEW d \in Drifts, Project(d)
      PROVE  HoldingInv'
  BY <1>9 DEF HoldingInv, Holding, Project
<1>10. CASE LogitsDrift \/ CompareLogitsFails \/ TelemetryFails
  BY <1>10, FailKeeps
     DEF HoldingInv, Holding, LogitsDrift, CompareLogitsFails, TelemetryFails, StepFails
<1>11. CASE Report
  BY <1>11 DEF HoldingInv, Holding, Report
<1>12. CASE UNCHANGED vars
  BY <1>12 DEF vars, HoldingInv
<1> QED
  BY <1>1, <1>2, <1>3, <1>4, <1>5, <1>6, <1>7, <1>8, <1>9, <1>10, <1>11, <1>12 DEF Next

(* However a step ends, and whatever plans, drifts and failures there are, *)
(* no buffer is freed with data in it.                                     *)
THEOREM NothingIsLeft == Spec => []NothingLeft
<1>1. HoldingInv => NothingLeft
  BY DEF HoldingInv, Holding, NothingLeft
<1> QED
  BY <1>1, InitHolds, NextHolds, PTL DEF Spec

-----------------------------------------------------------------------------
(* Induction, and folds.                                                   *)

(* The library's induction takes an operator; this one takes the set of    *)
(* the numbers for which something holds.                                  *)
LEMMA NatSetInduction ==
  ASSUME NEW S, 0 \in S, \A n \in Nat : n \in S => n + 1 \in S
  PROVE  Nat \subseteq S
<1> DEFINE T == Nat \ S
<1> SUFFICES ASSUME T # {} PROVE FALSE
  OBVIOUS
<1>1. PICK x \in T : \A y \in T : ~ (<<y, x>> \in OpToRel(<, Nat))
  <2>1. T \subseteq Nat
    OBVIOUS
  <2> HIDE DEF T
  <2>2. QED
    BY <2>1, WFMin, NatLessThanWellFounded
<1>2. \A y \in T : ~(y < x)
  BY <1>1 DEF OpToRel
<1>3. x # 0 /\ x \in Nat
  OBVIOUS
<1>4. x - 1 \in Nat /\ x - 1 < x
  BY <1>3
<1>5. x - 1 \in S
  BY <1>2, <1>4
<1>6. QED
  BY <1>3, <1>4, <1>5

(* pick takes an element out of every subset of D, S holds of a set if it  *)
(* holds of what is left then, and it is the iteration that MapThenFoldSet *)
(* chooses.                                                                *)
Picks(pick, D) == DOMAIN pick = SUBSET D /\ \A s \in SUBSET D : s # {} => pick[s] \in s

Inherited(S, D, pick) == \A s \in SUBSET D : s # {} /\ s \ {pick[s]} \in S => s \in S

Folds(it, D, base, step, pick) ==
  \A s \in SUBSET D : it[s] = IF s = {} THEN base ELSE step[<<pick[s], it[s \ {pick[s]}]>>]

LEMMA FoldExists ==
  ASSUME NEW D, IsFiniteSet(D), NEW V, NEW base \in V, NEW step \in [D \X V -> V],
         NEW pick, Picks(pick, D)
  PROVE  \E it \in [SUBSET D -> V] : Folds(it, D, base, step, pick)
<1> DEFINE OK(it, s) == it[s] = IF s = {} THEN base ELSE step[<<pick[s], it[s \ {pick[s]}]>>]
<1> DEFINE Upto(it, n) == \A s \in SUBSET D : Cardinality(s) <= n => OK(it, s)
<1> DEFINE S == {n \in Nat : \E it \in [SUBSET D -> V] : Upto(it, n)}
<1>0. \A s \in SUBSET D : /\ IsFiniteSet(s) /\ Cardinality(s) \in Nat
                          /\ Cardinality(s) <= 0 => s = {}
                          /\ s # {} => /\ s \ {pick[s]} \in SUBSET D
                                       /\ Cardinality(s \ {pick[s]}) = Cardinality(s) - 1
  <2> SUFFICES ASSUME NEW s \in SUBSET D
               PROVE  /\ IsFiniteSet(s) /\ Cardinality(s) \in Nat
                      /\ Cardinality(s) <= 0 => s = {}
                      /\ s # {} => /\ s \ {pick[s]} \in SUBSET D
                                   /\ Cardinality(s \ {pick[s]}) = Cardinality(s) - 1
    OBVIOUS
  <2>1. IsFiniteSet(s) /\ Cardinality(s) \in Nat
    BY FS_Subset, FS_CardinalityType
  <2>2. Cardinality(s) = 0 <=> s = {}
    BY <2>1, FS_EmptySet
  <2>3. s # {} => Cardinality(s \ {pick[s]}) = Cardinality(s) - 1
    BY <2>1, FS_RemoveElement DEF Picks
  <2>4. QED
    BY <2>1, <2>2, <2>3
<1>1. 0 \in S
  <2> DEFINE g == [s \in SUBSET D |-> base]
  <2>1. g \in [SUBSET D -> V] /\ Upto(g, 0)
    BY <1>0
  <2>2. QED
    BY <2>1
<1>2. ASSUME NEW n \in Nat, n \in S
      PROVE  n + 1 \in S
  <2>1. PICK f \in [SUBSET D -> V] : Upto(f, n)
    BY <1>2
  <2> DEFINE g == [s \in SUBSET D |-> IF s = {} THEN base ELSE step[<<pick[s], f[s \ {pick[s]}]>>]]
  <2>2. g \in [SUBSET D -> V]
    BY DEF Picks
  <2>3. \A s \in SUBSET D : Cardinality(s) <= n => f[s] = g[s]
    BY <2>1
  <2>4. \A s \in SUBSET D : s # {} /\ Cardinality(s) <= n + 1 => f[s \ {pick[s]}] = g[s \ {pick[s]}]
    <3> HIDE DEF g
    <3> SUFFICES ASSUME NEW s \in SUBSET D, s # {}, Cardinality(s) <= n + 1
                 PROVE  f[s \ {pick[s]}] = g[s \ {pick[s]}]
      OBVIOUS
    <3>0. /\ s \ {pick[s]} \in SUBSET D /\ Cardinality(s) \in Nat
          /\ Cardinality(s \ {pick[s]}) = Cardinality(s) - 1
      BY <1>0, Zenon
    <3>1. s \ {pick[s]} \in SUBSET D /\ Cardinality(s \ {pick[s]}) <= n
      BY <3>0
    <3>2. QED
      BY <2>3, <3>1, Zenon
  <2>5. Upto(g, n + 1)
    <3> SUFFICES ASSUME NEW s \in SUBSET D, Cardinality(s) <= n + 1
                 PROVE  OK(g, s)
      OBVIOUS
    <3>1. g[s] = IF s = {} THEN base ELSE step[<<pick[s], f[s \ {pick[s]}]>>]
      OBVIOUS
    <3> HIDE DEF g
    <3>2. s # {} => f[s \ {pick[s]}] = g[s \ {pick[s]}]
      BY <2>4, Zenon
    <3>3. QED
      BY <3>1, <3>2, Zenon
  <2> HIDE DEF g
  <2> HIDE DEF Upto
  <2>6. n + 1 \in Nat
    OBVIOUS
  <2>7. QED
    BY <2>2, <2>5, <2>6
<1>3. Cardinality(D) \in S
  <2> HIDE DEF S
  <2>1. QED
    BY <1>0, <1>1, <1>2, NatSetInduction
<1>4. PICK it \in [SUBSET D -> V] : Upto(it, Cardinality(D))
  BY <1>3
<1>5. \A s \in SUBSET D : Cardinality(s) <= Cardinality(D)
  BY FS_Subset
<1>6. QED
  BY <1>4, <1>5 DEF Folds

(* What holds of nothing, and of a set if it holds of what is left when    *)
(* one element is taken, holds of a finite set.                            *)
LEMMA PickInduction ==
  ASSUME NEW D, IsFiniteSet(D), NEW pick, Picks(pick, D),
         NEW S, {} \in S, Inherited(S, D, pick)
  PROVE  D \in S
<1> DEFINE B == {s \in SUBSET D : s \notin S}
<1> SUFFICES ASSUME D \notin S PROVE FALSE
  OBVIOUS
<1>1. B \subseteq FiniteSubsetsOf(D) /\ B # {}
  BY FS_FiniteSubsetsOfFinite
<1>2. PICK x \in B : \A y \in B : ~ (<<y, x>> \in StrictSubsetOrdering(D))
  <2> HIDE DEF B
  <2>1. QED
    BY <1>1, WFMin, FS_StrictSubsetOrderingWellFounded
<1>3. \A y \in B : ~(y \subseteq x /\ y # x)
  BY <1>2 DEF StrictSubsetOrdering
<1>4. x \in SUBSET D /\ x # {} /\ x \notin S /\ pick[x] \in x
  BY DEF Picks
<1>5. x \ {pick[x]} \in SUBSET D /\ x \ {pick[x]} \subseteq x /\ x \ {pick[x]} # x
  BY <1>4
<1>6. x \ {pick[x]} \in S
  <2>1. x \ {pick[x]} \notin B
    <3> HIDE DEF B
    <3>1. QED
      BY <1>3, <1>5
  <2>2. QED
    BY <1>5, <2>1
<1>7. QED
  BY <1>4, <1>6 DEF Inherited

-----------------------------------------------------------------------------
(* The summary of a report.                                                *)

(* The worst of some distances is an upper bound of them, and the least.   *)
LEMMA WorstIsLeastBound ==
  ASSUME NEW n \in Nat, NEW diffs \in [1 .. n -> Nat]
  PROVE  /\ Worst(diffs) \in Nat
         /\ \A i \in 1 .. n : diffs[i] <= Worst(diffs)
         /\ \A t \in Nat : (\A i \in 1 .. n : diffs[i] <= t) => Worst(diffs) <= t
<1> DEFINE D == DOMAIN diffs
<1> DEFINE any(s) == CHOOSE x \in s : TRUE
<1> DEFINE worse(d, worst) == IF d > worst THEN d ELSE worst
<1> DEFINE Iterates(f) ==
      f = [s \in SUBSET D |->
             IF s = {} THEN 0 ELSE LET x == any(s) IN worse(diffs[x], f[s \ {x}])]
<1> DEFINE it == CHOOSE f : Iterates(f)
<1>1. Worst(diffs) = it[D]
  BY Zenon DEF Worst, FoldSeq, FoldFunction, FoldFunctionOnSet, MapThenFoldSet
<1>2. D = 1 .. n /\ IsFiniteSet(D)
  BY FS_Interval
<1> DEFINE pick == [s \in SUBSET D |-> any(s)]
<1> DEFINE step == [p \in D \X Nat |-> worse(diffs[p[1]], p[2])]
<1>3. step \in [D \X Nat -> Nat]
  BY <1>2
<1>4. DOMAIN pick = SUBSET D /\ \A s \in SUBSET D : pick[s] = any(s) /\ (s # {} => any(s) \in s)
  OBVIOUS
<1> HIDE DEF any
<1>5. PICK f \in [SUBSET D -> Nat] : Folds(f, D, 0, step, pick)
  <2>1. Picks(pick, D)
    BY <1>4 DEF Picks
  <2>2. IsFiniteSet(D)
    BY <1>2
  <2>3. 0 \in Nat
    OBVIOUS
  <2> HIDE DEF D, step, pick
  <2>4. QED
    BY <1>3, <2>1, <2>2, <2>3, FoldExists, Zenon
<1>6. Iterates(f)
  <2>1. \A s \in SUBSET D : f[s] = IF s = {} THEN 0 ELSE worse(diffs[any(s)], f[s \ {any(s)}])
    <3> SUFFICES ASSUME NEW s \in SUBSET D, s # {}
                 PROVE  f[s] = worse(diffs[any(s)], f[s \ {any(s)}])
      BY <1>5 DEF Folds
    <3>1. f[s] = step[<<any(s), f[s \ {any(s)}]>>]
      BY <1>4, <1>5 DEF Folds
    <3>2. any(s) \in D /\ f[s \ {any(s)}] \in Nat
      BY <1>4
    <3>3. QED
      BY <3>1, <3>2
  <2> HIDE DEF worse, D
  <2>2. f = [s \in SUBSET D |-> f[s]]
    OBVIOUS
  <2>3. QED
    BY <2>1, <2>2
<1>7. Iterates(it)
  <2> HIDE DEF Iterates
  <2>1. QED
    BY <1>6
<1> HIDE DEF it
<1>8. it[{}] = 0 /\ \A s \in SUBSET D : s # {} => it[s] = worse(diffs[any(s)], it[s \ {any(s)}])
  BY <1>7
<1> DEFINE Bounds(s) ==
      /\ it[s] \in Nat
      /\ \A i \in s : diffs[i] <= it[s]
      /\ \A t \in Nat : (\A i \in s : diffs[i] <= t) => it[s] <= t
<1> DEFINE S == {s \in SUBSET D : Bounds(s)}
<1>9. {} \in S
  BY <1>8
<1>10. ASSUME NEW s \in SUBSET D, s # {}, s \ {any(s)} \in S
       PROVE  s \in S
  <2>1. any(s) \in s /\ diffs[any(s)] \in Nat /\ \A i \in s : diffs[i] \in Nat
    BY <1>2, <1>4, <1>10
  <2>2. Bounds(s \ {any(s)})
    BY <1>10
  <2>3. it[s] = worse(diffs[any(s)], it[s \ {any(s)}])
    BY <1>8, <1>10
  <2>4. it[s] \in Nat /\ diffs[any(s)] <= it[s] /\ it[s \ {any(s)}] <= it[s]
    BY <2>1, <2>2, <2>3
  <2>5. ASSUME NEW i \in s
        PROVE  diffs[i] <= it[s]
    <3>1. i = any(s) \/ i \in s \ {any(s)}
      OBVIOUS
    <3>2. i \in s \ {any(s)} => diffs[i] <= it[s \ {any(s)}]
      BY <2>2
    <3>3. diffs[i] \in Nat /\ it[s \ {any(s)}] \in Nat
      BY <2>1, <2>2
    <3>4. QED
      BY <2>1, <2>4, <3>1, <3>2, <3>3
  <2>6. ASSUME NEW t \in Nat, \A i \in s : diffs[i] <= t
        PROVE  it[s] <= t
    <3>1. it[s \ {any(s)}] <= t
      BY <2>2, <2>6
    <3>2. diffs[any(s)] <= t
      BY <2>1, <2>6
    <3>3. QED
      BY <2>3, <3>1, <3>2
  <2>7. QED
    BY <2>4, <2>5, <2>6
<1>11. D \in S
  <2>1. Picks(pick, D)
    BY <1>4 DEF Picks
  <2>2. Inherited(S, D, pick)
    <3> HIDE DEF S, D
    <3>1. QED
      BY <1>4, <1>10 DEF Inherited
  <2>3. IsFiniteSet(D)
    BY <1>2
  <2> HIDE DEF S, D, pick
  <2>4. QED
    BY <1>9, <2>1, <2>2, <2>3, PickInduction
<1>12. QED
  BY <1>1, <1>2, <1>11

(* Fractions are ordered transitively.                                     *)
LEMMA FractionsOrdered ==
  ASSUME NEW a \in Nat, NEW b \in Nat \ {0}, NEW c \in Nat, NEW d \in Nat \ {0},
         NEW e \in Nat, NEW f \in Nat \ {0},
         a * d <= c * b, c * f <= e * d
  PROVE  a * f <= e * b
<1>1. (a * d) * f <= (c * b) * f
  <2>1. a * d \in Nat /\ c * b \in Nat
    BY SMT
  <2>2. \A x, y \in Nat : x <= y => x * f <= y * f
    BY SMT
  <2>3. QED
    BY <2>1, <2>2
<1>2. (c * f) * b <= (e * d) * b
  <2>1. c * f \in Nat /\ e * d \in Nat
    BY SMT
  <2>2. \A x, y \in Nat : x <= y => x * b <= y * b
    BY SMT
  <2>3. QED
    BY <2>1, <2>2
<1>3. (c * b) * f = (c * f) * b /\ (a * d) * f = (a * f) * d /\ (e * d) * b = (e * b) * d
  BY SMT
<1>4. a * f \in Nat /\ e * b \in Nat /\ (a * f) * d \in Nat /\ (c * f) * b \in Nat /\ (e * b) * d \in Nat
  BY SMT
<1>5. (a * f) * d <= (e * b) * d
  BY <1>1, <1>2, <1>3, <1>4
<1>6. \A x, y \in Nat : x * d <= y * d => x <= y
  <2> SUFFICES ASSUME NEW x \in Nat, NEW y \in Nat, x * d <= y * d, y + 1 <= x
               PROVE  FALSE
    BY SMT
  <2>1. (y + 1) * d <= x * d
    BY SMT
  <2>2. (y + 1) * d = y * d + d /\ y * d \in Nat /\ x * d \in Nat
    BY SMT
  <2>3. QED
    BY <2>1, <2>2, SMT
<1>7. QED
  BY <1>4, <1>5, <1>6

Reductions == [baseline : Nat, resident : Nat \ {0}]

(* The best reduction of a report is no less than that of any of its steps.*)
LEMMA BestIsBound ==
  ASSUME NEW report, NEW n \in Nat, DOMAIN report = 1 .. n,
         \A i \in 1 .. n : report[i].baseline \in Nat /\ report[i].resident \in Nat \ {0}
  PROVE  /\ BestMemoryReduction(report) \in Reductions
         /\ \A i \in 1 .. n :
              report[i].baseline * BestMemoryReduction(report).resident
                <= BestMemoryReduction(report).baseline * report[i].resident
<1> DEFINE seq == [i \in DOMAIN report |-> [baseline |-> report[i].baseline,
                                            resident |-> report[i].resident]]
<1> DEFINE D == DOMAIN seq
<1> DEFINE base == [baseline |-> 0, resident |-> 1]
<1> DEFINE any(s) == CHOOSE x \in s : TRUE
<1> DEFINE better(x, best) ==
      IF x.baseline * best.resident > best.baseline * x.resident THEN x ELSE best
<1> DEFINE Iterates(f) ==
      f = [s \in SUBSET D |->
             IF s = {} THEN base ELSE LET x == any(s) IN better(seq[x], f[s \ {x}])]
<1> DEFINE it == CHOOSE f : Iterates(f)
<1>1. BestMemoryReduction(report) = it[D]
  BY Zenon DEF BestMemoryReduction, FoldSeq, FoldFunction, FoldFunctionOnSet, MapThenFoldSet
<1>2. D = 1 .. n /\ IsFiniteSet(D)
  BY FS_Interval
<1>3. \A i \in D : seq[i] \in Reductions
  BY <1>2 DEF Reductions
<1>4. base \in Reductions
  BY DEF Reductions
<1> DEFINE pick == [s \in SUBSET D |-> any(s)]
<1> DEFINE step == [p \in D \X Reductions |-> better(seq[p[1]], p[2])]
<1>5. step \in [D \X Reductions -> Reductions]
  BY <1>3
<1>6. DOMAIN pick = SUBSET D /\ \A s \in SUBSET D : pick[s] = any(s) /\ (s # {} => any(s) \in s)
  OBVIOUS
<1> HIDE DEF any, base, better
<1>7. PICK f \in [SUBSET D -> Reductions] : Folds(f, D, base, step, pick)
  <2>1. Picks(pick, D)
    BY <1>6 DEF Picks
  <2>2. IsFiniteSet(D)
    BY <1>2
  <2> HIDE DEF D, step, pick
  <2>3. QED
    BY <1>4, <1>5, <2>1, <2>2, FoldExists, Zenon
<1>8. Iterates(f)
  <2>1. \A s \in SUBSET D : f[s] = IF s = {} THEN base ELSE better(seq[any(s)], f[s \ {any(s)}])
    <3> SUFFICES ASSUME NEW s \in SUBSET D, s # {}
                 PROVE  f[s] = better(seq[any(s)], f[s \ {any(s)}])
      BY <1>7 DEF Folds
    <3>1. f[s] = step[<<any(s), f[s \ {any(s)}]>>]
      BY <1>6, <1>7 DEF Folds
    <3>2. any(s) \in D /\ f[s \ {any(s)}] \in Reductions
      BY <1>6
    <3> HIDE DEF seq, D
    <3>3. QED
      BY <3>1, <3>2
  <2> HIDE DEF D
  <2>2. f = [s \in SUBSET D |-> f[s]]
    OBVIOUS
  <2>3. QED
    BY <2>1, <2>2
<1>9. Iterates(it)
  <2> HIDE DEF Iterates
  <2>1. QED
    BY <1>8
<1> HIDE DEF it
<1>10. it[{}] = base /\ \A s \in SUBSET D : s # {} => it[s] = better(seq[any(s)], it[s \ {any(s)}])
  BY <1>9
<1> DEFINE Bounds(s) ==
      /\ it[s] \in Reductions
      /\ \A i \in s : seq[i].baseline * it[s].resident <= it[s].baseline * seq[i].resident
<1> DEFINE S == {s \in SUBSET D : Bounds(s)}
<1>11. {} \in S
  BY <1>4, <1>10
<1>12. ASSUME NEW s \in SUBSET D, s # {}, s \ {any(s)} \in S
       PROVE  s \in S
  <2> DEFINE x == seq[any(s)]
             b == it[s \ {any(s)}]
  <2>1. any(s) \in s /\ x \in Reductions /\ \A i \in s : seq[i] \in Reductions
    BY <1>3, <1>6, <1>12
  <2>2. Bounds(s \ {any(s)})
    BY <1>12
  <2>3. it[s] = better(x, b)
    BY <1>10, <1>12
  <2>4. b \in Reductions
    BY <2>2
  <2>5. ASSUME NEW i \in s, i # any(s)
        PROVE  seq[i].baseline * b.resident <= b.baseline * seq[i].resident
    BY <2>2, <2>5
  <2> HIDE DEF seq, D, b
  <2>6. ASSUME NEW u \in Reductions, NEW v \in Reductions
        PROVE  /\ u.baseline \in Nat /\ u.resident \in Nat \ {0}
               /\ u.baseline * v.resident \in Nat
    BY DEF Reductions
  <2>7. CASE x.baseline * b.resident > b.baseline * x.resident
    <3>1. it[s] = x
      BY <2>3, <2>7 DEF better
    <3>2. b.baseline * x.resident <= x.baseline * b.resident
      BY <2>1, <2>4, <2>6, <2>7
    <3>3. ASSUME NEW i \in s
          PROVE  seq[i].baseline * x.resident <= x.baseline * seq[i].resident
      <4>1. CASE i = any(s)
        BY <2>1, <2>6, <4>1
      <4>2. CASE i # any(s)
        <5>1. seq[i].baseline * b.resident <= b.baseline * seq[i].resident
          BY <2>5, <4>2
        <5> HIDE DEF x
        <5>2. /\ seq[i].baseline \in Nat /\ seq[i].resident \in Nat \ {0}
              /\ x.baseline \in Nat /\ x.resident \in Nat \ {0}
              /\ b.baseline \in Nat /\ b.resident \in Nat \ {0}
          BY <2>1, <2>4, <2>6
        <5>3. QED
          BY <3>2, <5>1, <5>2, FractionsOrdered
      <4>3. QED
        BY <4>1, <4>2
    <3>4. QED
      BY <2>1, <3>1, <3>3
  <2>8. CASE ~ (x.baseline * b.resident > b.baseline * x.resident)
    <3>1. it[s] = b
      BY <2>3, <2>8 DEF better
    <3>2. x.baseline * b.resident <= b.baseline * x.resident
      BY <2>1, <2>4, <2>6, <2>8
    <3>3. ASSUME NEW i \in s
          PROVE  seq[i].baseline * b.resident <= b.baseline * seq[i].resident
      BY <2>5, <3>2
    <3>4. QED
      BY <2>4, <3>1, <3>3
  <2>9. QED
    BY <2>7, <2>8
<1>13. D \in S
  <2>1. Picks(pick, D)
    BY <1>6 DEF Picks
  <2>2. Inherited(S, D, pick)
    <3> HIDE DEF S, D
    <3>1. QED
      BY <1>6, <1>12 DEF Inherited
  <2>3. IsFiniteSet(D)
    BY <1>2
  <2> HIDE DEF S, D, pick
  <2>4. QED
    BY <1>11, <2>1, <2>2, <2>3, PickInduction
<1>14. \A i \in 1 .. n : seq[i].baseline = report[i].baseline /\ seq[i].resident = report[i].resident
  OBVIOUS
<1>15. QED
  <2> HIDE DEF seq, D
  <2>1. Bounds(D)
    BY <1>13
  <2>2. QED
    BY <1>1, <1>2, <1>14, <2>1

-----------------------------------------------------------------------------
(* The loop.                                                               *)

Reports == [layer : Nat, query_head : Nat, kv_head : Nat, context_tokens : Nat,
            drift : [output : Nat, logits : Nat], baseline : Nat, resident : Nat \ {0}]

Measures == [output : Nat, logits : Nat, hot : Nat]

(* The stages of a step, those after attend, and those after the outputs   *)
(* were found to agree.                                                    *)
Projecting == {"project_full", "project_atlas", "compare_logits"}
Answered == {"compare"} \cup Projecting
Working == {"baseline", "attend"} \cup Answered
Accepting == {"attend"} \cup Answered

LoopTypeOK ==
  /\ pc \in {"start", "query", "passed", "failed"} \cup Working
  /\ plan # NoPlan => plan \in PlanFields /\ Accepted(plan.topology)
  /\ plan = NoPlan => pc \notin {"start", "query"}
  /\ head_dim \in RowDims /\ hot_bytes \in Nat /\ drift \in [output : Nat, logits : Nat]
  /\ steps \in Seq(Reports) /\ measured \in Seq(Measures)

(* The loop is at a sample of its plan, and asks for that one.             *)
SampleInv ==
  /\ plan # NoPlan /\ pc \notin {"start", "failed"} =>
       /\ PlanValid
       /\ sample.decode_step \in 1 .. Len(plan.decode_steps)
       /\ sample.layer \in 1 .. Len(plan.layers)
       /\ sample.query_head \in 1 .. Len(plan.query_heads)
  /\ pc = "start" => sample = [decode_step |-> 1, layer |-> 1, query_head |-> 1]
  /\ DOMAIN sample = {"decode_step", "layer", "query_head"}

RequestInv ==
  /\ pc \in Working => request \in StepFields /\ Accepted(request.topology)
  /\ pc \in Accepting => HeadInRange(request.topology, request.query_head)
  /\ plan # NoPlan /\ pc \in Working =>
       /\ request.layer = Layer /\ request.query_head = QueryHead
       /\ request.context_tokens = ContextTokens
       /\ request.output_tolerance = plan.output_tolerance
       /\ request.logit_tolerance = plan.logit_tolerance

(* How many samples come before the d-th decode step on the l-th layer for *)
(* the h-th head.                                                          *)
Before(d, l, h) == ((d - 1) * Len(plan.layers) + (l - 1)) * Len(plan.query_heads) + (h - 1)

Reported ==
  IF plan = NoPlan THEN IF pc = "passed" THEN 1 ELSE 0
  ELSE IF pc = "passed"
    THEN Len(plan.decode_steps) * Len(plan.layers) * Len(plan.query_heads)
    ELSE Before(sample.decode_step, sample.layer, sample.query_head)

CountInv ==
  pc # "failed" =>
    /\ Len(steps) = Reported
    /\ Len(measured) = Len(steps) + (IF pc \in Answered THEN 1 ELSE 0)

(* The i-th report is of the i-th sample, within the tolerances.           *)
OfItsSample(i) ==
  LET heads == Len(plan.query_heads)
      layers == Len(plan.layers)
  IN  /\ steps[i].query_head = plan.query_heads[((i - 1) % heads) + 1]
      /\ steps[i].layer = plan.layers[(((i - 1) \div heads) % layers) + 1]
      /\ steps[i].context_tokens = plan.decode_steps[((i - 1) \div (heads * layers)) + 1] + 1
      /\ steps[i].drift.output <= plan.output_tolerance
      /\ steps[i].drift.logits <= plan.logit_tolerance

(* and says what was measured.                                             *)
AsMeasured(i) ==
  /\ steps[i].drift.output = measured[i].output
  /\ steps[i].drift.logits = measured[i].logits
  /\ steps[i].resident = ScratchBytes + measured[i].hot

ReportInv ==
  pc # "failed" =>
    \A i \in 1 .. Len(steps) : AsMeasured(i) /\ (plan # NoPlan => OfItsSample(i))

(* The step under way knows what the atlas did for it.                     *)
CurrentInv ==
  /\ pc \in Answered =>
       /\ measured[Len(measured)].output = drift.output
       /\ measured[Len(measured)].hot = hot_bytes
  /\ pc \in Projecting => drift.output <= request.output_tolerance
  /\ pc = "compare_logits" => measured[Len(measured)].logits = drift.logits

LoopInv ==
  LoopTypeOK /\ SampleInv /\ RequestInv /\ CountInv /\ ReportInv /\ CurrentInv

(* The place of a sample among all says which it is.                       *)
IsPlace(i, L, H, d, l, h) == i % H = h /\ (i \div H) % L = l /\ i \div (H * L) = d

LEMMA PlaceOfSample ==
  ASSUME NEW L \in Nat \ {0}, NEW H \in Nat \ {0},
         NEW d \in Nat, NEW l \in 0 .. L - 1, NEW h \in 0 .. H - 1,
         NEW i \in Nat, i = (d * L + l) * H + h
  PROVE  IsPlace(i, L, H, d, l, h)
<1> DEFINE g == d * L + l
<1>1. g \in Nat /\ h \in Nat /\ l \in Nat /\ d * L \in Nat
  BY SMT
<1>2. i \div H = g
  <2>1. H * g <= i /\ i < H * g + H
    <3>1. i = g * H + h /\ g * H = H * g
      BY <1>1, SMT
    <3> HIDE DEF g
    <3>2. H * g \in Nat
      BY <1>1, SMT
    <3>3. QED
      BY <3>1, <3>2, SMT
  <2> HIDE DEF g
  <2>2. QED
    BY <1>1, <2>1, QuotientUnique
<1>3. g \div L = d
  <2>1. L * d <= g /\ g < L * d + L
    <3>1. d * L = L * d /\ L * d \in Nat
      BY SMT
    <3>2. QED
      BY <3>1, SMT
  <2> HIDE DEF g
  <2>2. QED
    BY <1>1, <2>1, QuotientUnique
<1>4. i % H = h
  <2>1. i = H * (i \div H) + (i % H) /\ i % H \in 0 .. H - 1
    BY Division
  <2>2. i = H * g + h
    BY <1>1, SMT
  <2>3. H * g \in Nat
    BY <1>1, SMT
  <2> HIDE DEF g
  <2>4. QED
    BY <1>1, <1>2, <2>1, <2>2, <2>3, SMT
<1>5. g % L = l
  <2>1. g = L * (g \div L) + (g % L) /\ g % L \in 0 .. L - 1
    BY <1>1, Division
  <2>2. L * d \in Nat /\ g = L * d + l
    BY SMT
  <2> HIDE DEF g
  <2>3. QED
    BY <1>1, <1>3, <2>1, <2>2, SMT
<1>6. i \div (H * L) = d
  <2>1. H * L \in Nat \ {0}
    BY SMT
  <2>2. (H * L) * d <= i
    BY <1>1, SMT
  <2>3. i < (H * L) * d + H * L
    <3>1. l + 1 <= L /\ h < H
      BY SMT
    <3>2. l * H + H <= L * H
      BY <1>1, <3>1, SMT
    <3>3. i = (d * L) * H + l * H + h
      BY <1>1, SMT
    <3>4. (d * L) * H = (H * L) * d /\ L * H = H * L
      BY SMT
    <3>5. l * H \in Int /\ L * H \in Int /\ (d * L) * H \in Int
      BY <1>1, SMT
    <3>6. QED
      BY <1>1, <3>1, <3>2, <3>3, <3>4, <3>5, SMT
  <2>4. QED
    BY <2>1, <2>2, <2>3, QuotientUnique
<1>7. QED
  BY <1>2, <1>4, <1>5, <1>6 DEF IsPlace

(* The next sample comes right after, and the last one ends the count.     *)
LEMMA PlaceOfNext ==
  ASSUME NEW D \in Nat \ {0}, NEW L \in Nat \ {0}, NEW H \in Nat \ {0},
         NEW d \in 1 .. D, NEW l \in 1 .. L, NEW h \in 1 .. H
  PROVE  /\ ((d - 1) * L + (l - 1)) * H + (h - 1) \in Nat
         /\ ((d - 1) * L + (l - 1)) * H + ((h + 1) - 1)
              = ((d - 1) * L + (l - 1)) * H + (h - 1) + 1
         /\ h = H => ((d - 1) * L + ((l + 1) - 1)) * H + (1 - 1)
                       = ((d - 1) * L + (l - 1)) * H + (h - 1) + 1
         /\ h = H /\ l = L => (((d + 1) - 1) * L + (1 - 1)) * H + (1 - 1)
                                = ((d - 1) * L + (l - 1)) * H + (h - 1) + 1
         /\ h = H /\ l = L /\ d = D => D * L * H = ((d - 1) * L + (l - 1)) * H + (h - 1) + 1
<1> DEFINE g == (d - 1) * L + (l - 1)
<1>1. g \in Nat
  BY SMT
<1>2. g * H \in Nat
  BY <1>1, SMT
<1>3. (d - 1) * L + ((l + 1) - 1) = g + 1
  <2>1. (d - 1) * L \in Nat
    BY SMT
  <2>2. QED
    BY <2>1, SMT
<1>4. l = L => ((d + 1) - 1) * L + (1 - 1) = g + 1 /\ d * L = g + 1
  BY SMT
<1>5. (g + 1) * H = g * H + H
  BY <1>1, SMT
<1>6. (g + 1) * H + (1 - 1) = (g + 1) * H
  BY <1>1, <1>2, <1>5, SMT
<1> HIDE DEF g
<1>7. /\ g * H + (h - 1) \in Nat
      /\ g * H + ((h + 1) - 1) = g * H + (h - 1) + 1
      /\ h = H => (g + 1) * H + (1 - 1) = g * H + (h - 1) + 1
      /\ h = H => (g + 1) * H = g * H + (h - 1) + 1
  BY <1>1, <1>2, <1>5, <1>6, SMT
<1>8. h = H => ((d - 1) * L + ((l + 1) - 1)) * H + (1 - 1) = g * H + (h - 1) + 1
  BY <1>3, <1>7
<1>9. h = H /\ l = L => (((d + 1) - 1) * L + (1 - 1)) * H + (1 - 1) = g * H + (h - 1) + 1
  BY <1>4, <1>7
<1>10. h = H /\ l = L /\ d = D => D * L * H = g * H + (h - 1) + 1
  BY <1>4, <1>7
<1>11. QED
  BY <1>7, <1>8, <1>9, <1>10 DEF g

(* The largest layer of a plan is one of them.                             *)
LEMMA LargestIsALayer ==
  ASSUME plan \in PlanFields, plan.layers # << >>
  PROVE  LargestLayer \in Nat
<1> DEFINE n == Len(plan.layers)
           worst == Worst(plan.layers)
<1>1. n \in Nat /\ n # 0 /\ plan.layers \in [1 .. n -> Nat]
  BY DEF PlanFields
<1>2. /\ worst \in Nat
      /\ \A i \in 1 .. n : plan.layers[i] <= worst
      /\ \A t \in Nat : (\A i \in 1 .. n : plan.layers[i] <= t) => worst <= t
  <2> HIDE DEF n
  <2>1. QED
    BY <1>1, WorstIsLeastBound
<1> HIDE DEF worst
<1>3. \E i \in 1 .. n : plan.layers[i] = worst
  <2> SUFFICES ASSUME \A i \in 1 .. n : plan.layers[i] # worst PROVE FALSE
    OBVIOUS
  <2>1. 1 \in 1 .. n /\ \A i \in 1 .. n : plan.layers[i] \in Nat
    BY <1>1
  <2>2. worst # 0
    BY <1>2, <2>1
  <2>3. worst - 1 \in Nat /\ ~ (worst <= worst - 1)
    BY <1>2, <2>2
  <2>4. \A i \in 1 .. n : plan.layers[i] <= worst - 1
    BY <1>2, <2>1
  <2>5. QED
    BY <1>2, <2>3, <2>4
<1>4. PICK i \in 1 .. n : plan.layers[i] = worst
  BY <1>3
<1>5. Range(plan.layers) = {plan.layers[k] : k \in 1 .. n}
  BY <1>1 DEF Range
<1>6. worst \in Range(plan.layers) /\ \A y \in Range(plan.layers) : worst >= y
  BY <1>1, <1>2, <1>4, <1>5
<1>7. LargestLayer \in Range(plan.layers)
  BY <1>6 DEF LargestLayer, Max
<1>8. QED
  BY <1>1, <1>5, <1>7

LEMMA FailLoops ==
  ASSUME NEW holding, NEW wiped, LoopInv, Fail(holding, wiped), hot_bytes' \in Nat,
         UNCHANGED <<plan, head_dim, sample, drift, measured>>
  PROVE  LoopInv'
<1> USE DEF Fail, LoopInv, Working, Accepting, Answered, Projecting
<1>1. LoopTypeOK'
  BY DEF LoopTypeOK
<1>2. SampleInv'
  BY DEF SampleInv
<1>3. RequestInv'
  BY DEF RequestInv
<1>4. CountInv' /\ ReportInv' /\ CurrentInv'
  BY DEF CountInv, ReportInv, CurrentInv
<1>5. QED
  BY <1>1, <1>2, <1>3, <1>4

LEMMA NoPlanIsNone == NoPlan \notin PlanFields
<1>1. SUFFICES ASSUME NoPlan \in PlanFields PROVE FALSE
  OBVIOUS
<1>2. "prompt" \in DOMAIN NoPlan
  BY <1>1 DEF PlanFields
<1>3. DOMAIN NoPlan = {"layers"}
  BY DEF NoPlan
<1>4. QED
  BY <1>2, <1>3

LEMMA InitLoops == Init => LoopInv
<1> SUFFICES ASSUME Init PROVE LoopInv
  OBVIOUS
<1> USE DEF Init, Working, Accepting, Answered, Projecting
<1>1. LoopTypeOK
  <2>1. CASE plan \in Plans /\ pc = "start"
    <3>1. plan \in PlanFields /\ Accepted(plan.topology)
      BY <2>1, ValidationAssumption
    <3>2. plan # NoPlan
      BY <3>1, NoPlanIsNone
    <3>3. QED
      BY <2>1, <3>1, <3>2 DEF LoopTypeOK, NoDrift
  <2>2. CASE plan = NoPlan /\ pc = "baseline"
    BY <2>2 DEF LoopTypeOK, NoDrift
  <2>3. QED
    BY <2>1, <2>2
<1>2. SampleInv
  BY DEF SampleInv
<1>3. RequestInv
  BY ValidationAssumption DEF RequestInv
<1>4. CountInv
  <2>1. /\ plan # NoPlan => pc = "start"
        /\ pc \notin {"passed", "failed"} \cup Answered
        /\ Len(steps) = 0 /\ Len(measured) = 0
    OBVIOUS
  <2>2. pc = "start" => Before(1, 1, 1) = 0
    <3>1. ASSUME pc = "start", plan # NoPlan PROVE Before(1, 1, 1) = 0
      <4>1. plan \in PlanFields
        BY <1>1, <3>1 DEF LoopTypeOK
      <4>2. Len(plan.layers) \in Nat /\ Len(plan.query_heads) \in Nat
        BY <4>1 DEF PlanFields
      <4>3. \A m, k \in Nat : ((1 - 1) * m + (1 - 1)) * k + (1 - 1) = 0
        BY SMT
      <4>4. QED
        BY <4>2, <4>3 DEF Before
    <3>2. pc = "start" => plan # NoPlan
      BY <1>1 DEF LoopTypeOK
    <3>3. QED
      BY <3>1, <3>2
  <2>3. sample.decode_step = 1 /\ sample.layer = 1 /\ sample.query_head = 1
    OBVIOUS
  <2>4. Reported = 0
    BY <2>1, <2>2, <2>3 DEF Reported
  <2>5. QED
    BY <2>1, <2>4 DEF CountInv
<1>5. ReportInv /\ CurrentInv
  BY DEF ReportInv, CurrentInv
<1>6. QED
  BY <1>1, <1>2, <1>3, <1>4, <1>5 DEF LoopInv

(* The stages that only move on.                                           *)
LEMMA StageLoops ==
  ASSUME LoopInv, PlanRefused \/ Start \/ Baseline \/ OutputsAgree \/ ProjectFull
  PROVE  LoopInv'
<1> USE DEF LoopInv, Working, Accepting, Answered, Projecting
<1>1. UNCHANGED <<plan, head_dim, sample, request, drift, hot_bytes, steps, measured>>
  BY DEF PlanRefused, Start, Baseline, OutputsAgree, ProjectFull
<1>2. \/ pc = "start" /\ pc' = "failed"
      \/ pc = "start" /\ PlanValid /\ pc' = "query"
      \/ pc = "baseline" /\ RequestValid /\ pc' = "attend"
      \/ pc = "compare" /\ drift.output <= request.output_tolerance /\ pc' = "project_full"
      \/ pc = "project_full" /\ pc' = "project_atlas"
  BY DEF PlanRefused, Start, Baseline, OutputsAgree, ProjectFull
<1>3. LoopTypeOK'
  BY <1>1, <1>2 DEF LoopTypeOK
<1>4. SampleInv'
  <2>1. ASSUME plan # NoPlan, pc = "start", PlanValid
        PROVE  /\ sample.decode_step \in 1 .. Len(plan.decode_steps)
               /\ sample.layer \in 1 .. Len(plan.layers)
               /\ sample.query_head \in 1 .. Len(plan.query_heads)
    <3>1. plan \in PlanFields
      BY <2>1 DEF LoopTypeOK
    <3>2. /\ plan.decode_steps \in Seq(Nat) /\ plan.decode_steps # << >>
          /\ plan.layers \in Seq(Nat) /\ plan.layers # << >>
          /\ plan.query_heads \in Seq(Nat) /\ plan.query_heads # << >>
      BY <2>1, <3>1 DEF PlanFields, PlanValid
    <3>3. \A q \in Seq(Nat) : q # << >> => 1 \in 1 .. Len(q)
      OBVIOUS
    <3>4. QED
      BY <2>1, <3>2, <3>3 DEF SampleInv
  <2>2. PlanValid' <=> PlanValid
    BY <1>1 DEF PlanValid, LargestLayer
  <2>3. QED
    BY <1>1, <1>2, <2>1, <2>2 DEF SampleInv, LoopTypeOK
<1>5. RequestInv'
  BY <1>1, <1>2
     DEF RequestInv, LoopTypeOK, RequestValid, Layer, QueryHead, ContextTokens, DecodeStep
<1>6. CountInv'
  BY <1>1, <1>2 DEF CountInv, Reported, Before
<1>7. ReportInv'
  BY <1>1, <1>2 DEF ReportInv, AsMeasured, OfItsSample
<1>8. CurrentInv'
  BY <1>1, <1>2 DEF CurrentInv
<1>9. QED
  BY <1>3, <1>4, <1>5, <1>6, <1>7, <1>8

LEMMA QueryLoops == LoopInv /\ MakeQuery => LoopInv'
<1> SUFFICES ASSUME LoopInv, MakeQuery PROVE LoopInv'
  OBVIOUS
<1> USE DEF LoopInv, Working, Accepting, Answered, Projecting
<1>1. /\ pc = "query" /\ pc' = "baseline"
      /\ UNCHANGED <<plan, head_dim, sample, drift, hot_bytes, steps, measured>>
  BY DEF MakeQuery
<1>2. plan # NoPlan /\ plan \in PlanFields /\ Accepted(plan.topology) /\ PlanValid
  BY <1>1 DEF LoopTypeOK, SampleInv
<1>3. LoopTypeOK'
  BY <1>1, <1>2 DEF LoopTypeOK
<1>4. SampleInv'
  BY <1>1 DEF SampleInv, PlanValid, LargestLayer
<1>5. RequestInv'
  <2>1. /\ request'.layer = Layer /\ request'.query_head = QueryHead
        /\ request'.context_tokens = ContextTokens
        /\ request'.output_tolerance = plan.output_tolerance
        /\ request'.logit_tolerance = plan.logit_tolerance
        /\ request'.topology = plan.topology
    BY DEF MakeQuery
  <2>2. Layer \in Nat /\ QueryHead \in Nat /\ ContextTokens \in Nat
    <3>1. /\ plan.layers \in Seq(Nat) /\ plan.query_heads \in Seq(Nat)
          /\ plan.decode_steps \in Seq(Nat)
      BY <1>2 DEF PlanFields
    <3>2. /\ sample.decode_step \in 1 .. Len(plan.decode_steps)
          /\ sample.layer \in 1 .. Len(plan.layers)
          /\ sample.query_head \in 1 .. Len(plan.query_heads)
      BY <1>1, <1>2 DEF SampleInv
    <3>3. \A q \in Seq(Nat) : \A i \in 1 .. Len(q) : q[i] \in Nat
      OBVIOUS
    <3>4. Layer \in Nat /\ QueryHead \in Nat /\ DecodeStep \in Nat
      BY <3>1, <3>2, <3>3 DEF Layer, QueryHead, DecodeStep
    <3>5. QED
      BY <3>4 DEF ContextTokens
  <2>3. LayerCount \in Nat
    BY <1>2, LargestIsALayer DEF LayerCount, PlanValid
  <2>4. head_dim \in Nat
    BY ValidationAssumption DEF LoopTypeOK
  <2>5. request' \in StepFields
    BY <1>2, <2>2, <2>3, <2>4 DEF MakeQuery, StepFields, PlanFields
  <2>6. QED
    BY <1>1, <1>2, <2>1, <2>5
       DEF RequestInv, Layer, QueryHead, ContextTokens, DecodeStep
<1>6. CountInv'
  BY <1>1 DEF CountInv, Reported, Before
<1>7. ReportInv'
  BY <1>1 DEF ReportInv, AsMeasured, OfItsSample
<1>8. CurrentInv'
  BY <1>1 DEF CurrentInv
<1>9. QED
  BY <1>3, <1>4, <1>5, <1>6, <1>7, <1>8

LEMMA AttendLoops ==
  ASSUME LoopInv, NEW hot \in HotBytes, NEW d \in Drifts, Attend(hot, d)
  PROVE  LoopInv'
<1> USE DEF LoopInv, Working, Accepting, Answered, Projecting
<1> DEFINE seen == [output |-> d, logits |-> 0, hot |-> hot]
<1>1. /\ pc = "attend" /\ pc' = "compare" /\ measured' = Append(measured, seen)
      /\ drift' = [drift EXCEPT !.output = d] /\ hot_bytes' = hot
      /\ UNCHANGED <<plan, head_dim, request, sample, steps>>
  BY DEF Attend
<1>2. d \in Nat /\ hot \in Nat /\ seen \in Measures
  BY ValidationAssumption DEF Measures
<1> HIDE DEF seen
<1>3. /\ measured \in Seq(Measures) /\ Len(measured) \in Nat
      /\ measured' \in Seq(Measures) /\ Len(measured') = Len(measured) + 1
      /\ measured'[Len(measured')] = seen
      /\ \A i \in 1 .. Len(measured) : measured'[i] = measured[i]
  BY <1>1, <1>2 DEF LoopTypeOK
<1>4. LoopTypeOK'
  BY <1>1, <1>2, <1>3 DEF LoopTypeOK
<1>5. SampleInv'
  BY <1>1 DEF SampleInv, PlanValid, LargestLayer
<1>6. RequestInv'
  BY <1>1 DEF RequestInv, Layer, QueryHead, ContextTokens, DecodeStep
<1>7. Len(steps) = Len(measured)
  BY <1>1 DEF CountInv
<1>8. CountInv'
  BY <1>1, <1>3, <1>7 DEF CountInv, Reported, Before
<1>9. ReportInv'
  BY <1>1, <1>3, <1>7 DEF ReportInv, AsMeasured, OfItsSample
<1>10. CurrentInv'
  BY <1>1, <1>2, <1>3 DEF CurrentInv, LoopTypeOK, seen
<1>11. QED
  BY <1>4, <1>5, <1>6, <1>8, <1>9, <1>10

LEMMA ProjectLoops ==
  ASSUME LoopInv, NEW d \in Drifts, Project(d)
  PROVE  LoopInv'
<1> USE DEF LoopInv, Working, Accepting, Answered, Projecting
<1> DEFINE n == Len(measured)
<1>1. /\ pc = "project_atlas" /\ pc' = "compare_logits"
      /\ measured' = [measured EXCEPT ![n].logits = d]
      /\ drift' = [drift EXCEPT !.logits = d]
      /\ UNCHANGED <<plan, head_dim, request, sample, hot_bytes, steps>>
  BY DEF Project
<1>2. d \in Nat
  BY ValidationAssumption
<1>3. n = Len(steps) + 1 /\ n \in Nat /\ measured \in Seq(Measures) /\ steps \in Seq(Reports)
  BY <1>1 DEF CountInv, LoopTypeOK
<1>4. n \in 1 .. n /\ measured[n] \in Measures
  BY <1>3
<1>5. [measured[n] EXCEPT !.logits = d] \in Measures
  BY <1>2, <1>4 DEF Measures
<1> HIDE DEF n
<1>6. measured' = [measured EXCEPT ![n] = [measured[n] EXCEPT !.logits = d]]
  BY <1>1
<1>7. /\ measured' \in Seq(Measures) /\ Len(measured') = n
      /\ measured'[n] = [measured[n] EXCEPT !.logits = d]
      /\ \A i \in 1 .. n : i # n => measured'[i] = measured[i]
  BY <1>3, <1>4, <1>5, <1>6 DEF n
<1>8. measured'[n].output = measured[n].output /\ measured'[n].hot = measured[n].hot
      /\ measured'[n].logits = d
  BY <1>4, <1>7 DEF Measures
<1>9. LoopTypeOK'
  BY <1>1, <1>2, <1>7 DEF LoopTypeOK
<1>10. SampleInv'
  BY <1>1 DEF SampleInv, PlanValid, LargestLayer
<1>11. RequestInv'
  BY <1>1 DEF RequestInv, Layer, QueryHead, ContextTokens, DecodeStep
<1>12. CountInv'
  BY <1>1, <1>3, <1>7 DEF CountInv, Reported, Before, n
<1>13. ReportInv'
  <2>1. ASSUME NEW i \in 1 .. Len(steps)
        PROVE  AsMeasured(i)' /\ (plan # NoPlan => OfItsSample(i)')
    <3>1. i \in 1 .. n /\ i # n
      BY <1>3
    <3>2. AsMeasured(i) /\ (plan # NoPlan => OfItsSample(i))
      BY <1>1 DEF ReportInv
    <3>3. AsMeasured(i)'
      BY <1>1, <1>7, <3>1, <3>2 DEF AsMeasured
    <3>4. OfItsSample(i)' <=> OfItsSample(i)
      BY <1>1 DEF OfItsSample
    <3>5. QED
      BY <3>2, <3>3, <3>4
  <2>2. QED
    BY <1>1, <2>1 DEF ReportInv
<1>14. CurrentInv'
  BY <1>1, <1>2, <1>7, <1>8 DEF CurrentInv, LoopTypeOK, n
<1>15. QED
  BY <1>9, <1>10, <1>11, <1>12, <1>13, <1>14

(* Where the loop goes on to is the next sample, and where it stops is     *)
(* past the last.                                                          *)
LEMMA SampleAdvances ==
  ASSUME LoopInv, plan # NoPlan, pc = "compare_logits"
  PROVE  LET now == Before(sample.decode_step, sample.layer, sample.query_head)
             next == NextSample
         IN  /\ now \in Nat
             /\ LastSample => Len(plan.decode_steps) * Len(plan.layers) * Len(plan.query_heads)
                                = now + 1
             /\ ~LastSample =>
                  /\ next.decode_step \in 1 .. Len(plan.decode_steps)
                  /\ next.layer \in 1 .. Len(plan.layers)
                  /\ next.query_head \in 1 .. Len(plan.query_heads)
                  /\ Before(next.decode_step, next.layer, next.query_head) = now + 1
                  /\ DOMAIN next = {"decode_step", "layer", "query_head"}
<1> DEFINE D == Len(plan.decode_steps)
           L == Len(plan.layers)
           H == Len(plan.query_heads)
           d == sample.decode_step
           l == sample.layer
           h == sample.query_head
           now == Before(d, l, h)
<1>1. /\ D \in Nat /\ L \in Nat /\ H \in Nat
      /\ d \in 1 .. D /\ l \in 1 .. L /\ h \in 1 .. H
      /\ DOMAIN sample = {"decode_step", "layer", "query_head"}
  <2>1. plan \in PlanFields
    BY DEF LoopInv, LoopTypeOK
  <2>2. D \in Nat /\ L \in Nat /\ H \in Nat
    BY <2>1 DEF PlanFields
  <2>3. d \in 1 .. D /\ l \in 1 .. L /\ h \in 1 .. H
    BY DEF LoopInv, SampleInv
  <2>4. DOMAIN sample = {"decode_step", "layer", "query_head"}
    BY DEF LoopInv, SampleInv
  <2>5. QED
    BY <2>2, <2>3, <2>4
<1> HIDE DEF D, L, H, d, l, h
<1>2. D \in Nat \ {0} /\ L \in Nat \ {0} /\ H \in Nat \ {0}
  BY <1>1
<1>3. /\ ((d - 1) * L + (l - 1)) * H + (h - 1) \in Nat
      /\ ((d - 1) * L + (l - 1)) * H + ((h + 1) - 1)
              = ((d - 1) * L + (l - 1)) * H + (h - 1) + 1
      /\ h = H => ((d - 1) * L + ((l + 1) - 1)) * H + (1 - 1)
                       = ((d - 1) * L + (l - 1)) * H + (h - 1) + 1
      /\ h = H /\ l = L => (((d + 1) - 1) * L + (1 - 1)) * H + (1 - 1)
                                = ((d - 1) * L + (l - 1)) * H + (h - 1) + 1
      /\ h = H /\ l = L /\ d = D => D * L * H = ((d - 1) * L + (l - 1)) * H + (h - 1) + 1
  BY <1>1, <1>2, PlaceOfNext
<1>4. /\ now \in Nat /\ Before(d, l, h + 1) = now + 1
      /\ h = H => Before(d, l + 1, 1) = now + 1
      /\ h = H /\ l = L => Before(d + 1, 1, 1) = now + 1
      /\ h = H /\ l = L /\ d = D => D * L * H = now + 1
  BY <1>3 DEF Before, L, H
<1> HIDE DEF now
<1>5. CASE h < H
  <2>1. NextSample = [sample EXCEPT !.query_head = h + 1]
    BY <1>5 DEF NextSample, h, H
  <2>2. NextSample.decode_step = d /\ NextSample.layer = l /\ NextSample.query_head = h + 1
    BY <1>1, <2>1 DEF d, l
  <2>3. DOMAIN NextSample = DOMAIN sample
    BY <2>1
  <2>4. h + 1 \in 1 .. H /\ h # H
    BY <1>1, <1>5
  <2>5. QED
    BY <1>1, <1>4, <2>2, <2>3, <2>4 DEF LastSample, now, D, L, H, d, l, h
<1>6. CASE ~(h < H) /\ l < L
  <2>1. NextSample = [sample EXCEPT !.layer = l + 1, !.query_head = 1]
    BY <1>6 DEF NextSample, h, l, H, L
  <2>2. NextSample.decode_step = d /\ NextSample.layer = l + 1 /\ NextSample.query_head = 1
    BY <1>1, <2>1 DEF d
  <2>3. DOMAIN NextSample = DOMAIN sample
    BY <2>1
  <2>4. l + 1 \in 1 .. L /\ 1 \in 1 .. H /\ l # L /\ h = H
    BY <1>1, <1>6
  <2>5. QED
    BY <1>1, <1>4, <2>2, <2>3, <2>4 DEF LastSample, now, D, L, H, d, l, h
<1>7. CASE ~(h < H) /\ ~(l < L)
  <2>1. NextSample = [decode_step |-> d + 1, layer |-> 1, query_head |-> 1]
    BY <1>7 DEF NextSample, h, l, d, H, L
  <2>2. NextSample.decode_step = d + 1 /\ NextSample.layer = 1 /\ NextSample.query_head = 1
    BY <2>1
  <2>3. DOMAIN NextSample = {"decode_step", "layer", "query_head"}
    BY <2>1
  <2>4. 1 \in 1 .. L /\ 1 \in 1 .. H /\ l = L /\ h = H
    BY <1>1, <1>7
  <2>5. LastSample <=> d = D
    BY <2>4 DEF LastSample, D, L, H, d, l, h
  <2>6. d # D => d + 1 \in 1 .. D
    BY <1>1
  <2>7. QED
    BY <1>1, <1>4, <2>2, <2>3, <2>4, <2>5, <2>6 DEF now, D, L, H, d, l, h
<1>8. QED
  BY <1>5, <1>6, <1>7

(* The report of a step is one, and says what was measured.                *)
LEMMA StepIsReported ==
  ASSUME LoopInv, Report
  PROVE  /\ steps \in Seq(Reports) /\ StepReport \in Reports
         /\ StepReport.drift = drift
         /\ drift.output <= request.output_tolerance
         /\ StepReport.drift.output = measured[Len(measured)].output
         /\ StepReport.drift.logits = measured[Len(measured)].logits
         /\ StepReport.resident = ScratchBytes + measured[Len(measured)].hot
<1> USE DEF LoopInv, Working, Accepting, Answered, Projecting
<1>1. pc = "compare_logits"
  BY DEF Report
<1>2. /\ request \in StepFields /\ Accepted(request.topology)
      /\ HeadInRange(request.topology, request.query_head)
  BY <1>1 DEF RequestInv
<1>3. KvHead(request.topology, request.query_head) \in Nat
  <2>1. request.topology \in TopologyFields /\ request.query_head \in Nat
    BY <1>2 DEF StepFields
  <2>2. request.query_head \in 0 .. request.topology.query_heads - 1
    BY <1>2, <2>1 DEF HeadInRange, TopologyFields
  <2>3. /\ GroupSize(request.topology) \in Nat \ {0}
        /\ KvHead(request.topology, request.query_head)
             = request.query_head \div GroupSize(request.topology)
    BY <1>2, <2>1, <2>2, GroupsTile
  <2>4. QED
    BY <2>1, <2>3, Division
<1>4. BaselineRows \in Nat
  <2>1. request.context_tokens \in Nat /\ request.layers \in Nat /\ request.topology.kv_heads \in Nat
    BY <1>2 DEF StepFields, TopologyFields
  <2>2. \A a, b, c \in Nat : a * b * c \in Nat
    BY SMT
  <2>3. QED
    BY <2>1, <2>2 DEF BaselineRows
<1>5. ResidentRows \in Nat \ {0} /\ ResidentRows = ScratchBytes + hot_bytes
  BY ValidationAssumption DEF ResidentRows, LoopTypeOK
<1>6. StepReport \in Reports
  BY <1>2, <1>3, <1>4, <1>5 DEF StepReport, Reports, StepFields, LoopTypeOK
<1>7. /\ StepReport.drift = drift /\ StepReport.resident = ScratchBytes + hot_bytes
      /\ drift.output <= request.output_tolerance
  BY <1>1, <1>5 DEF StepReport, CurrentInv
<1>8. QED
  BY <1>1, <1>6, <1>7 DEF CurrentInv, LoopTypeOK

(* It is of the sample that the loop is at.                                *)
LEMMA ReportIsOfItsSample ==
  ASSUME LoopInv, Report, plan # NoPlan, NEW i \in Nat, i = Len(steps) + 1
  PROVE  OfItsSample(i)'
<1> DEFINE L == Len(plan.layers)
           H == Len(plan.query_heads)
           d == sample.decode_step
           l == sample.layer
           h == sample.query_head
           n == Len(steps)
<1>1. pc = "compare_logits" /\ UNCHANGED plan /\ steps' = Append(steps, StepReport)
  BY DEF Report
<1>2. /\ L \in Nat /\ H \in Nat /\ d - 1 \in Nat /\ d \in Nat
      /\ l \in 1 .. L /\ h \in 1 .. H /\ l - 1 \in 0 .. L - 1 /\ h - 1 \in 0 .. H - 1
      /\ L # 0 /\ H # 0
  <2>1. plan \in PlanFields
    BY DEF LoopInv, LoopTypeOK
  <2>2. L \in Nat /\ H \in Nat /\ Len(plan.decode_steps) \in Nat
    BY <2>1 DEF PlanFields
  <2>3. d \in 1 .. Len(plan.decode_steps) /\ l \in 1 .. L /\ h \in 1 .. H
    BY <1>1 DEF LoopInv, SampleInv
  <2> HIDE DEF L, H, d, l, h
  <2>4. QED
    BY <2>2, <2>3
<1>3. i = n + 1 /\ n \in Nat /\ n = ((d - 1) * L + (l - 1)) * H + (h - 1)
  BY <1>1 DEF LoopInv, LoopTypeOK, CountInv, Reported, Before
<1>4. n % H = h - 1 /\ (n \div H) % L = l - 1 /\ n \div (H * L) = d - 1
  <2> DEFINE a == d - 1
             b == l - 1
             c == h - 1
  <2> HIDE DEF L, H, d, l, h, n
  <2>1. L \in Nat \ {0} /\ H \in Nat \ {0}
    BY <1>2
  <2>2. a \in Nat /\ b \in 0 .. L - 1 /\ c \in 0 .. H - 1 /\ n \in Nat /\ n = (a * L + b) * H + c
    BY <1>2, <1>3
  <2> HIDE DEF a, b, c
  <2>3. IsPlace(n, L, H, a, b, c)
    BY <2>1, <2>2, PlaceOfSample, Zenon
  <2>4. QED
    BY <2>3 DEF IsPlace, a, b, c
<1>5. /\ steps \in Seq(Reports) /\ StepReport \in Reports
      /\ StepReport.drift = drift /\ drift.output <= request.output_tolerance
  BY StepIsReported
<1>6. steps'[i] = StepReport
  BY <1>1, <1>3, <1>5
<1>7. /\ StepReport.query_head = plan.query_heads[h] /\ StepReport.layer = plan.layers[l]
      /\ StepReport.context_tokens = plan.decode_steps[d] + 1
      /\ StepReport.drift.output <= plan.output_tolerance
      /\ StepReport.drift.logits <= plan.logit_tolerance
  <2>1. /\ request.layer = plan.layers[l] /\ request.query_head = plan.query_heads[h]
        /\ request.context_tokens = plan.decode_steps[d] + 1
        /\ request.output_tolerance = plan.output_tolerance
        /\ request.logit_tolerance = plan.logit_tolerance
    BY <1>1 DEF LoopInv, RequestInv, Working, Answered, Projecting,
                Layer, QueryHead, ContextTokens, DecodeStep
  <2>2. drift.logits <= request.logit_tolerance
    BY DEF Report
  <2>3. /\ StepReport.query_head = request.query_head /\ StepReport.layer = request.layer
        /\ StepReport.context_tokens = request.context_tokens
    BY DEF StepReport
  <2>4. QED
    BY <1>5, <2>1, <2>2, <2>3
<1>8. i - 1 = n /\ (h - 1) + 1 = h /\ (l - 1) + 1 = l /\ (d - 1) + 1 = d
  <2> HIDE DEF L, H, d, l, h, n
  <2>1. QED
    BY <1>2, <1>3
<1>9. /\ ((i - 1) % H) + 1 = h /\ (((i - 1) \div H) % L) + 1 = l
      /\ ((i - 1) \div (H * L)) + 1 = d
  <2> HIDE DEF L, H, d, l, h, n
  <2>1. QED
    BY <1>4, <1>8
<1> HIDE DEF d, l, h
<1>10. QED
  BY <1>1, <1>6, <1>7, <1>9 DEF OfItsSample

LEMMA ReportLoops == LoopInv /\ Report => LoopInv'
<1> SUFFICES ASSUME LoopInv, Report PROVE LoopInv'
  OBVIOUS
<1> USE DEF Working, Accepting, Answered, Projecting
<1> DEFINE n == Len(steps)
<1>1. /\ pc = "compare_logits" /\ steps' = Append(steps, StepReport)
      /\ UNCHANGED <<plan, head_dim, drift, hot_bytes, measured>>
      /\ \/ (plan = NoPlan \/ LastSample) /\ pc' = "passed" /\ UNCHANGED sample
         \/ plan # NoPlan /\ ~LastSample /\ pc' = "query" /\ sample' = NextSample
  BY DEF Report
<1>2. /\ steps \in Seq(Reports) /\ StepReport \in Reports
      /\ StepReport.drift.output = measured[Len(measured)].output
      /\ StepReport.drift.logits = measured[Len(measured)].logits
      /\ StepReport.resident = ScratchBytes + measured[Len(measured)].hot
  BY StepIsReported
<1>3. /\ n \in Nat /\ steps' \in Seq(Reports) /\ Len(steps') = n + 1
      /\ steps'[n + 1] = StepReport
      /\ \A i \in 1 .. n : steps'[i] = steps[i]
  BY <1>1, <1>2
<1>4. Len(measured) = n + 1
  BY <1>1 DEF LoopInv, CountInv
<1>5. LoopTypeOK'
  BY <1>1, <1>3 DEF LoopInv, LoopTypeOK
<1>6. ASSUME plan # NoPlan
      PROVE  SampleInv' /\ Reported' = n + 1
  <2> DEFINE now == Before(sample.decode_step, sample.layer, sample.query_head)
             next == NextSample
  <2>1. /\ LastSample => Len(plan.decode_steps) * Len(plan.layers) * Len(plan.query_heads)
                           = now + 1
        /\ ~LastSample =>
             /\ next.decode_step \in 1 .. Len(plan.decode_steps)
             /\ next.layer \in 1 .. Len(plan.layers)
             /\ next.query_head \in 1 .. Len(plan.query_heads)
             /\ Before(next.decode_step, next.layer, next.query_head) = now + 1
             /\ DOMAIN next = {"decode_step", "layer", "query_head"}
    BY <1>1, <1>6, SampleAdvances
  <2>2. now = n
    BY <1>1, <1>6 DEF LoopInv, CountInv, Reported
  <2>3. PlanValid' /\ SampleInv
    BY <1>1, <1>6 DEF LoopInv, SampleInv, PlanValid, LargestLayer
  <2>4. SampleInv'
    BY <1>1, <1>6, <2>1, <2>3 DEF SampleInv
  <2>5. CASE LastSample
    BY <1>1, <1>6, <2>1, <2>2, <2>4, <2>5 DEF Reported
  <2>6. CASE ~LastSample
    <3>1. Reported' = Before(next.decode_step, next.layer, next.query_head)
      BY <1>1, <1>6, <2>6 DEF Reported, Before
    <3>2. QED
      BY <2>1, <2>2, <2>4, <2>6, <3>1
  <2>7. QED
    BY <2>4, <2>5, <2>6
<1>7. ASSUME plan = NoPlan
      PROVE  SampleInv' /\ Reported' = n + 1
  <2>1. pc' = "passed" /\ n = 0 /\ UNCHANGED <<plan, sample>>
    BY <1>1, <1>7 DEF LoopInv, CountInv, Reported, LoopTypeOK
  <2>2. SampleInv'
    BY <1>7, <2>1 DEF LoopInv, SampleInv
  <2>3. Reported' = 1
    BY <1>7, <2>1 DEF Reported
  <2>4. QED
    BY <2>1, <2>2, <2>3
<1>8. SampleInv' /\ Reported' = n + 1
  BY <1>6, <1>7
<1>9. RequestInv' /\ CurrentInv'
  BY <1>1 DEF RequestInv, CurrentInv
<1>10. CountInv'
  BY <1>1, <1>3, <1>4, <1>8 DEF CountInv
<1>11. ASSUME NEW i \in 1 .. n + 1
       PROVE  AsMeasured(i)' /\ (plan # NoPlan => OfItsSample(i)')
  <2>1. CASE i = n + 1
    <3>1. AsMeasured(i)'
      BY <1>1, <1>2, <1>3, <1>4, <2>1 DEF AsMeasured
    <3>2. plan # NoPlan => OfItsSample(i)'
      BY <1>3, <2>1, ReportIsOfItsSample
    <3>3. QED
      BY <3>1, <3>2
  <2>2. CASE i # n + 1
    <3>1. i \in 1 .. n
      BY <1>3, <2>2
    <3>2. AsMeasured(i) /\ (plan # NoPlan => OfItsSample(i))
      BY <1>1, <3>1 DEF LoopInv, ReportInv
    <3>3. steps'[i] = steps[i]
      BY <1>3, <3>1
    <3>4. QED
      BY <1>1, <3>2, <3>3 DEF AsMeasured, OfItsSample
  <2>3. QED
    BY <2>1, <2>2
<1>12. ReportInv'
  BY <1>1, <1>3, <1>11 DEF ReportInv
<1>13. QED
  BY <1>5, <1>8, <1>9, <1>10, <1>12 DEF LoopInv

LEMMA NextLoops == LoopInv /\ [Next]_vars => LoopInv'
<1> SUFFICES ASSUME LoopInv, [Next]_vars PROVE LoopInv'
  OBVIOUS
<1>0. hot_bytes \in Nat /\ HotBytes \subseteq Nat
  BY ValidationAssumption DEF LoopInv, LoopTypeOK
<1>1. CASE PlanRefused \/ Start \/ Baseline \/ OutputsAgree \/ ProjectFull
  BY <1>1, StageLoops
<1>2. CASE MakeQuery
  BY <1>2, QueryLoops
<1>3. CASE QueryRefused \/ QueryFails
  BY <1>0, <1>3, FailLoops DEF QueryRefused, QueryFails
<1>4. CASE RequestRefused \/ BaselineFails
  BY <1>0, <1>4, FailLoops DEF RequestRefused, BaselineFails, StepFails
<1>5. ASSUME NEW hot \in HotBytes, AttendFails(hot)
      PROVE  LoopInv'
  BY <1>0, <1>5, FailLoops DEF AttendFails, StepFails
<1>6. ASSUME NEW hot \in HotBytes, NEW d \in Drifts, Attend(hot, d)
      PROVE  LoopInv'
  BY <1>6, AttendLoops
<1>7. CASE OutputDrifts \/ CompareFails
  BY <1>0, <1>7, FailLoops DEF OutputDrifts, CompareFails, StepFails
<1>8. CASE ProjectFails
  BY <1>0, <1>8, FailLoops DEF ProjectFails, StepFails
<1>9. ASSUME NEW d \in Drifts, Project(d)
      PROVE  LoopInv'
  BY <1>9, ProjectLoops
<1>10. CASE LogitsDrift \/ CompareLogitsFails \/ TelemetryFails
  BY <1>0, <1>10, FailLoops DEF LogitsDrift, CompareLogitsFails, TelemetryFails, StepFails
<1>11. CASE Report
  BY <1>11, ReportLoops
<1>12. CASE UNCHANGED vars
  <2> USE <1>12 DEF vars, LoopInv, Working, Accepting, Answered, Projecting
  <2>1. LoopTypeOK'
    BY DEF LoopTypeOK
  <2>2. SampleInv'
    BY DEF SampleInv, PlanValid, LargestLayer
  <2>3. RequestInv'
    BY DEF RequestInv, Layer, QueryHead, ContextTokens, DecodeStep
  <2>4. CountInv'
    BY DEF CountInv, Reported, Before
  <2>5. ReportInv' /\ CurrentInv'
    BY DEF ReportInv, AsMeasured, OfItsSample, CurrentInv
  <2>6. QED
    BY <2>1, <2>2, <2>3, <2>4, <2>5
<1>13. QED
  BY <1>1, <1>2, <1>3, <1>4, <1>5, <1>6, <1>7, <1>8, <1>9, <1>10, <1>11, <1>12 DEF Next

(* Both worst distances of a report bound its own, and no more than what   *)
(* bounds them all.                                                        *)
LEMMA WorstOfReport ==
  ASSUME steps \in Seq(Reports)
  PROVE  /\ \A i \in 1 .. Len(steps) :
              /\ steps[i].drift.output <= WorstOutputDiff(steps)
              /\ steps[i].drift.logits <= WorstLogitDiff(steps)
         /\ \A t \in Nat :
              (\A i \in 1 .. Len(steps) : steps[i].drift.output <= t) => WorstOutputDiff(steps) <= t
         /\ \A t \in Nat :
              (\A i \in 1 .. Len(steps) : steps[i].drift.logits <= t) => WorstLogitDiff(steps) <= t
<1> DEFINE n == Len(steps)
           outputs == [i \in DOMAIN steps |-> steps[i].drift.output]
           logits == [i \in DOMAIN steps |-> steps[i].drift.logits]
<1>1. n \in Nat /\ DOMAIN steps = 1 .. n /\ \A i \in 1 .. n : steps[i] \in Reports
  OBVIOUS
<1>2. outputs \in [1 .. n -> Nat] /\ logits \in [1 .. n -> Nat]
  BY <1>1 DEF Reports
<1>3. \A i \in 1 .. n : outputs[i] = steps[i].drift.output /\ logits[i] = steps[i].drift.logits
  BY <1>1
<1>4. WorstOutputDiff(steps) = Worst(outputs) /\ WorstLogitDiff(steps) = Worst(logits)
  BY DEF WorstOutputDiff, WorstLogitDiff
<1> HIDE DEF n, outputs, logits
<1>5. /\ \A i \in 1 .. n : outputs[i] <= Worst(outputs)
      /\ \A t \in Nat : (\A i \in 1 .. n : outputs[i] <= t) => Worst(outputs) <= t
  BY <1>1, <1>2, WorstIsLeastBound
<1>6. /\ \A i \in 1 .. n : logits[i] <= Worst(logits)
      /\ \A t \in Nat : (\A i \in 1 .. n : logits[i] <= t) => Worst(logits) <= t
  BY <1>1, <1>2, WorstIsLeastBound
<1>7. QED
  BY <1>3, <1>4, <1>5, <1>6 DEF n

(* A validation that passes, whatever its plan, has looked at every sample *)
(* of it, in order and once; its report says of each what was measured     *)
(* there, and its summary bounds them all.                                 *)
THEOREM PassedAreWhole == Spec => []PassedIsWhole
<1>1. ASSUME LoopInv, pc = "passed"
      PROVE  PassedIsWhole
  <2> DEFINE n == IF plan = NoPlan THEN 1
                  ELSE Len(plan.decode_steps) * Len(plan.layers) * Len(plan.query_heads)
             best == BestMemoryReduction(steps)
  <2>1. steps \in Seq(Reports) /\ Len(steps) = n /\ Len(measured) = n /\ n \in Nat
        /\ DOMAIN steps = 1 .. n
    <3>1. steps \in Seq(Reports)
      BY <1>1 DEF LoopInv, LoopTypeOK
    <3>2. Reported = n
      BY <1>1 DEF Reported
    <3> HIDE DEF n
    <3>3. Len(steps) \in Nat /\ DOMAIN steps = 1 .. Len(steps)
      BY <3>1
    <3>4. Len(steps) = n /\ Len(measured) = Len(steps) + 0
      BY <1>1, <3>2 DEF LoopInv, CountInv, Answered, Projecting
    <3>5. QED
      BY <3>1, <3>3, <3>4
  <2>2. \A i \in 1 .. n : AsMeasured(i) /\ (plan # NoPlan => OfItsSample(i))
    <3> HIDE DEF n
    <3>1. QED
      BY <1>1, <2>1 DEF LoopInv, ReportInv
  <2>3. plan # NoPlan => plan.output_tolerance \in Nat /\ plan.logit_tolerance \in Nat
    BY <1>1 DEF LoopInv, LoopTypeOK, SampleInv, PlanValid, PlanFields
  <2> HIDE DEF n
  <2>4. ASSUME plan # NoPlan
        PROVE  /\ WorstOutputDiff(steps) <= plan.output_tolerance
               /\ WorstLogitDiff(steps) <= plan.logit_tolerance
    BY <2>1, <2>2, <2>3, <2>4, WorstOfReport DEF OfItsSample
  <2>5. \A i \in 1 .. n : /\ measured[i].output <= WorstOutputDiff(steps)
                          /\ measured[i].logits <= WorstLogitDiff(steps)
    BY <2>1, <2>2, WorstOfReport DEF AsMeasured
  <2>6. \A i \in 1 .. n : steps[i].baseline * best.resident <= best.baseline * steps[i].resident
    <3>1. \A i \in 1 .. n : steps[i] \in Reports
      BY <2>1
    <3>2. \A i \in 1 .. n : steps[i].baseline \in Nat /\ steps[i].resident \in Nat \ {0}
      BY <3>1 DEF Reports
    <3>3. QED
      BY <2>1, <3>2, BestIsBound
  <2>7. \A i \in 1 .. n :
          steps[i].baseline * best.resident <= best.baseline * (ScratchBytes + measured[i].hot)
    BY <2>2, <2>6 DEF AsMeasured
  <2> HIDE DEF best
  <2>8. QED
    BY <1>1, <2>1, <2>2, <2>4, <2>5, <2>7 DEF PassedIsWhole, OfItsSample, n, best
<1>2. LoopInv => PassedIsWhole
  BY <1>1 DEF PassedIsWhole
<1>3. QED
  BY <1>2, InitLoops, NextLoops, PTL DEF Spec
=============================================================================
