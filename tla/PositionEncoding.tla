-------------------------- MODULE PositionEncoding --------------------------
(***************************************************************************)
(* RoPE and ALiBi of src/position.rs, with exact numbers.  The angles are  *)
(* multiples of one whose cosine and sine are fractions, those of the      *)
(* triangle Cosine, Sine and Radius, so that turning (x0, x1) by it is     *)
(* multiplying x0 + x1 i by (Cosine + Sine i) / Radius; and rows are in a  *)
(* unit small enough that no number of a rotation is broken.               *)
(***************************************************************************)
EXTENDS Integers, Sequences, SequencesExt

CONSTANTS
  MaxKey,        (* f32::MAX, in the units of the rows                       *)
  ExactMax,      (* the largest integer that f64 is sure to hold             *)
  MaxDims,       (* bound of the model on the dims of a RopeConfig           *)
  Rates,         (* 1 / base ^ (pair / dims): the turns of a pair in one     *)
                 (* position, by dims and pair                               *)
  Cosine, Sine, Radius

ASSUME PositionAssumption ==
  /\ MaxKey \in Nat /\ ExactMax \in Nat /\ MaxDims \in Nat
  /\ Rates \in [0 .. MaxDims -> [0 .. MaxDims -> Nat]]
  /\ Cosine \in Int /\ Sine \in Int /\ Radius \in Nat \ {0}
  /\ Cosine * Cosine + Sine * Sine = Radius * Radius

RopeAccepted(dims) == dims # 0 /\ dims % 2 = 0

(* The angle of a pair at a position.                                      *)
Turns(dims, position, pair) == position * Rates[dims][pair]

(* The numerators of what a pair is turned to by the angle, and of how     *)
(* many units that is.                                                     *)
Real(z) == Cosine * z[1] - Sine * z[2]
Imaginary(z) == Sine * z[1] + Cosine * z[2]

TurnedOnce(z) == <<Real(z) \div Radius, Imaginary(z) \div Radius>>

Turned(x, n) == FoldLeft(LAMBDA z, i : TurnedOnce(z), x, [i \in 1 .. n |-> i])

(* The divisions leave no rest, so that the numbers are the exact ones.    *)
IsExact(x, n) ==
  \A k \in 0 .. n - 1 :
    Real(Turned(x, k)) % Radius = 0 /\ Imaginary(Turned(x, k)) % Radius = 0

PairOf(row, pair) == <<row[pair + 1], row[pair + 2]>>

PairsOf(dims) == {pair \in 0 .. dims - 2 : pair % 2 = 0}

(* Rows that may be turned by any position up to the last.                 *)
IsKeyRow(row, last) ==
  /\ row \in Seq(Int)
  /\ \A dims \in 0 .. MaxDims : \A pair \in PairsOf(dims) :
       pair + 2 <= Len(row) => IsExact(PairOf(row, pair), Turns(dims, last, pair))

FitsF32(x) == x \in -MaxKey .. MaxKey

(* Mutant: the second element is computed from the first one's new value.  *)
RotatedFromNew(s, dims, position, pair) ==
  LET z0 == Turned(PairOf(s.row, pair), Turns(dims, position, pair))
      z1 == Turned(<<z0[1], s.row[pair + 2]>>, Turns(dims, position, pair))
  IN  IF ~s.ok \/ ~FitsF32(z0[1]) \/ ~FitsF32(z1[2]) THEN [s EXCEPT !.ok = FALSE]
      ELSE [s EXCEPT !.row[pair + 1] = z0[1], !.row[pair + 2] = z1[2]]

(* Mutant: the angle is computed before the loop, for the first pair.      *)
RotatedByFirstAngle(s, dims, position, pair) ==
  LET z == Turned(PairOf(s.row, pair), Turns(dims, position, 0))
  IN  IF ~s.ok \/ ~FitsF32(z[1]) \/ ~FitsF32(z[2]) THEN [s EXCEPT !.ok = FALSE]
      ELSE [s EXCEPT !.row[pair + 1] = z[1], !.row[pair + 2] = z[2]]

(* One turn of the loop over the pairs: an error leaves the row as far as  *)
(* it has come, one element of the pair perhaps included.                  *)
Rotated(s, dims, position, pair) ==
  LET z == Turned(PairOf(s.row, pair), Turns(dims, position, pair))
  IN  IF ~s.ok THEN s
      ELSE IF ~FitsF32(z[1]) THEN [ok |-> FALSE, row |-> s.row]
      ELSE IF ~FitsF32(z[2]) THEN [ok |-> FALSE, row |-> [s.row EXCEPT ![pair + 1] = z[1]]]
      ELSE [ok |-> TRUE, row |-> [s.row EXCEPT ![pair + 1] = z[1], ![pair + 2] = z[2]]]

RopeApplyKey(dims, position, row) ==
  IF dims > Len(row) \/ position > ExactMax THEN [ok |-> FALSE, row |-> row]
  ELSE FoldLeft(LAMBDA s, p : Rotated(s, dims, position, 2 * (p - 1)),
                [ok |-> TRUE, row |-> row], [p \in 1 .. dims \div 2 |-> p])

(* PositionEncoding::apply_key: only RoPE turns rows.                      *)
ApplyKey(encoding, position, row) ==
  IF encoding.kind = "rope" THEN RopeApplyKey(encoding.dims, position, row)
  ELSE [ok |-> TRUE, row |-> row]

-----------------------------------------------------------------------------
AlibiAccepted(slopes) == slopes # << >> /\ \A i \in DOMAIN slopes : slopes[i] >= 0

(* PositionEncoding::alibi_bias; heads are counted from 0.                 *)
AlibiBias(slopes, head, query_position, key_position) ==
  LET distance == query_position - key_position
  IN  IF distance < 0 \/ distance > ExactMax \/ head >= Len(slopes)
           \/ ~FitsF32(slopes[head + 1] * distance)
        THEN [ok |-> FALSE, bias |-> 0]
      ELSE [ok |-> TRUE, bias |-> -(slopes[head + 1] * distance)]

-----------------------------------------------------------------------------
Norm(row, pair) == row[pair + 1] * row[pair + 1] + row[pair + 2] * row[pair + 2]

(* What a rotation owes: every pair is turned by its own angle and keeps   *)
(* its norm, and all past the last one stays.                              *)
IsTurn(dims, position, old, new) ==
  /\ \A i \in DOMAIN old : i > dims => new[i] = old[i]
  /\ \A pair \in PairsOf(dims) :
       /\ PairOf(new, pair) = Turned(PairOf(old, pair), Turns(dims, position, pair))
       /\ Norm(new, pair) = Norm(old, pair)

=============================================================================
