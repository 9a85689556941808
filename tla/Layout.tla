------------------------------- MODULE Layout -------------------------------
(***************************************************************************)
(* The checked shape arithmetic of src/layout.rs, the loops over rows that *)
(* adapters build on it, and the dot products of src/kernel.rs.            *)
(***************************************************************************)
EXTENDS MachineInts, Integers, Sequences, SequencesExt

Failed == -1     (* Err, for the functions that return a number              *)

CheckedAdd(left, right) ==
  IF Failed \in {left, right} \/ left + right > UsizeMax THEN Failed ELSE left + right

CheckedMul(left, right) ==
  IF Failed \in {left, right} \/ left * right > UsizeMax THEN Failed ELSE left * right

CheckedRangeLen(first, end) == IF first >= end THEN Failed ELSE end - first

CheckedKvBytes(tokens, head_dim) == CheckedMul(CheckedMul(CheckedMul(tokens, head_dim), 4), 2)

(* The offsets of a row; none for an error.                                *)
Row(start, width) == [i \in 1 .. width |-> start + i - 1]

CheckedRowRange(row, width, total_len) ==
  LET start == CheckedMul(row, width)
      end   == CheckedAdd(start, width)
  IN  IF end = Failed \/ end > total_len THEN << >> ELSE Row(start, width)

-----------------------------------------------------------------------------
(* regenerate_page of the benchmarks' CorpusBackend: what it writes to a   *)
(* page of len elements, as triples of an offset and the token and the     *)
(* dimension it is computed from; none when it refuses the page.           *)
PageWrites(first, end, head_dim, len) ==
  LET tokens   == CheckedRangeLen(first, end)
      expected == CheckedMul(tokens, head_dim)
      row(t)   == CheckedRowRange(t, head_dim, expected)
      writes(t) == [d \in 1 .. Len(row(t)) |-> <<row(t)[d], first + t, d - 1>>]
  IN  IF expected = Failed \/ expected # len THEN << >>
      ELSE FlattenSeq([t \in 1 .. tokens |-> writes(t - 1)])

(* ExactPages::load: the elements of each of two matrices of 32-bit floats *)
(* read from files, which must be as many as the manifest says.            *)
Artifact(context, width, k_bytes, v_bytes) ==
  LET expected == CheckedMul(context, width)
  IN  IF \/ k_bytes % 4 # 0 \/ v_bytes % 4 # 0
         \/ {k_bytes \div 4, v_bytes \div 4} # {expected}
        THEN Failed ELSE expected

(* regenerate_page of ExactPages, which copies from the matrices of a      *)
(* context: the same triples, read off the offset that is copied.          *)
ExactWrites(context, width, first, end, head_dim, len) ==
  LET from == CheckedMul(first, head_dim)
      to   == CheckedMul(end, head_dim)
  IN  IF \/ head_dim # width \/ first >= end \/ end > context
         \/ Failed \in {from, to} \/ to - from # len
        THEN << >>
      ELSE [i \in 1 .. len |-> <<i - 1, (from + i - 1) \div width, (from + i - 1) % width>>]

-----------------------------------------------------------------------------
(* The terms of a dot product, as pairs of the indices multiplied, in the  *)
(* order in which they are added up.                                       *)
Lanes == 8

Pairs(indices) == [i \in DOMAIN indices |-> <<indices[i], indices[i]>>]

DotScalar(len) == Pairs([i \in 1 .. len |-> i])

(* Mutant: the remainder is left out.                                      *)
DotChunksOnly(len) ==
  LET chunks == len \div Lanes
      acc(l) == [c \in 1 .. chunks |-> (c - 1) * Lanes + l]
  IN  Pairs(FlattenSeq([l \in 1 .. Lanes |-> acc(l)]))

(* A running sum per lane, the lanes together, then the remainder.         *)
DotAutoVectorized(len) ==
  LET chunks    == len \div Lanes
      acc(l)    == [c \in 1 .. chunks |-> (c - 1) * Lanes + l]
      remainder == [i \in 1 .. len - chunks * Lanes |-> chunks * Lanes + i]
  IN  Pairs(FlattenSeq([l \in 1 .. Lanes |-> acc(l)]) \o remainder)

Dot(kernel, lhs_len, rhs_len) ==
  IF lhs_len # rhs_len THEN << >>
  ELSE IF kernel = "scalar" THEN DotScalar(lhs_len) ELSE DotAutoVectorized(lhs_len)

=============================================================================
