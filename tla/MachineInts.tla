----------------------------- MODULE MachineInts -----------------------------
(***************************************************************************)
(* The width of usize, for the functions that check their products and     *)
(* sums against it.                                                        *)
(***************************************************************************)
EXTENDS Naturals

CONSTANT UsizeBits

ASSUME UsizeAssumption == UsizeBits \in Nat \ {0}

UsizeMax == 2 ^ UsizeBits - 1

(* K and V rows of four-byte floats.                                       *)
KvBytes(tokens, head_dim) == tokens * head_dim * 4 * 2

=============================================================================
