---------------------------- MODULE TokenLedger ----------------------------
(***************************************************************************)
(* TokenLedger of src/token.rs: the append-only log of the tokens of a     *)
(* context and of their model positions, from which backends replay pages. *)
(***************************************************************************)
EXTENDS Naturals, Sequences

CONSTANTS
  TokenIds,
  MaxPosition,   (* u64::MAX                                                 *)
  MaxRecords     (* bound of the model on the length of the ledger           *)

ASSUME LedgerAssumption == MaxPosition \in Nat /\ MaxRecords \in Nat

VARIABLE records

LastPosition == records[Len(records)].position

Appended(id, p) == records' = Append(records, [token_id |-> id, position |-> p])

(* push, which from_token_ids repeats from an empty ledger.                *)
Push(id) ==
  /\ Len(records) < MaxRecords
  /\ records # << >> => LastPosition < MaxPosition
  /\ Appended(id, IF records = << >> THEN 0 ELSE LastPosition + 1)

PushWithPosition(id, p) ==
  /\ Len(records) < MaxRecords
  /\ records # << >> => p > LastPosition
  /\ Appended(id, p)

(* The next position overflows, or the given one is not past the last.     *)
PushRefused == records # << >> /\ UNCHANGED records

LedgerInit == records = << >>

LedgerNext ==
  \E id \in TokenIds :
    \/ Push(id)
    \/ \E p \in 0 .. MaxPosition : PushWithPosition(id, p)

-----------------------------------------------------------------------------
(* Properties.                                                             *)

(* However pushes with and without a position are mixed, and up to the     *)
(* last position there is, positions increase strictly: no two tokens are  *)
(* rotated alike, and causal order is the order of positions.              *)
PositionsIncrease ==
  \A i, j \in DOMAIN records : i < j => records[i].position < records[j].position

=============================================================================
