-------------------------- MODULE ReferenceBackend --------------------------
(***************************************************************************)
(* ReferenceBackend of crates/cfr-atlas-backend-ref: pages of K/V rows are *)
(* regenerated from the token ledger into slices of the caller, or twice   *)
(* into buffers of its own that are compared.  A backend owns the ledger   *)
(* it was created with; as the context grows, the runtime appends to its   *)
(* own and creates the backend anew.                                       *)
(*                                                                         *)
(* A row of a page, key and value, is named by what it is computed from.   *)
(***************************************************************************)
EXTENDS TokenLedger

CONSTANTS
  Layers, KvHeads,   (* the layers and KV heads of the backend               *)
  InexactIds,        (* the token ids that are no exact f32                  *)
  MaxExactPosition,  (* the largest position that is an exact f64            *)
  BackendDims,       (* the head_dims that callers ask for, HeadDim the right one *)
  HeadDim,
  RopeDims           (* dimensions that RoPE rotates, 0 without RoPE         *)

ASSUME BackendAssumption ==
  /\ Layers \in Nat \ {0} /\ KvHeads \in Nat \ {0}
  /\ InexactIds \subseteq TokenIds
  /\ MaxExactPosition \in Nat
  /\ HeadDim \in BackendDims /\ HeadDim # 0
  /\ RopeDims \in Nat

VARIABLES
  ledger,   (* the ledger of the backend, empty when there is no backend    *)
  out,      (* the rows of k_out and v_out                                  *)
  stored,   (* conformance_report's stored_k and stored_v                   *)
  frame,    (* the frame of generate_page                                   *)
  result,
  kept      (* history: a page regenerated earlier, or none                 *)

backendVars == <<records, ledger, out, stored, frame, result, kept>>

ZeroRow == << >>
Stale == <<"stale">>           (* what a reused slice may hold              *)

RowOf(key, record) == <<key.layer, key.head, record.token_id, record.position>>

(* The key starts where the page does or at the first token, the slices    *)
(* have the length of the page or none.                                    *)
PageRequests ==
  {r \in [layer : 0 .. Layers, head : 0 .. KvHeads, start_token : 0 .. MaxRecords,
          start : 0 .. MaxRecords, end : 0 .. MaxRecords + 1, head_dim : BackendDims,
          out_len : 0 .. MaxRecords] :
    r.start_token \in {r.start, 0} /\ r.out_len \in {r.end - r.start, 0}}

Pages == {r \in PageRequests : r.head_dim = HeadDim /\ r.out_len = 0}

NoFrame == [pc |-> "none"]
NothingKept == [rows |-> << >>]

WipedRows(rows) == [i \in DOMAIN rows |-> ZeroRow]

Fail ==
  /\ frame' = NoFrame
  /\ result' = [status |-> "error"]

-----------------------------------------------------------------------------
RangeValid(r) ==
  /\ r.start = r.start_token
  /\ r.start < r.end /\ r.end <= Len(ledger)

(* validate_request: key, range, layer, head, width and lengths.           *)
RequestValid(r) ==
  /\ RangeValid(r)
  /\ r.layer < Layers /\ r.head < KvHeads
  /\ r.head_dim = HeadDim
  /\ r.out_len = r.end - r.start

Refuse(r) ==
  /\ frame = NoFrame /\ ledger # << >>
  /\ ~RequestValid(r)
  /\ out' = [i \in 1 .. r.out_len |-> ZeroRow]
  /\ Fail
  /\ UNCHANGED <<records, ledger, stored, kept>>

GenerateBegin(r) ==
  /\ frame = NoFrame /\ ledger # << >>
  /\ RequestValid(r)
  /\ out' = [i \in 1 .. r.out_len |-> Stale]
  /\ frame' = [pc |-> "rows", slices |-> "caller", r |-> r, row |-> 1]
  /\ UNCHANGED <<records, ledger, stored, result, kept>>

(* Mutant: the row is counted from the start of the ledger.                *)
RecordAtRow == ledger[frame.row]

Record == ledger[frame.r.start + frame.row]

(* The integers that go into the phase are not exact, or the row is too    *)
(* narrow for RoPE.                                                        *)
RowUnfit ==
  \/ Record.token_id \in InexactIds
  \/ Record.position > MaxExactPosition
  \/ RopeDims > HeadDim

(* Mutant: the rows written before the one that fails stay.                *)
RowFailsUnwiped ==
  /\ frame.pc = "rows" /\ frame.row <= Len(out)
  /\ RowUnfit
  /\ out' = [out EXCEPT ![frame.row] = ZeroRow]
  /\ stored' = WipedRows(stored)
  /\ Fail
  /\ UNCHANGED <<records, ledger, kept>>

RowFails ==
  /\ frame.pc = "rows" /\ frame.row <= Len(out)
  /\ RowUnfit
  /\ out' = WipedRows(out)
  /\ stored' = WipedRows(stored)
  /\ Fail
  /\ UNCHANGED <<records, ledger, kept>>

GenerateRow ==
  /\ frame.pc = "rows" /\ frame.row <= Len(out)
  /\ ~RowUnfit
  /\ out' = [out EXCEPT ![frame.row] = RowOf(frame.r, Record)]
  /\ frame' = [frame EXCEPT !.row = @ + 1]
  /\ UNCHANGED <<records, ledger, stored, result, kept>>

Done ==
  /\ frame.pc = "rows" /\ frame.row > Len(out) /\ frame.slices = "caller"
  /\ frame' = NoFrame
  /\ result' = [status |-> "ok", r |-> frame.r]
  /\ \/ kept = NothingKept /\ kept' = [r |-> frame.r, rows |-> out]
     \/ UNCHANGED kept
  /\ UNCHANGED <<records, ledger, out, stored>>

-----------------------------------------------------------------------------
(* conformance_report: one page through stored_page, the same through      *)
(* regenerate_page, and the comparison of the two.                         *)
Expected(r) == [r EXCEPT !.head_dim = HeadDim, !.out_len = r.end - r.start]

ConformRefused(r) ==
  /\ frame = NoFrame /\ ledger # << >>
  /\ ~RangeValid(r) \/ ~RequestValid(Expected(r))
  /\ out' = << >> /\ stored' = << >>
  /\ Fail
  /\ UNCHANGED <<records, ledger, kept>>

ConformBegin(r) ==
  /\ frame = NoFrame /\ ledger # << >>
  /\ RangeValid(r) /\ RequestValid(Expected(r))
  /\ out' = [i \in 1 .. r.end - r.start |-> ZeroRow]
  /\ stored' = << >>
  /\ frame' = [pc |-> "rows", slices |-> "stored", r |-> Expected(r), row |-> 1]
  /\ UNCHANGED <<records, ledger, result, kept>>

(* compare_regenerated_page refuses the tolerance.                         *)
ToleranceRefused ==
  /\ frame.pc = "rows" /\ frame.row > Len(out) /\ frame.slices = "stored"
  /\ out' = WipedRows(out)
  /\ Fail
  /\ UNCHANGED <<records, ledger, stored, kept>>

Regenerate ==
  /\ frame.pc = "rows" /\ frame.row > Len(out) /\ frame.slices = "stored"
  /\ stored' = out
  /\ out' = WipedRows(out)
  /\ frame' = [frame EXCEPT !.slices = "regenerated", !.row = 1]
  /\ UNCHANGED <<records, ledger, result, kept>>

(* The differences of K and V, here whether there are any.                 *)
Compare ==
  /\ frame.pc = "rows" /\ frame.row > Len(out) /\ frame.slices = "regenerated"
  /\ result' = [status |-> "report", passed |-> out = stored]
  /\ out' = WipedRows(out) /\ stored' = WipedRows(stored)
  /\ frame' = NoFrame
  /\ UNCHANGED <<records, ledger, kept>>

-----------------------------------------------------------------------------
BackendInit ==
  /\ LedgerInit /\ ledger = << >>
  /\ out = << >> /\ stored = << >> /\ frame = NoFrame /\ kept = NothingKept
  /\ result = [status |-> "none"]

AppendToken ==
  /\ LedgerNext \/ PushRefused
  /\ UNCHANGED <<ledger, out, stored, frame, result, kept>>

(* new, which refuses an empty ledger.                                     *)
New ==
  /\ frame = NoFrame
  /\ records # << >>
  /\ ledger' = records
  /\ UNCHANGED <<records, out, stored, frame, result, kept>>

BackendNext ==
  \/ AppendToken \/ New
  \/ \E r \in PageRequests : Refuse(r) \/ GenerateBegin(r)
  \/ RowFails \/ GenerateRow \/ Done
  \/ \E r \in Pages : ConformRefused(r) \/ ConformBegin(r)
  \/ ToleranceRefused \/ Regenerate \/ Compare

BackendSpec == BackendInit /\ [][BackendNext]_backendVars

-----------------------------------------------------------------------------
(* Properties.                                                             *)

(* A page is written in full or not at all: a call that succeeds has       *)
(* overwritten every row of the slices it was given, and one that fails,   *)
(* at whatever row, leaves zeroes and nothing of the rows it had written   *)
(* nor of what was there before.  A comparison leaves nothing in either of *)
(* its buffers.                                                            *)
AllOrNothing ==
  frame = NoFrame =>
    /\ stored = WipedRows(stored)
    /\ result.status = "report" => out = WipedRows(out)
    /\ result.status = "ok" => \A i \in DOMAIN out : out[i] \notin {ZeroRow, Stale}
    /\ result.status = "error" => \A i \in DOMAIN out : out[i] = ZeroRow

(* Regeneration is replay: a page has the same rows as any page that was   *)
(* regenerated before on the same layer and head, for the tokens they      *)
(* share, whatever the bounds of the two pages are and however often the   *)
(* backend was created anew over a longer ledger.  It is what makes a      *)
(* resident page as good as a regenerated one, and makes every comparison  *)
(* of the backend with itself pass.  A page is rotated by the positions of *)
(* its tokens, which stay in causal order.                                 *)
PagesAgree ==
  /\ PositionsIncrease
  /\ result.status = "report" => result.passed
  /\ frame = NoFrame /\ result.status = "ok" /\ kept # NothingKept
       /\ kept.r.layer = result.r.layer /\ kept.r.head = result.r.head =>
       \A token \in (kept.r.start .. kept.r.end - 1) \cap (result.r.start .. result.r.end - 1) :
         kept.rows[token - kept.r.start + 1] = out[token - result.r.start + 1]

=============================================================================
