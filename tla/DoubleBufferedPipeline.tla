----------------------- MODULE DoubleBufferedPipeline -----------------------
(***************************************************************************)
(* DoubleBufferedPipeline of src/pipeline.rs: two slots that hold the last *)
(* two regenerated pages.  A page is regenerated cell by cell into a local *)
(* buffer, which takes the place of the older slot once it is complete.    *)
(* A refused request (an empty range, a matrix that overflows usize)       *)
(* changes nothing.                                                        *)
(***************************************************************************)
EXTENDS Naturals, Sequences, FiniteSets

CONSTANTS
  Keys,        (* page keys                                                  *)
  ZeroKey,     (* PageKey::new(0, 0, 0), which an empty buffer has too       *)
  MaxToken,    (* bound of the model on the end of a token range             *)
  HeadDims,    (* the widths that callers ask for                            *)
  Adapters     (* what regenerators do with a cell: see Put                  *)

ASSUME PipelineAssumption ==
  /\ ZeroKey \in Keys
  /\ MaxToken \in Nat \ {0}
  /\ HeadDims \subseteq Nat
  /\ Adapters \subseteq {"overwrites", "accumulates", "skips_zeroes", "near", "far", "non_finite"}

VARIABLES
  adapter,      (* the regenerator, of which nothing is known               *)
  buffers,      (* the two slots                                            *)
  next_slot,
  regenerated,  (* the local of regenerate_next                             *)
  call,         (* the request that is being served, or none                *)
  history       (* the last two requests that succeeded, in order           *)

pipelineVars == <<buffers, next_slot, history>>

Slots == {0, 1}
Requests ==
  {r \in [key : Keys, first : 0 .. MaxToken, end : 0 .. MaxToken, head_dim : HeadDims] :
     r.first < r.end}

NoCall == [pc |-> "none"]
Empty == [key |-> ZeroKey, first |-> 0, end |-> 0, kv |-> << >>]

(* A value, told by the cell it belongs to and how far it is off; rows of  *)
(* odd number hold zeroes.                                                 *)
Zero == [of |-> << >>, off |-> "none"]
Truth(r, i) ==
  LET row == r.first + (i - 1) \div r.head_dim
  IN  IF row % 2 = 1 THEN Zero
      ELSE [of |-> <<r.key, row, (i - 1) % r.head_dim>>, off |-> "none"]

(* The contract of KvRegenerator is to overwrite every cell, and exactly;  *)
(* an adapter may also add to what it finds or leave zeroes out.           *)
Put(kind, old, true) ==
  CASE kind = "overwrites"   -> true
    [] kind = "accumulates"  -> IF old = Zero THEN true
                                ELSE IF true = Zero THEN old ELSE [old EXCEPT !.off = "far"]
    [] kind = "skips_zeroes" -> IF true = Zero THEN old ELSE true
    [] OTHER                 -> [true EXCEPT !.off = kind]

(* Cell i of the two matrices together.                                    *)
ZeroCell == [k |-> Zero, v |-> Zero]
PutCell(old, r, i) == [k |-> Put(adapter.k, old.k, Truth(r, i)),
                       v |-> Put(adapter.v, old.v, Truth(r, i))]

(* Bound of the model: at most one of the two matrices is written wrong.   *)
OneFault == {a \in [k : Adapters, v : Adapters] : "overwrites" \in {a.k, a.v}}

Size(r) == (r.end - r.first) * r.head_dim
Made(r) == [i \in 1 .. Size(r) |-> PutCell(ZeroCell, r, i)]

(* ensure_capacity: the matrices grow, zero-filled, and never shrink.      *)
EnsureCapacity(kv, len) == [i \in 1 .. (IF Len(kv) < len THEN len ELSE Len(kv)) |->
                              IF i <= Len(kv) THEN kv[i] ELSE ZeroCell]

(* clear.                                                                  *)
Wiped(kv) == [i \in DOMAIN kv |-> ZeroCell]
Cleared(buffer) == [Empty EXCEPT !.kv = Wiped(buffer.kv)]

-----------------------------------------------------------------------------
Serve(by, r) ==
  /\ call = NoCall
  /\ call' = [pc |-> "write", by |-> by, r |-> r, next |-> 1]

Serving(by) == call.pc = "write" /\ call.by = by
Complete == call.next > Size(call.r)

(* Mutant: the page is regenerated in the older slot's own buffer, as the  *)
(* reuse of its allocation would have it.                                  *)
BeginInSlot(r) ==
  /\ Serve("pipeline", r)
  /\ regenerated' = [buffers[next_slot] EXCEPT !.kv = EnsureCapacity(@, Size(r))]
  /\ buffers' = [buffers EXCEPT ![next_slot] = Cleared(@)]
  /\ UNCHANGED <<adapter, next_slot, history>>

(* regenerate_next up to the call of the regenerator.                      *)
Begin(r) ==
  /\ Serve("pipeline", r)
  /\ regenerated' = [Empty EXCEPT !.kv = EnsureCapacity(@, Size(r))]
  /\ UNCHANGED <<adapter, pipelineVars>>

(* The regenerator writes the next cell of a local buffer.                 *)
Write(by) ==
  /\ Serving(by) /\ ~Complete
  /\ regenerated' = [regenerated EXCEPT !.kv[call.next] = PutCell(@, call.r, call.next)]
  /\ call' = [call EXCEPT !.next = @ + 1]
  /\ UNCHANGED <<adapter, pipelineVars>>

(* The regenerator gives up, with an error or a panic, wherever it is, and *)
(* the local buffer is cleared and dropped.                                *)
RegeneratorFails(by) ==
  /\ Serving(by)
  /\ regenerated' = Empty
  /\ call' = NoCall
  /\ UNCHANGED <<adapter, pipelineVars>>

(* The page is complete: it is swapped in, and the page it replaces is     *)
(* dropped with the local.                                                 *)
Swap ==
  /\ Serving("pipeline") /\ Complete
  /\ buffers' = [buffers EXCEPT ![next_slot] =
                   [key |-> call.r.key, first |-> call.r.first, end |-> call.r.end,
                    kv |-> regenerated.kv]]
  /\ next_slot' = 1 - next_slot
  /\ regenerated' = Empty
  /\ history' = Append(IF Len(history) < 2 THEN history ELSE Tail(history), call.r)
  /\ call' = NoCall
  /\ UNCHANGED adapter

-----------------------------------------------------------------------------
PipelineInit ==
  /\ adapter \in OneFault
  /\ buffers = [s \in Slots |-> Empty]
  /\ next_slot = 0
  /\ regenerated = Empty
  /\ call = NoCall
  /\ history = << >>

PipelineNext ==
  \/ \E r \in Requests : Begin(r)
  \/ Write("pipeline")
  \/ RegeneratorFails("pipeline")
  \/ Swap

-----------------------------------------------------------------------------
(* Properties.                                                             *)

(* Slot s holds the page of request r: its identity and exactly what the   *)
(* adapter makes of zeroes, nothing from a page that was there before.     *)
Holds(s, r) ==
  /\ buffers[s].key = r.key /\ buffers[s].first = r.first /\ buffers[s].end = r.end
  /\ buffers[s].kv = Made(r)

(* Between the calls and all through them the two slots hold the last two  *)
(* pages that were regenerated, the older one where the next will go, and  *)
(* a slot that no page reached yet is empty.  Failed calls, at whatever    *)
(* cell and however often, make no difference, and even an adapter that    *)
(* relies on zeroed buffers finds them.                                    *)
SlotsHoldLastPages ==
  LET n == Len(history)
  IN  /\ IF n >= 1 THEN Holds(1 - next_slot, history[n]) ELSE buffers[1] = Empty
      /\ IF n >= 2 THEN Holds(next_slot, history[n - 1]) ELSE buffers[next_slot] = Empty

=============================================================================
