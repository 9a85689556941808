---------------------------- MODULE PureFunctions ----------------------------
(***************************************************************************)
(* Callers of the crate's functions that keep no state: round_f32 of       *)
(* DTypePolicy, tune of PageSizeTuner, map_query_head of                   *)
(* AttentionTopology, build of ConfigBuilder, encode and decode of         *)
(* VersionedConfig, the position encodings, the row loops and dot products *)
(* of adapters, and the benchmark programs.  A caller may feed a result    *)
(* back: a row that came out of the store is rounded again, a key that was *)
(* turned is turned again, and the text of a configuration is edited, line *)
(* by line, and decoded.                                                   *)
(***************************************************************************)
EXTENDS AttentionTopology, PageSizeTuner, StorageRounding, ConfigSchema,
        PositionEncoding, Layout, Benchmark

CONSTANTS
  MaxHeads,    (* bound of the model on query_heads                          *)
  Inputs,      (* the PageTuningInputs of the model                          *)
  Builders,    (* what callers give to the ConfigBuilder                     *)
  MaxEdits,    (* bound of the model                                         *)
  KeyRows,     (* key rows of the model                                      *)
  MaxPosition, (* bound of the model on a position                           *)
  Slopes,      (* the ALiBi slopes of the model                              *)
  MaxRow,      (* bound of the model on the length of a row                  *)
  MaxTokens,   (* bound of the model on the tokens of a matrix               *)
  MaxWidth,    (* bound of the model on their dimensions                     *)
  FileBytes,   (* lengths of the files of a context                          *)
  Options,     (* the options of the benchmarks                              *)
  MaxSamples,  (* bound of the model on the timings of a benchmark           *)
  Times        (* the timings, in any unit                                   *)

ASSUME CallersAssumption ==
  /\ MaxHeads \in Nat /\ MaxEdits \in Nat
  /\ \A input \in Inputs : input \in [InputFields -> 0 .. UsizeMax]
  /\ \A b \in Builders : IsBuilder(b)
  /\ MaxPosition \in Nat /\ MaxRow \in Nat
  /\ \A row \in KeyRows : IsKeyRow(row, MaxPosition)
  /\ \A slopes \in Slopes : slopes \in Seq(Int)
  /\ MaxTokens \in Nat /\ MaxWidth \in Nat /\ FileBytes \subseteq Nat
  /\ \A o \in Options : IsOptions(o)
  /\ MaxSamples \in Nat /\ Times \subseteq Int

VARIABLES
  call,     (* the last call: its function, fn, and its arguments            *)
  answer,   (* what it returned                                              *)
  edits     (* history: the edits of the text that call carries              *)

vars == <<call, answer, edits>>

(* First calls; FirstCall below has their guard.                           *)
RoundF32(dtype, bits) ==
  /\ call' = [fn |-> "round_f32", storage |-> dtype, bits |-> bits]
  /\ answer' = Rounded(dtype, bits)
  /\ UNCHANGED edits

(* A row that went through the store is rounded again when it is replayed. *)
RoundAgain ==
  /\ call.fn = "round_f32"
  /\ call' = [call EXCEPT !.bits = answer]
  /\ answer' = Rounded(call.storage, answer)
  /\ UNCHANGED edits

Tune(input) ==
  /\ call' = [fn |-> "tune", input |-> input]
  /\ answer' = Tuned(input)
  /\ UNCHANGED edits

MapQueryHead(t, query_head) ==
  /\ Accepted(t) /\ HeadInRange(t, query_head)
  /\ call' = [fn |-> "map_query_head", topology |-> t, query_head |-> query_head]
  /\ answer' = Mapping(t, query_head)
  /\ UNCHANGED edits

Build(b) ==
  /\ call' = [fn |-> "build", builder |-> b]
  /\ answer' = IF Valid(Built(b)) THEN Built(b) ELSE Refused
  /\ UNCHANGED edits

EncodeText ==
  /\ call.fn = "build" /\ answer # Refused
  /\ call' = [fn |-> "encode", config |-> answer]
  /\ answer' = Encode(answer)
  /\ UNCHANGED edits

(* The text is stored, and someone edits it.                               *)
EditText ==
  /\ call.fn = "encode" /\ edits < MaxEdits
  /\ \/ \E i \in DOMAIN answer : answer' = RemoveAt(answer, i)
     \/ \E i \in 1 .. Len(answer) + 1 : \E line \in Lines : answer' = InsertAt(answer, i, line)
  /\ edits' = edits + 1
  /\ UNCHANGED call

DecodeText ==
  /\ call.fn = "encode"
  /\ call' = [fn |-> "decode", config |-> call.config, text |-> answer]
  /\ answer' = Decoded(answer)
  /\ UNCHANGED edits

(* apply_key; a row that went through it may be moved on by another q.     *)
EncodeKey(encoding, position, row) ==
  /\ encoding.kind = "rope" => RopeAccepted(encoding.dims)
  /\ call' = [fn |-> "apply_key", encoding |-> encoding, row |-> row, position |-> position]
  /\ answer' = ApplyKey(encoding, position, row)
  /\ UNCHANGED edits

MoveKey(position) ==
  /\ call.fn = "apply_key" /\ answer.ok /\ call.position + position <= MaxPosition
  /\ call' = [call EXCEPT !.position = @ + position]
  /\ answer' = ApplyKey(call.encoding, position, answer.row)
  /\ UNCHANGED edits

Bias(slopes, head, query_position, key_position) ==
  /\ AlibiAccepted(slopes)
  /\ call' = [fn |-> "alibi_bias", slopes |-> slopes, head |-> head,
              query_position |-> query_position, key_position |-> key_position]
  /\ answer' = AlibiBias(slopes, head, query_position, key_position)
  /\ UNCHANGED edits

DotProduct(kernel, lhs_len, rhs_len) ==
  /\ call' = [fn |-> "dot", lhs_len |-> lhs_len, rhs_len |-> rhs_len]
  /\ answer' = Dot(kernel, lhs_len, rhs_len)
  /\ UNCHANGED edits

(* A page of bench_cfr's adapter, or the example's.                        *)
RegeneratePage(first, end, head_dim, len) ==
  /\ call' = [fn |-> "regenerate_page", first |-> first, end |-> end, head_dim |-> head_dim,
              len |-> len, elements |-> end * head_dim]
  /\ answer' = PageWrites(first, end, head_dim, len)
  /\ UNCHANGED edits

(* A page of ExactPages, from files of any length.                         *)
CopyPage(context, k_bytes, v_bytes, first, end, head_dim, len) ==
  /\ Artifact(context, head_dim, k_bytes, v_bytes) # Failed
  /\ call' = [fn |-> "regenerate_page", first |-> first, end |-> end, head_dim |-> head_dim,
              len |-> len, elements |-> Artifact(context, head_dim, k_bytes, v_bytes)]
  /\ answer' = ExactWrites(context, head_dim, first, end, head_dim, len)
  /\ UNCHANGED edits

RowRange(row, width, total_len) ==
  /\ call' = [fn |-> "row_range", row |-> row, width |-> width, total_len |-> total_len]
  /\ answer' = CheckedRowRange(row, width, total_len)
  /\ UNCHANGED edits

Measure(o) ==
  /\ call' = [fn |-> "measure", options |-> o]
  /\ answer' = MeasureCfr(o)
  /\ UNCHANGED edits

RunHot(m) ==
  /\ call' = [fn |-> "measure", options |-> RunHotOptions(m)]
  /\ answer' = MeasureCfr(RunHotOptions(m))
  /\ UNCHANGED edits

RunOnce(o) ==
  /\ call' = [fn |-> "run_cold", options |-> o]
  /\ answer' = RunCold(o)
  /\ UNCHANGED edits

Summarize(samples) ==
  /\ call' = [fn |-> "summarize", samples |-> samples]
  /\ answer' = Summarized(samples)
  /\ UNCHANGED edits

Init ==
  /\ call = [fn |-> "none"]
  /\ answer = Unset
  /\ edits = 0

FirstCall ==
  /\ call.fn = "none"
  /\ \/ \E dtype \in StorageDType : \E bits \in Floats : RoundF32(dtype, bits)
     \/ \E input \in Inputs : Tune(input)
     \/ \E kind \in Kinds : \E q, kv, head \in 0 .. MaxHeads :
          MapQueryHead(Topology(kind, q, kv), head)
     \/ \E b \in Builders : Build(b)
     \/ \E dims \in 0 .. MaxDims, position \in 0 .. MaxPosition, row \in KeyRows :
          EncodeKey([kind |-> "rope", dims |-> dims], position, row)
     \/ \E position \in 0 .. MaxPosition, row \in KeyRows :
          EncodeKey([kind |-> "none"], position, row)
     \/ \E slopes \in Slopes, head \in 0 .. MaxHeads, q, k \in 0 .. ExactMax + 1 :
          Bias(slopes, head, q, k)
     \/ \E kernel \in {"scalar", "auto_vectorized"}, lhs, rhs \in 0 .. MaxRow :
          DotProduct(kernel, lhs, rhs)
     \/ \E first, end \in 0 .. MaxTokens, head_dim \in 0 .. MaxWidth,
           len \in 0 .. MaxTokens * MaxWidth :
          \/ RegeneratePage(first, end, head_dim, len)
          \/ \E context \in 0 .. MaxTokens, k_bytes, v_bytes \in FileBytes :
               CopyPage(context, k_bytes, v_bytes, first, end, head_dim, len)
     \/ \E row \in 0 .. MaxTokens, width \in 0 .. MaxWidth, total_len \in 0 .. MaxRow :
          RowRange(row, width, total_len)
     \/ \E o \in Options : Measure(o) \/ RunHot(o) \/ RunOnce(o)
     \/ \E n \in 1 .. MaxSamples : \E samples \in [1 .. n -> Times] : Summarize(samples)

Next ==
  \/ FirstCall
  \/ RoundAgain \/ EncodeText \/ EditText \/ DecodeText
  \/ \E position \in 1 .. MaxPosition : MoveKey(position)

Spec == Init /\ [][Next]_vars

-----------------------------------------------------------------------------
(* Properties.                                                             *)

(* round_f32 rounds to the nearest number of the store, ties to even,      *)
(* across every boundary: where subnormals begin, where they become zero,  *)
(* where a carry reaches the exponent and where it reaches infinity.  So a *)
(* row that the store gave out goes through it unchanged, and replay may   *)
(* round as often as it likes.                                             *)
RoundedToNearestEven ==
  call.fn = "round_f32" => IsNearestEven(call.storage, call.bits, answer)

(* tune returns the best page size there is (see IsBestOf), or an error    *)
(* that one of the sizes on the way to it explains.  Its loop ends, from   *)
(* whatever bounds: it has no more turns than usize has bits and one,      *)
(* since every turn doubles the page size or returns; and the break for a  *)
(* doubling that overflows is never taken, since the bytes of a page that  *)
(* large cannot be counted.                                                *)
SelectionIsBest ==
  call.fn = "tune" =>
    /\ answer.pc # "loop" /\ answer.page_tokens <= UsizeMax
    /\ answer.pc # "refused" => IsBestOf(call.input, answer)

(* A query head is mapped to a KV head that exists, no number of the       *)
(* mapping wraps in u32, and the group that it names is the set of the     *)
(* heads that share its KV head (see MappingSound and GroupIsShared).      *)
MappingsSound ==
  call.fn = "map_query_head" =>
    /\ MappingSound(call.topology, call.query_head)
    /\ GroupIsShared(call.topology, call.query_head)

(* A text is accepted only if it says all there is to say, and once: every *)
(* field has exactly one line, whose number is the one that decode         *)
(* returns, there is no other line, and the whole is a configuration that  *)
(* could have been built.  No edit is lost, overridden by another line or  *)
(* made up for by a default, whatever was read before.  And what encode    *)
(* wrote is never refused: it comes back as the configuration that was     *)
(* built, also when the lines of the stored text changed their order.      *)
DecodingIsFaithful ==
  call.fn = "decode" =>
    /\ answer # Refused =>
         /\ Len(call.text) = 8
         /\ \A f \in TextFields :
              \E line \in ToSet(call.text) :
                line.field = f /\ line.value = Versioned(answer)[f]
         /\ Valid(answer)
    /\ Len(call.text) = 8 /\ ToSet(call.text) = ToSet(Encode(call.config)) =>
         answer = call.config

(* A row that is turned by apply_key, at once or in several moves, is the  *)
(* row turned by the whole distance: each pair by its own angle, and with  *)
(* the norm that it had; what is past dims and what other encodings give   *)
(* is unchanged, and so a replayed key depends on its position alone.  A   *)
(* pair is turned in place, its second element from the first one's old    *)
(* value.  ALiBi's bias depends on the distance only, is none for the      *)
(* token itself, and is refused for the future and past the numbers that   *)
(* f64 and f32 hold.                                                       *)
PositionsEncoded ==
  /\ call.fn = "apply_key" /\ answer.ok =>
       /\ LET turned == IF call.encoding.kind = "rope" THEN call.encoding.dims ELSE 0
          IN  IsTurn(turned, call.position, call.row, answer.row)
       /\ LET whole == ApplyKey(call.encoding, call.position, call.row)
          IN  whole.ok => whole = answer
  /\ call.fn = "alibi_bias" =>
       LET distance == call.query_position - call.key_position
       IN  /\ answer.ok => distance >= 0 /\ (distance = 0 => answer.bias = 0)
           /\ distance >= 1 /\ answer.ok =>
                answer.bias <= AlibiBias(call.slopes, call.head, distance - 1, 0).bias

(* Whatever the width and the length, an element counts once: the rows of  *)
(* a page tile the matrix it is given, every element of which is written   *)
(* from its own token and dimension; a row range stays in the matrix; and  *)
(* both dot products multiply every index with itself and add it once,     *)
(* with the rows that do not fill the eight lanes.                         *)
EachElementOnce ==
  /\ call.fn = "regenerate_page" /\ answer # << >> =>
       /\ Len(answer) = call.len /\ call.len = (call.end - call.first) * call.head_dim
       /\ call.end * call.head_dim <= call.elements
       /\ \A i \in DOMAIN answer :
            answer[i] = <<i - 1, call.first + (i - 1) \div call.head_dim, (i - 1) % call.head_dim>>
  /\ call.fn = "row_range" =>
       \A i \in DOMAIN answer :
         answer[i] = call.row * call.width + i - 1 /\ answer[i] < call.total_len
  /\ call.fn = "dot" /\ call.lhs_len = call.rhs_len =>
       /\ Len(answer) = call.lhs_len
       /\ ToSet(answer) = {<<i, i>> : i \in 1 .. call.lhs_len}

(* What the benchmarks print is what happened.  Counters are divided by    *)
(* the number of runs: that loses nothing, since after the warm-up every   *)
(* run has the same hits and regenerations, one of them per page, also     *)
(* where the budget is too small for what the policy admits.  The resident *)
(* bytes are within the estimate for the same options, and the summary of  *)
(* the timings has as many runs on one side of its median as on the other. *)
BenchmarksAreTrue ==
  /\ call.fn = "measure" /\ answer # Refused =>
       LET o        == IF call.options.admit THEN call.options
                       ELSE [call.options EXCEPT !.hot_cache_bytes = 0]
           estimate == Estimate(o.context_tokens, o.head_dim, o.page_tokens, o.hot_cache_bytes)
       IN  /\ \A run \in DOMAIN answer.after :
                /\ answer.after[run].hot_hits = run * answer.hot_hits_per_run
                /\ answer.after[run].cold_regenerations = run * answer.cold_regenerations_per_run
           /\ answer.hot_hits_per_run + answer.cold_regenerations_per_run = PageCount(o)
           /\ estimate # Refused => answer.resident_kv_bytes <= estimate.cfr_resident_budget_bytes
  /\ call.fn = "run_cold" /\ answer # Refused =>
       answer.hot_hits = 0 /\ answer.cold_regenerations = PageCount(call.options)
  /\ call.fn = "summarize" =>
       LET side(op(_, _)) == Cardinality({i \in DOMAIN call.samples :
                                            op(call.samples[i], answer.median_ms)})
       IN  /\ answer.min_ms <= answer.median_ms /\ answer.median_ms <= answer.max_ms
           /\ 2 * side(<) <= Len(call.samples) /\ 2 * side(>) < Len(call.samples)

=============================================================================
