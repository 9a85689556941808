-------------------------- MODULE DecodeValidation --------------------------
(***************************************************************************)
(* validate_decode_loop and validate_decode_step of src/validation.rs: for *)
(* sampled decode steps, layers and query heads the exact attention output *)
(* of a full-KV baseline is compared with the atlas's, first as it is and  *)
(* then projected to logits.  A client may also call the step alone.       *)
(*                                                                         *)
(* A vector is a naming of its buffer; of its content only the distance    *)
(* from the baseline is kept.  The atlas is what attend may do to it: fail *)
(* or answer, and change the bytes of its hot cache (CfrAtlas models it).  *)
(* A tolerance that is negative or no number is -1.                        *)
(***************************************************************************)
EXTENDS AttentionTopology, PromptCorpus, Integers

CONSTANTS
  Plans,          (* the validation plans                                    *)
  Steps,          (* the requests of clients that call a step alone          *)
  Drifts,         (* distances between two vectors                           *)
  HotBytes,       (* the bytes that the hot cache may hold, in kv rows       *)
  ScratchBytes,   (* Config::page_tokens, in kv rows                         *)
  RowDims,        (* Config::head_dim                                        *)
  UsizeMax,       (* usize::MAX, in kv rows                                  *)
  U32Max          (* u32::MAX                                                *)

TopologyFields == [kind : Kinds, query_heads : Nat, kv_heads : Nat]

PlanFields == [prompt : PromptCase, layers : Seq(Nat), query_heads : Seq(Nat),
               decode_steps : Seq(Nat), output_tolerance : Int, logit_tolerance : Int,
               vocab_size : Nat, topology : TopologyFields]

StepFields == [layers : Nat, layer : Nat, query_head : Nat, context_tokens : Nat,
               query_len : Nat, output_tolerance : Int, logit_tolerance : Int,
               vocab_size : Nat, topology : TopologyFields]

ASSUME ValidationAssumption ==
  /\ \A plan \in Plans : plan \in PlanFields /\ Accepted(plan.topology)
  /\ \A step \in Steps : step \in StepFields /\ Accepted(step.topology)
  /\ Drifts \subseteq Nat
  /\ HotBytes \subseteq Nat
  /\ ScratchBytes \in Nat \ {0} /\ RowDims \subseteq Nat \ {0}
  /\ UsizeMax \in Nat /\ U32Max \in Nat

VARIABLES
  plan,       (* the plan of the loop, or NoPlan for a step called alone     *)
  head_dim,   (* of the atlas's configuration                                *)
  pc,
  request,    (* the request of the step                                     *)
  sample,     (* the current [decode_step, layer, query_head], as indices    *)
  live,       (* the buffers that hold data                                  *)
  left,       (* history: the buffers that were dropped while they held data *)
  drift,      (* output_diff and logit_diff of the step                      *)
  hot_bytes,  (* bytes in the atlas's hot cache                              *)
  steps,      (* the report                                                  *)
  measured    (* history: what the atlas did for every sample in turn        *)

vars == <<plan, head_dim, pc, request, sample, live, left, drift, hot_bytes, steps, measured>>

NoPlan == [layers |-> << >>]
NoRequest == [layers |-> 0]

Outputs == {"full_output", "atlas_output"}
LogitBuffers == {"full_logits", "atlas_logits"}
NoDrift == [output |-> 0, logits |-> 0]

LargestLayer == Max(Range(plan.layers))

LayerCount == LargestLayer + 1

Layer == plan.layers[sample.layer]
QueryHead == plan.query_heads[sample.query_head]
DecodeStep == plan.decode_steps[sample.decode_step]
ContextTokens == DecodeStep + 1

(* The rows that a full KV baseline would keep resident.                   *)
BaselineRows == request.context_tokens * request.layers * request.topology.kv_heads
ResidentRows == ScratchBytes + hot_bytes
TelemetryOverflows == BaselineRows > UsizeMax \/ ResidentRows > UsizeMax

PlanValid ==
  /\ plan.layers # << >> /\ plan.query_heads # << >> /\ plan.decode_steps # << >>
  /\ plan.output_tolerance >= 0 /\ plan.logit_tolerance >= 0
  /\ \A i \in DOMAIN plan.decode_steps : plan.decode_steps[i] < Len(plan.prompt)
  /\ LargestLayer < U32Max

(* Return with an error: what was not wiped is left in freed memory.       *)
Fail(holding, wiped) ==
  /\ pc' = "failed"
  /\ left' = left \cup (holding \ wiped)
  /\ live' = {}
  /\ steps' = << >>
  /\ request' = NoRequest

(* A step returns with an error: the loop wipes the query it made and      *)
(* gives the report up.                                                    *)
StepFails(holding, wiped) == Fail(holding, wiped \cup {"query"})

-----------------------------------------------------------------------------
PlanRefused ==
  /\ pc = "start"
  /\ ~PlanValid
  /\ pc' = "failed"
  /\ UNCHANGED <<plan, head_dim, request, sample, live, left, drift, hot_bytes, steps, measured>>

Start ==
  /\ pc = "start"
  /\ PlanValid
  /\ pc' = "query"
  /\ UNCHANGED <<plan, head_dim, request, sample, live, left, drift, hot_bytes, steps, measured>>

QueryExact ==
  Exact(plan.prompt[DecodeStep + 1]) /\ Exact(DecodeStep) /\ Exact(Layer) /\ Exact(QueryHead)

QueryRefused ==
  /\ pc = "query"
  /\ ~QueryExact
  /\ Fail(live, {})
  /\ UNCHANGED <<plan, head_dim, sample, drift, hot_bytes, measured>>

(* A dimension is no exact f32: what was pushed until then is wiped.       *)
QueryFails ==
  /\ pc = "query"
  /\ QueryExact /\ ~Exact(head_dim - 1)
  /\ Fail({"query"}, {"query"})
  /\ UNCHANGED <<plan, head_dim, sample, drift, hot_bytes, measured>>

MakeQuery ==
  /\ pc = "query"
  /\ QueryExact /\ Exact(head_dim - 1)
  /\ live' = {"query"}
  /\ request' = [layers |-> LayerCount, layer |-> Layer, query_head |-> QueryHead,
                 context_tokens |-> ContextTokens, query_len |-> head_dim,
                 output_tolerance |-> plan.output_tolerance,
                 logit_tolerance |-> plan.logit_tolerance,
                 vocab_size |-> plan.vocab_size, topology |-> plan.topology]
  /\ pc' = "baseline"
  /\ UNCHANGED <<plan, head_dim, sample, left, drift, hot_bytes, steps, measured>>

(* StepValidationRequest::validate and map_query_head.                     *)
RequestValid ==
  /\ request.layer < request.layers
  /\ request.context_tokens # 0
  /\ request.vocab_size # 0
  /\ request.output_tolerance >= 0 /\ request.logit_tolerance >= 0
  /\ request.query_len = head_dim
  /\ HeadInRange(request.topology, request.query_head)

RequestRefused ==
  /\ pc = "baseline"
  /\ ~RequestValid
  /\ StepFails(live, {})
  /\ UNCHANGED <<plan, head_dim, sample, drift, hot_bytes, measured>>

(* baseline_attention_output: the regenerator, the reducer or its quotient *)
(* fails; k and v are wiped whichever it is.                               *)
BaselineFails ==
  /\ pc = "baseline"
  /\ RequestValid
  /\ StepFails(live \cup {"k", "v"}, {"k", "v"})
  /\ UNCHANGED <<plan, head_dim, sample, drift, hot_bytes, measured>>

Baseline ==
  /\ pc = "baseline"
  /\ RequestValid
  /\ live' = live \cup {"full_output"}
  /\ pc' = "attend"
  /\ UNCHANGED <<plan, head_dim, request, sample, left, drift, hot_bytes, steps, measured>>

AttendFails(hot) ==
  /\ pc = "attend"
  /\ hot_bytes' = hot
  /\ StepFails(live, Outputs)
  /\ UNCHANGED <<plan, head_dim, sample, drift, measured>>

Attend(hot, d) ==
  /\ pc = "attend"
  /\ live' = live \cup {"atlas_output"}
  /\ hot_bytes' = hot
  /\ drift' = [drift EXCEPT !.output = d]
  /\ measured' = Append(measured, [output |-> d, logits |-> 0, hot |-> hot])
  /\ pc' = "compare"
  /\ UNCHANGED <<plan, head_dim, request, sample, left, steps>>

(* Mutant: one of the two outputs is forgotten.                            *)
OutputDriftsLeft ==
  /\ pc = "compare"
  /\ drift.output > request.output_tolerance
  /\ StepFails(live, {"full_output"})
  /\ UNCHANGED <<plan, head_dim, sample, drift, hot_bytes, measured>>

OutputDrifts ==
  /\ pc = "compare"
  /\ drift.output > request.output_tolerance
  /\ StepFails(live, Outputs)
  /\ UNCHANGED <<plan, head_dim, sample, drift, hot_bytes, measured>>

(* max_abs_diff_finite meets a value that is not finite.                   *)
CompareFails ==
  /\ pc = "compare"
  /\ StepFails(live, Outputs)
  /\ UNCHANGED <<plan, head_dim, sample, drift, hot_bytes, measured>>

OutputsAgree ==
  /\ pc = "compare"
  /\ drift.output <= request.output_tolerance
  /\ pc' = "project_full"
  /\ UNCHANGED <<plan, head_dim, request, sample, live, left, drift, hot_bytes, steps, measured>>

(* A projector fails, or the shipped one meets a logit beyond f32; it      *)
(* writes to a buffer of its own and wipes it.                             *)
ProjectFails ==
  /\ pc \in {"project_full", "project_atlas"}
  /\ StepFails(live \cup LogitBuffers \cup {"tmp"}, Outputs \cup LogitBuffers \cup {"tmp"})
  /\ UNCHANGED <<plan, head_dim, sample, drift, hot_bytes, measured>>

ProjectFull ==
  /\ pc = "project_full"
  /\ live' = live \cup {"full_logits"}
  /\ pc' = "project_atlas"
  /\ UNCHANGED <<plan, head_dim, request, sample, left, drift, hot_bytes, steps, measured>>

(* Equal outputs have equal logits.                                        *)
Project(d) ==
  /\ pc = "project_atlas"
  /\ drift.output = 0 => d = 0
  /\ drift' = [drift EXCEPT !.logits = d]
  /\ measured' = [measured EXCEPT ![Len(measured)].logits = d]
  /\ live' = live \cup {"atlas_logits"}
  /\ pc' = "compare_logits"
  /\ UNCHANGED <<plan, head_dim, request, sample, left, hot_bytes, steps>>

(* The logits are compared, and all four buffers wiped before the outcome  *)
(* is looked at.                                                           *)
LogitsDrift ==
  /\ pc = "compare_logits"
  /\ drift.logits > request.logit_tolerance
  /\ StepFails(live, Outputs \cup LogitBuffers)
  /\ UNCHANGED <<plan, head_dim, sample, drift, hot_bytes, measured>>

CompareLogitsFails ==
  /\ pc = "compare_logits"
  /\ StepFails(live, Outputs \cup LogitBuffers)
  /\ UNCHANGED <<plan, head_dim, sample, drift, hot_bytes, measured>>

TelemetryFails ==
  /\ pc = "compare_logits"
  /\ drift.logits <= request.logit_tolerance
  /\ TelemetryOverflows
  /\ StepFails(live, Outputs \cup LogitBuffers)
  /\ UNCHANGED <<plan, head_dim, sample, drift, hot_bytes, measured>>

(* The next sample of the three nested loops: heads innermost.             *)
LastSample ==
  /\ sample.decode_step = Len(plan.decode_steps)
  /\ sample.layer = Len(plan.layers)
  /\ sample.query_head = Len(plan.query_heads)

(* Mutant: the head that was left off at is not reset.                     *)
NextSampleUnreset ==
  IF sample.query_head < Len(plan.query_heads)
    THEN [sample EXCEPT !.query_head = @ + 1]
  ELSE IF sample.layer < Len(plan.layers)
    THEN [sample EXCEPT !.layer = @ + 1]
  ELSE [decode_step |-> sample.decode_step + 1, layer |-> 1, query_head |-> 1]

NextSample ==
  IF sample.query_head < Len(plan.query_heads)
    THEN [sample EXCEPT !.query_head = @ + 1]
  ELSE IF sample.layer < Len(plan.layers)
    THEN [sample EXCEPT !.layer = @ + 1, !.query_head = 1]
  ELSE [decode_step |-> sample.decode_step + 1, layer |-> 1, query_head |-> 1]

StepReport ==
  [layer |-> request.layer, query_head |-> request.query_head,
   kv_head |-> KvHead(request.topology, request.query_head),
   context_tokens |-> request.context_tokens, drift |-> drift,
   baseline |-> BaselineRows, resident |-> ResidentRows]

(* The step succeeds: the loop pushes its report, and goes on if there is  *)
(* one.                                                                    *)
Report ==
  /\ pc = "compare_logits"
  /\ drift.logits <= request.logit_tolerance
  /\ ~TelemetryOverflows
  /\ live' = {}
  /\ steps' = Append(steps, StepReport)
  /\ request' = NoRequest
  /\ IF plan = NoPlan \/ LastSample
       THEN pc' = "passed" /\ UNCHANGED sample
       ELSE pc' = "query" /\ sample' = NextSample
  /\ UNCHANGED <<plan, head_dim, left, drift, hot_bytes, measured>>

(* What the report says of all its steps; a reduction is a fraction.       *)
Worst(diffs) == FoldSeq(LAMBDA d, worst : IF d > worst THEN d ELSE worst, 0, diffs)

WorstOutputDiff(report) == Worst([i \in DOMAIN report |-> report[i].drift.output])

WorstLogitDiff(report) == Worst([i \in DOMAIN report |-> report[i].drift.logits])

BestMemoryReduction(report) ==
  FoldSeq(LAMBDA step, best :
            IF step.baseline * best.resident > best.baseline * step.resident THEN step ELSE best,
          [baseline |-> 0, resident |-> 1],
          [i \in DOMAIN report |-> [baseline |-> report[i].baseline,
                                    resident |-> report[i].resident]])

-----------------------------------------------------------------------------
Init ==
  /\ \/ plan \in Plans /\ pc = "start" /\ request = NoRequest
     \/ plan = NoPlan /\ pc = "baseline" /\ request \in Steps
  /\ head_dim \in RowDims
  /\ sample = [decode_step |-> 1, layer |-> 1, query_head |-> 1]
  /\ live = {} /\ left = {}
  /\ drift = NoDrift
  /\ hot_bytes = 0
  /\ steps = << >> /\ measured = << >>

Next ==
  \/ PlanRefused \/ Start
  \/ QueryRefused \/ QueryFails \/ MakeQuery
  \/ RequestRefused \/ BaselineFails \/ Baseline
  \/ \E hot \in HotBytes : AttendFails(hot) \/ \E d \in Drifts : Attend(hot, d)
  \/ OutputDrifts \/ CompareFails \/ OutputsAgree
  \/ ProjectFails \/ ProjectFull
  \/ \E d \in Drifts : Project(d)
  \/ LogitsDrift \/ CompareLogitsFails \/ TelemetryFails
  \/ Report

Spec == Init /\ [][Next]_vars

-----------------------------------------------------------------------------
(* Properties.                                                             *)

(* A validation that passes has looked at every decode step on every layer *)
(* for every query head of its plan, in that order and once each, with the *)
(* tokens that the decode step sees.  It reports of each sample what was   *)
(* measured there, its own distances and the cache as that attend left it, *)
(* not an earlier one; and its summary holds for every sample: the atlas   *)
(* stayed within both tolerances, and no step saved more than the best.    *)
PassedIsWhole ==
  LET heads == Len(plan.query_heads)
      layers == Len(plan.layers)
      n == IF plan = NoPlan THEN 1 ELSE Len(plan.decode_steps) * layers * heads
      best == BestMemoryReduction(steps)
  IN  pc = "passed" =>
        /\ Len(steps) = n
        /\ plan # NoPlan =>
             /\ WorstOutputDiff(steps) <= plan.output_tolerance
             /\ WorstLogitDiff(steps) <= plan.logit_tolerance
             /\ \A i \in 1 .. n :
                  /\ steps[i].query_head = plan.query_heads[((i - 1) % heads) + 1]
                  /\ steps[i].layer = plan.layers[(((i - 1) \div heads) % layers) + 1]
                  /\ steps[i].context_tokens =
                       plan.decode_steps[((i - 1) \div (heads * layers)) + 1] + 1
        /\ \A i \in 1 .. n :
             /\ measured[i].output <= WorstOutputDiff(steps)
             /\ measured[i].logits <= WorstLogitDiff(steps)
             /\ steps[i].baseline * best.resident
                  <= best.baseline * (ScratchBytes + measured[i].hot)

(* However a step ends, no query, key, value, output or logit stays behind *)
(* in the memory that it frees.                                            *)
NothingLeft == left = {} /\ (pc \in {"query", "passed", "failed"} => live = {})

=============================================================================
