---------------------------- MODULE AdapterGate -----------------------------
(***************************************************************************)
(* One adapter (KvRegenerator) and its three callers: the double-buffered  *)
(* pipeline, the page conformance helpers of src/conformance.rs that a     *)
(* runtime passes before CFR is enabled, and the cold pages of CfrAtlas,   *)
(* whose scratch buffers (src/scratch.rs) are reused from page to page.    *)
(*                                                                         *)
(* The helpers and the pipeline give the adapter zeroed buffers; the atlas *)
(* gives it what the last page left.                                       *)
(***************************************************************************)
EXTENDS DoubleBufferedPipeline

VARIABLES
  wipe_scratch_after_use,   (* the configuration                            *)
  scratch,                  (* the cells of ScratchBuffers                  *)
  unwound,                  (* history: a panic left its rows in scratch    *)
  used,                     (* the page that the reducer consumed last      *)
  verdict                   (* the last report of compare_regenerated_page  *)

atlasVars == <<wipe_scratch_after_use, scratch, unwound, used>>
vars == <<adapter, regenerated, call, pipelineVars, atlasVars, verdict>>

NoPage == [pc |-> "none"]
NoReport == [passed |-> FALSE]

-----------------------------------------------------------------------------
(* src/conformance.rs.  The stored page is what the runtime has retained:  *)
(* the truth, or a matrix with a value that is not finite.                 *)
References == {"true", "non_finite"}

(* compare_regenerated_page up to the call of the regenerator.             *)
GateBegin(r) ==
  /\ r.head_dim # 0
  /\ Serve("gate", r)
  /\ regenerated' = [Empty EXCEPT !.kv = [i \in 1 .. Size(r) |-> ZeroCell]]
  /\ verdict' = NoReport
  /\ used' = NoPage
  /\ UNCHANGED <<adapter, pipelineVars, wipe_scratch_after_use, scratch, unwound>>

(* Mutant: NaN differences are skipped, as a fold with f32::max skips them.*)
MaxAbsDiffSkipsNaN(matrix, r, reference) ==
  LET off(i) == IF matrix[i].of = Truth(r, i).of THEN matrix[i].off ELSE "far"
  IN  IF \E i \in DOMAIN matrix : off(i) = "far" THEN "far" ELSE "within"

(* max_abs_diff_finite, as far as the tolerance tells: "non_finite" for    *)
(* the error, "far" for a maximum above the tolerance.                     *)
MaxAbsDiff(matrix, r, reference) ==
  LET off(i) == IF matrix[i].of = Truth(r, i).of THEN matrix[i].off ELSE "far"
  IN  IF reference = "non_finite" \/ \E i \in DOMAIN matrix : matrix[i].off = "non_finite"
        THEN "non_finite"
      ELSE IF \E i \in DOMAIN matrix : off(i) = "far" THEN "far" ELSE "within"

Matrix(part) == [i \in DOMAIN regenerated.kv |-> regenerated.kv[i][part]]

(* The two matrices are compared, wiped and dropped; only finite ones make *)
(* a report, and passed() reads both of its maxima.                        *)
GateReports ==
  /\ Serving("gate") /\ Complete
  /\ \E reference \in References :
       LET max_abs_k == MaxAbsDiff(Matrix("k"), call.r, reference)
           max_abs_v == MaxAbsDiff(Matrix("v"), call.r, reference)
       IN  verdict' = IF "non_finite" \in {max_abs_k, max_abs_v} THEN NoReport
                      ELSE [passed |-> max_abs_k = "within" /\ max_abs_v = "within",
                            r |-> call.r]
  /\ regenerated' = Empty
  /\ call' = NoCall
  /\ UNCHANGED <<adapter, pipelineVars, atlasVars>>

-----------------------------------------------------------------------------
(* src/scratch.rs and its use by src/execution.rs.                         *)

(* outputs: the cells are not zeroed again.                                *)
PageBegin(r) ==
  /\ r.head_dim # 0
  /\ Serve("atlas", r)
  /\ scratch' = EnsureCapacity(scratch, Size(r))
  /\ used' = NoPage
  /\ UNCHANGED <<adapter, regenerated, pipelineVars, wipe_scratch_after_use, unwound, verdict>>

PageWrite ==
  /\ Serving("atlas") /\ ~Complete
  /\ scratch' = [scratch EXCEPT ![call.next] = PutCell(@, call.r, call.next)]
  /\ call' = [call EXCEPT !.next = @ + 1]
  /\ UNCHANGED <<adapter, regenerated, pipelineVars, wipe_scratch_after_use, unwound, used, verdict>>

WipeIfEnabled ==
  IF wipe_scratch_after_use
    THEN scratch' = Wiped(scratch) /\ unwound' = FALSE
    ELSE UNCHANGED <<scratch, unwound>>

(* Mutant: the early return of the error path comes before the wipe.       *)
PageErrorUnwiped ==
  /\ Serving("atlas")
  /\ call' = NoCall
  /\ UNCHANGED <<scratch, unwound>>
  /\ UNCHANGED <<adapter, regenerated, pipelineVars, wipe_scratch_after_use, used, verdict>>

PageError ==
  /\ Serving("atlas")
  /\ call' = NoCall
  /\ WipeIfEnabled
  /\ UNCHANGED <<adapter, regenerated, pipelineVars, wipe_scratch_after_use, used, verdict>>

(* The adapter panics, and the caller catches it and goes on.              *)
PagePanic ==
  /\ Serving("atlas")
  /\ call' = NoCall
  /\ unwound' = TRUE
  /\ UNCHANGED <<adapter, regenerated, pipelineVars, wipe_scratch_after_use, scratch, used, verdict>>

(* The reducer reads the page (what else is done with it is in CfrAtlas).  *)
PageUsed ==
  /\ Serving("atlas") /\ Complete
  /\ used' = [pc |-> "used", r |-> call.r, kv |-> SubSeq(scratch, 1, Size(call.r)),
              clean |-> ~unwound]
  /\ call' = NoCall
  /\ WipeIfEnabled
  /\ UNCHANGED <<adapter, regenerated, pipelineVars, wipe_scratch_after_use, verdict>>

-----------------------------------------------------------------------------
Init ==
  /\ PipelineInit
  /\ wipe_scratch_after_use \in BOOLEAN
  /\ scratch = << >> /\ unwound = FALSE /\ used = NoPage
  /\ verdict = NoReport

GateNext ==
  \/ \E r \in Requests : GateBegin(r)
  \/ Write("gate") /\ UNCHANGED <<atlasVars, verdict>>
  \/ RegeneratorFails("gate") /\ UNCHANGED <<atlasVars, verdict>>
  \/ GateReports

AtlasNext ==
  \/ \E r \in Requests : PageBegin(r)
  \/ PageWrite \/ PageError \/ PagePanic \/ PageUsed

(* Bound of the model: a runtime takes its pages from the pipeline or, past*)
(* the gate, from the atlas; the two share nothing but the adapter.        *)
Piped == verdict = NoReport /\ scratch = << >>

Next ==
  \/ Piped /\ PipelineNext /\ UNCHANGED <<atlasVars, verdict>>
  \/ history = << >> /\ (GateNext \/ AtlasNext)

Spec == Init /\ [][Next]_vars

-----------------------------------------------------------------------------
(* Properties.                                                             *)

Within(value, true) == value.of = true.of /\ value.off \in {"none", "near"}

PageWithin(kv, r) ==
  \A i \in 1 .. Size(r) : Within(kv[i].k, Truth(r, i)) /\ Within(kv[i].v, Truth(r, i))

(* A report passes only if every key and every value that the adapter      *)
(* makes of zeroed buffers is within the tolerance: a value that is not    *)
(* finite, a good key matrix with a bad value matrix, or a page checked    *)
(* before this one does not make it pass.                                  *)
VerdictIsTrue == verdict.passed => PageWithin(Made(verdict.r), verdict.r)

(* The gate is passed with zeroed buffers and used with dirty ones.  With  *)
(* the scratch wiped after use it still carries over: once some page has   *)
(* passed, every page the atlas uses is within the tolerance, whatever     *)
(* pages and failed regenerations came before, unless a panic was caught   *)
(* and left its rows.                                                      *)
GateHolds ==
  verdict.passed /\ wipe_scratch_after_use /\ used # NoPage =>
    (used.clean => PageWithin(used.kv, used.r))

=============================================================================
