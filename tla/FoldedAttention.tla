--------------------------- MODULE FoldedAttention ---------------------------
(***************************************************************************)
(* FoldedAttention of src/attention.rs: the online softmax reducer that a  *)
(* query folds its K/V pages into, one page per call, one row per step.    *)
(*                                                                         *)
(* Arithmetic is exact.  Logits are small naturals and exp(x) is 2^x, kept *)
(* as a multiple of One so that every rescaling divides evenly: what is    *)
(* checked is the algebra of the running maximum, not f64 rounding.  The   *)
(* components of a value row do not interact; one of them is modelled.     *)
(***************************************************************************)
EXTENDS Integers, Sequences, SequencesExt

CONSTANTS
  Logits,      (* the scaled dot products of query and key rows             *)
  Values,      (* the components of value rows                              *)
  LogitSpan,   (* bound of the model on Logits                              *)
  PageRows,    (* bound of the model on the rows of a page                  *)
  UsizeMax     (* usize::MAX, for the count of consumed tokens              *)

ASSUME FoldedAssumption ==
  /\ LogitSpan \in Nat
  /\ Logits \subseteq 0 .. LogitSpan
  /\ Values \subseteq Int
  /\ PageRows \in Nat \ {0}
  /\ UsizeMax \in Nat

VARIABLES
  max_logit,        (* NegInf before the first row                          *)
  denom,
  acc,
  logits,           (* the buffer, as long as the longest page so far       *)
  consumed_tokens,
  call,             (* the frame of consume_page                            *)
  output,           (* the caller's slice, a quotient; none at first        *)
  result,           (* how the last call ended                              *)
  rows              (* history: the rows of the pages accepted since reset  *)

reducer == <<max_logit, denom, acc, consumed_tokens>>
vars == <<max_logit, denom, acc, logits, consumed_tokens, call, output, result, rows>>

Row == [logit : Logits, value : Values]
Pages == UNION {[1 .. n -> Row] : n \in 1 .. PageRows}

NegInf == -1
One == 2 ^ LogitSpan

(* exp(x) for x <= 0, in units of One; the rescaling of x by exp(d).       *)
Exp(x) == 2 ^ (LogitSpan + x)
Rescaled(x, d) == (x * Exp(d)) \div One

Larger(a, b) == IF a >= b THEN a ELSE b

Idle == [pc |-> "idle"]
Zeroes(n) == [i \in 1 .. n |-> 0]

-----------------------------------------------------------------------------
Reset ==
  /\ call = Idle
  /\ max_logit' = NegInf
  /\ denom' = 0
  /\ acc' = 0
  /\ logits' = Zeroes(Len(logits))
  /\ consumed_tokens' = 0
  /\ rows' = << >>
  /\ result' = "reset"
  /\ UNCHANGED <<call, output>>

(* consume_page: no rows, slices of the wrong length, values that are not  *)
(* finite.                                                                 *)
ConsumeRefused ==
  /\ call = Idle
  /\ result' = "refused"
  /\ UNCHANGED <<reducer, logits, call, output, rows>>

CountOverflows(page) == consumed_tokens + Len(page) > UsizeMax

ConsumeOverflows(page) ==
  /\ call = Idle
  /\ CountOverflows(page)
  /\ result' = "overflow"
  /\ UNCHANGED <<reducer, logits, call, output, rows>>

(* broken is the row whose logit is not finite, 0 for none.  (No finite    *)
(* rows have such a logit with the kernels of src/kernel.rs; consume_page  *)
(* checks it nevertheless.)                                                *)
ConsumeBegin(page, broken) ==
  /\ call = Idle
  /\ ~CountOverflows(page)
  /\ logits' = Zeroes(Larger(Len(logits), Len(page)))
  /\ call' = [pc |-> "logits", page |-> page, row |-> 1, broken |-> broken]
  /\ UNCHANGED <<reducer, output, result, rows>>

(* The first loop: the logits of the whole page.                           *)
Logit ==
  /\ call.pc = "logits"
  /\ call.row <= Len(call.page) /\ call.row # call.broken
  /\ logits' = [logits EXCEPT ![call.row] = call.page[call.row].logit]
  /\ call' = [call EXCEPT !.row = @ + 1]
  /\ UNCHANGED <<reducer, output, result, rows>>

LogitNotFinite ==
  /\ call.pc = "logits"
  /\ call.row = call.broken
  /\ logits' = Zeroes(Len(logits))
  /\ call' = Idle
  /\ result' = "not_finite"
  /\ UNCHANGED <<reducer, output, rows>>

LogitsDone ==
  /\ call.pc = "logits"
  /\ call.row > Len(call.page)
  /\ call' = [call EXCEPT !.pc = "fold", !.row = 1]
  /\ UNCHANGED <<reducer, logits, output, result, rows>>

(* Mutants of consume_one: the accumulator is not rescaled; the first row  *)
(* of a page is taken for the maximum.                                     *)
FoldStaleAcc ==
  LET logit   == logits[call.row]
      new_max == Larger(max_logit, logit)
  IN  /\ call.pc = "fold" /\ call.row <= Len(call.page)
      /\ acc' = acc + call.page[call.row].value * Exp(logit - new_max)
      /\ denom' = (IF max_logit = NegInf THEN 0 ELSE Rescaled(denom, max_logit - new_max))
                    + Exp(logit - new_max)
      /\ max_logit' = new_max
      /\ call' = [call EXCEPT !.row = @ + 1]
      /\ UNCHANGED <<logits, consumed_tokens, output, result, rows>>

FoldUnweighted ==
  LET logit   == logits[call.row]
      new_max == Larger(max_logit, logit)
  IN  /\ call.pc = "fold" /\ call.row <= Len(call.page)
      /\ acc' = acc + call.page[call.row].value * One
      /\ denom' = (IF max_logit = NegInf THEN 0 ELSE Rescaled(denom, max_logit - new_max))
                    + Exp(logit - new_max)
      /\ max_logit' = new_max
      /\ call' = [call EXCEPT !.row = @ + 1]
      /\ UNCHANGED <<logits, consumed_tokens, output, result, rows>>

(* The second loop: consume_one for the next row.                          *)
Fold ==
  LET logit      == logits[call.row]
      new_max    == Larger(max_logit, logit)
      rescale(x) == IF max_logit = NegInf THEN 0 ELSE Rescaled(x, max_logit - new_max)
      new_weight == Exp(logit - new_max)
  IN  /\ call.pc = "fold" /\ call.row <= Len(call.page)
      /\ acc' = rescale(acc) + call.page[call.row].value * new_weight
      /\ denom' = rescale(denom) + new_weight
      /\ max_logit' = new_max
      /\ call' = [call EXCEPT !.row = @ + 1]
      /\ UNCHANGED <<logits, consumed_tokens, output, result, rows>>

ConsumeDone ==
  /\ call.pc = "fold" /\ call.row > Len(call.page)
  /\ consumed_tokens' = consumed_tokens + Len(call.page)
  /\ rows' = rows \o call.page
  /\ call' = Idle
  /\ result' = "ok"
  /\ UNCHANGED <<max_logit, denom, acc, logits, output>>

-----------------------------------------------------------------------------
(* finish_into.                                                            *)
Finishable == consumed_tokens # 0 /\ denom > 0

FinishRefused ==
  /\ call = Idle
  /\ ~Finishable
  /\ result' = "refused"
  /\ UNCHANGED <<reducer, logits, call, output, rows>>

(* The slice has the wrong length, or the quotient is past the range of    *)
(* f32.                                                                    *)
FinishFails ==
  /\ call = Idle
  /\ result' = "unwritten"
  /\ UNCHANGED <<reducer, logits, call, output, rows>>

Finish ==
  /\ call = Idle
  /\ Finishable
  /\ output' = [num |-> acc, den |-> denom]
  /\ result' = "ok"
  /\ UNCHANGED <<reducer, logits, call, rows>>

-----------------------------------------------------------------------------
Init ==
  /\ max_logit = NegInf
  /\ denom = 0
  /\ acc = 0
  /\ logits = << >>
  /\ consumed_tokens = 0
  /\ call = Idle
  /\ output = [num |-> 0, den |-> 0]
  /\ result = "none"
  /\ rows = << >>

ConsumeStep == Logit \/ LogitNotFinite \/ LogitsDone \/ Fold \/ ConsumeDone

Next ==
  \/ Reset
  \/ ConsumeRefused
  \/ \E page \in Pages :
       \/ ConsumeOverflows(page)
       \/ \E broken \in 0 .. Len(page) : ConsumeBegin(page, broken)
  \/ ConsumeStep
  \/ FinishRefused
  \/ FinishFails
  \/ Finish

Spec == Init /\ [][Next]_vars

-----------------------------------------------------------------------------
LargestLogit(s) == Max({NegInf} \cup {row.logit : row \in Range(s)})

(* direct_attention of bench/bench_transformers_cfr.rs, by which artifacts *)
(* are judged: the maximum first, then the normalizer, then the values.    *)
DirectAttention(s) ==
  LET weight == [i \in DOMAIN s |-> Exp(s[i].logit - LargestLogit(s))]
  IN  [num |-> SumFunction([i \in DOMAIN s |-> s[i].value * weight[i]]),
       den |-> SumFunction(weight)]

-----------------------------------------------------------------------------
(* Properties.                                                             *)

(* Sums over rows, with 2^logit as the weight of a row.                    *)
Mass(s) == SumFunction([i \in DOMAIN s |-> 2 ^ s[i].logit])
Moment(s) == SumFunction([i \in DOMAIN s |-> s[i].value * 2 ^ s[i].logit])

(* The rows that the reducer stands for: those of the pages it accepted,   *)
(* and in the second loop the rows that came before the current one.       *)
FoldedRows ==
  IF call.pc = "fold" THEN rows \o SubSeq(call.page, 1, call.row - 1) ELSE rows

(* The reducer is the softmax of its rows: relative to the largest logit,  *)
(* the denominator is their mass and the accumulator their moment.  It     *)
(* holds between any two rows and however the rows were cut into pages;    *)
(* and a page that fails, at whatever row, has left nothing in it.  The    *)
(* largest row weighs One, so the check of the denominator in finish_into  *)
(* never fires once a row was folded.                                      *)
FoldIsSoftmax ==
  LET s == FoldedRows
  IN  /\ s = << >> => <<max_logit, denom, acc>> = <<NegInf, 0, 0>>
      /\ s # << >> =>
           /\ max_logit = LargestLogit(s)
           /\ denom * 2 ^ max_logit = One * Mass(s)
           /\ acc * 2 ^ max_logit = One * Moment(s)
      /\ consumed_tokens = Len(rows)

(* What finish_into writes is the softmax-weighted mean of the values of   *)
(* all rows, free of the running maximum, and so lies between the smallest *)
(* and the largest of them; it is what an attention that sees the whole    *)
(* context at once gives.                                                  *)
OutputIsSoftmax ==
  [][output' # output =>
       /\ output'.num * Mass(rows) = output'.den * Moment(rows)
       /\ LET direct == DirectAttention(rows)
          IN  output'.num * direct.den = output'.den * direct.num
       /\ \E i, j \in DOMAIN rows :
            rows[i].value * output'.den <= output'.num /\ output'.num <= rows[j].value * output'.den]_vars

=============================================================================
