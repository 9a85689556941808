---------------------------- MODULE PageSizeTuner ----------------------------
(***************************************************************************)
(* PageSizeTuner::tune of src/tuning.rs: page sizes are doubled from the   *)
(* smallest one up, the last that fits the cache target and the scratch    *)
(* budget is taken, and the first that fits the budget if none fits both.  *)
(*                                                                         *)
(* s is the state of the loop: the page size it has come to, those it has  *)
(* considered, the one selected so far (0 for none), and how it stands     *)
(* ("loop") or ended ("done", "no_fit", "overflow").                       *)
(***************************************************************************)
EXTENDS MachineInts, Sequences, SequencesExt

InputFields ==
  {"head_dim", "min_page_tokens", "max_page_tokens", "l2_bytes", "l3_bytes",
   "max_scratch_bytes", "context_tokens"}

Smaller(a, b) == IF a <= b THEN a ELSE b
Larger(a, b) == IF a >= b THEN a ELSE b

ValidInput(input) ==
  /\ input.head_dim # 0
  /\ input.context_tokens # 0
  /\ input.min_page_tokens # 0 /\ input.max_page_tokens >= input.min_page_tokens
  /\ input.max_scratch_bytes # 0

(* Half of L2, at least a byte, at most a sixteenth of L3 and the budget.  *)
CacheTarget(input) ==
  LET most == Larger(input.l3_bytes \div 16, 1)
  IN  Smaller(Smaller(Larger(input.l2_bytes \div 2, 1), most), input.max_scratch_bytes)

FitsCache(input, tokens) == KvBytes(tokens, input.head_dim) <= CacheTarget(input)
FitsScratch(input, tokens) == KvBytes(tokens, input.head_dim) <= input.max_scratch_bytes
InRange(input, tokens) == tokens <= input.max_page_tokens /\ tokens <= input.context_tokens
Overflows(input, tokens) == KvBytes(tokens, input.head_dim) > UsizeMax

FirstTokens(input) == Smaller(input.min_page_tokens, input.context_tokens)

-----------------------------------------------------------------------------
Started(input) ==
  [page_tokens |-> FirstTokens(input), candidates |-> << >>, selected |-> 0, pc |-> "loop"]

(* Mutant: the first page size that is in cache is kept.                   *)
ConsiderFirst(input, s) ==
  IF Overflows(input, s.page_tokens) THEN [s EXCEPT !.pc = "overflow"]
  ELSE [s EXCEPT !.candidates = Append(@, s.page_tokens),
                 !.selected = IF FitsCache(input, s.page_tokens) /\ @ = 0
                                THEN s.page_tokens ELSE @,
                 !.page_tokens = 2 * @]

(* One turn of the loop.  The doubling is checked in the code; see         *)
(* SelectionIsBest of PureFunctions.                                       *)
Consider(input, s) ==
  IF Overflows(input, s.page_tokens) THEN [s EXCEPT !.pc = "overflow"]
  ELSE [page_tokens |-> 2 * s.page_tokens,
        candidates  |-> Append(s.candidates, s.page_tokens),
        selected    |-> IF FitsCache(input, s.page_tokens) /\ FitsScratch(input, s.page_tokens)
                          THEN s.page_tokens ELSE s.selected,
        pc          |-> "loop"]

Select(input, s) ==
  LET fits == {i \in DOMAIN s.candidates : FitsScratch(input, s.candidates[i])}
  IN  IF s.selected # 0 THEN [s EXCEPT !.pc = "done"]
      ELSE IF fits # {} THEN [s EXCEPT !.selected = s.candidates[Min(fits)], !.pc = "done"]
      ELSE [s EXCEPT !.pc = "no_fit"]

Turn(input, s) ==
  CASE s.pc # "loop" -> s
    [] s.pc = "loop" /\ InRange(input, s.page_tokens) -> Consider(input, s)
    [] s.pc = "loop" /\ ~InRange(input, s.page_tokens) -> Select(input, s)

(* Where the loop stands after so many turns.                              *)
After(input, turns) ==
  FoldLeft(LAMBDA s, n : Turn(input, s), Started(input), [n \in 1 .. turns |-> n])

(* One turn for every page size that usize can hold, and one to select.    *)
Tuned(input) ==
  IF ValidInput(input) THEN After(input, UsizeBits + 1)
                       ELSE [Started(input) EXCEPT !.pc = "refused"]

-----------------------------------------------------------------------------
(* What callers of tune rely on, of its result s.                          *)

(* The page sizes that tune may choose from.                               *)
PageSizes(input) ==
  {tokens \in {FirstTokens(input) * 2 ^ j : j \in 0 .. UsizeBits} : InRange(input, tokens)}

(* The answer is the largest page size that stays in cache within the      *)
(* budget, or else the smallest within the budget; tune says there is none *)
(* only if no page size is within the budget, and overflow only if some    *)
(* page size has more bytes than usize can count.                          *)
IsBestOf(input, s) ==
  LET budgeted == {tokens \in PageSizes(input) : FitsScratch(input, tokens)}
      cached   == {tokens \in budgeted : FitsCache(input, tokens)}
  IN  /\ s.pc = "done" =>
           IF cached # {} THEN s.selected \in cached /\ \A t \in cached : t <= s.selected
                          ELSE s.selected \in budgeted /\ \A t \in budgeted : t >= s.selected
      /\ s.pc = "no_fit" => budgeted = {}
      /\ s.pc = "overflow" => \E t \in PageSizes(input) : Overflows(input, t)

=============================================================================
