---------------------------- MODULE PromptCorpus ----------------------------
(***************************************************************************)
(* The prompts of src/validation.rs as sequences of token ids: the built-in *)
(* regression corpus, and the integers that a query may be computed from.  *)
(***************************************************************************)
EXTENDS Naturals, Sequences, SequencesExt

CONSTANT ExactMax   (* the integers up to it are exact in f32                *)

ASSUME ExactAssumption == ExactMax \in Nat

Vocabulary == 32000

PromptCase == Seq(Nat) \ {<< >>}

PatternedTokens(len, stride, offset) ==
  [i \in 1 .. len |-> (((i - 1) * stride + offset) % Vocabulary) + 1]

RepeatedPrompt(len, id) == [i \in 1 .. len |-> id]

(* One token for the speaker and seven for what is said.                   *)
DialogueTurn(turn) ==
  <<IF turn % 2 = 0 THEN 11 ELSE 13>> \o PatternedTokens(7, turn + 3, 29)

RegressionCorpus ==
  [short    |-> <<101, 734, 2048, 19, 87, 4096, 102>>,
   long     |-> PatternedTokens(2048, 17, 23),
   repeated |-> RepeatedPrompt(512, 42),
   code     |-> PatternedTokens(384, 31, 7),
   dialogue |-> FlattenSeq([t \in 1 .. 56 |-> DialogueTurn(t - 1)])]

(* A token id, step, layer, head or dimension goes into a query only when  *)
(* it is exact.                                                            *)
Exact(n) == n <= ExactMax

(* Every prompt of the corpus is a context that a ledger and a model of    *)
(* Vocabulary tokens can hold.                                             *)
ASSUME CorpusIsUsable ==
  \A shape \in DOMAIN RegressionCorpus :
    LET prompt == RegressionCorpus[shape]
    IN  prompt # << >> /\ \A i \in DOMAIN prompt : prompt[i] \in 1 .. Vocabulary

=============================================================================
