------------------------- MODULE MCDecodeValidation -------------------------
EXTENDS DecodeValidation

(* Grouped and multi-query heads; a step past the prompt, a head past the  *)
(* topology, no vocabulary and a negative tolerance are refused, the first *)
(* and the last before the loop; the second token of a prompt is no exact  *)
(* f32.  Any two of the three loops turn twice.                            *)
MCPlans ==
  {p \in
    [prompt : {<<1, 2>>, <<1, 70>>}, layers : {<<1>>, <<2, 0>>},
     query_heads : {<<3>>, <<2, 1>>, <<4>>},
     decode_steps : {<<1>>, <<1, 0>>, <<0, 2>>, << >>},
     output_tolerance : {0, 1}, logit_tolerance : {-1, 1}, vocab_size : {0, 1},
     topology : {Topology("Gqa", 4, 2), Topology("Mqa", 4, 1)}] :
   Len(p.layers) * Len(p.query_heads) * Len(p.decode_steps) <= 4}

(* A client's step may have any number of layers and tokens, and a query   *)
(* of another length.                                                      *)
MCSteps ==
  [layers : {0, 2}, layer : {1, 2}, query_head : {3, 4}, context_tokens : {0, 1, 3},
   query_len : {2, 3}, output_tolerance : {-1, 1}, logit_tolerance : {0, 1},
   vocab_size : {0, 1}, topology : {Topology("Gqa", 4, 2)}]
=============================================================================
