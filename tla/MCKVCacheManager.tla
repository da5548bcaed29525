-------------------------- MODULE MCKVCacheManager --------------------------
(***************************************************************************)
(* Two requests whose prompts share a first block, two token values, and   *)
(* fewer blocks than both need at full length, so that blocks are shared,  *)
(* evicted and reused; under the asynchronous scheduler, with weight       *)
(* updates, and under the synchronous one with EAGLE's rules.              *)
(***************************************************************************)
EXTENDS KVCacheManager

CONSTANTS r1, r2

MCPrompt == (r1 :> <<0, 0, 0>>) @@ (r2 :> <<0, 0, 1>>)

Async == [max_len |-> 6, watermark |-> 0, full |-> FALSE, eagle |-> FALSE, async |-> TRUE,
          max_epoch |-> 0]

MCConfigs ==
  {Async,
   [Async EXCEPT !.max_len = 5, !.max_epoch = 1],
   [Async EXCEPT !.async = FALSE, !.eagle = TRUE, !.full = TRUE, !.watermark = 1]}
=============================================================================
