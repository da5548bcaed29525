-------------------------- MODULE MCAsyncScheduler --------------------------
(***************************************************************************)
(* Requests that do not fit into the KV cache together at full length, so  *)
(* that they are preempted with outputs in flight, and whose tokens exceed *)
(* the token budget when they are computed again.                          *)
(***************************************************************************)
EXTENDS AsyncScheduler

CONSTANTS r1, r2, r3

MCPromptLen == [r \in Requests |-> IF r = r2 THEN 3 ELSE 2]
MCMaxTokens == [r \in Requests |-> IF r = r3 THEN 2 ELSE 4]
MCMinTokens == [r \in Requests |-> IF r = r2 THEN 2 ELSE 0]

Config(rs, spec, tokens, watermark, confidence, max_resets) ==
  [requests |-> rs, spec |-> spec, budget |-> tokens, watermark |-> watermark,
   confidence |-> confidence, max_resets |-> max_resets]

\* Drafts without a reset, a reset without drafts, and the confidence schedule with
\* prompts that are computed in one chunk.
MCConfigs ==
  {Config({r1, r2, r3}, 1, 4, 0, FALSE, 0),
   Config({r1, r2}, 0, 4, 1, FALSE, 1),
   Config({r1, r2}, 1, 8, 0, TRUE, 0)}

\* Drafts and a reset.
MCResetWithDrafts == {Config({r1}, 1, 4, 0, FALSE, 1)}
=============================================================================
