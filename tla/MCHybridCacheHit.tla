-------------------------- MODULE MCHybridCacheHit --------------------------
(***************************************************************************)
(* PrefixReplay and HybridCacheHit for several layouts at once: full       *)
(* attention with one or two windows, blocks of different sizes, EAGLE on  *)
(* all groups or on one.                                                   *)
(***************************************************************************)
EXTENDS PrefixReplay

Full(size, eagle)    == [full |-> TRUE, block_size |-> size, window |-> 0, use_eagle |-> eagle]
Sliding(size, window, eagle) ==
  [full |-> FALSE, block_size |-> size, window |-> window, use_eagle |-> eagle]

Layout(groups, alignment, lengths, retention) ==
  [groups |-> groups, alignment |-> alignment, lengths |-> lengths, retention |-> retention]

\* Searched with every content of the cache.
MCLayouts == {
  \* One full-attention group and one window: a single round.
  Layout(<<Full(2, FALSE), Sliding(1, 3, FALSE)>>, 2, {7}, Dense),
  Layout(<<Full(1, TRUE), Sliding(1, 3, TRUE)>>, 1, {6}, Dense),
  \* Two windows: the rounds repeat.
  Layout(<<Full(2, FALSE), Sliding(1, 2, FALSE), Sliding(1, 4, FALSE)>>, 2, {5}, Dense),
  \* One EAGLE window among groups that are none.
  Layout(<<Full(1, FALSE), Sliding(1, 2, TRUE), Sliding(1, 3, FALSE)>>, 1, {4}, Dense)}

Prompts == {3, 4, 7, 8, 9, 12, 13, 14, 16, 19}

\* Filled by a prefill in any chunks and then searched for the same prompt.
MCReplays == {
  Layout(<<Full(4, FALSE), Sliding(1, 3, TRUE), Sliding(2, 5, FALSE)>>, 4, Prompts, Dense),
  Layout(<<Full(4, FALSE), Sliding(1, 3, FALSE), Sliding(2, 5, FALSE)>>, 4, Prompts, Dense),
  Layout(<<Full(4, FALSE), Sliding(1, 3, FALSE), Sliding(2, 5, FALSE)>>, 4, Prompts, 0),
  Layout(<<Full(4, FALSE), Sliding(1, 3, FALSE), Sliding(2, 5, FALSE)>>, 4, Prompts, 8)}
=============================================================================
