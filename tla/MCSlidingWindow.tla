-------------------------- MODULE MCSlidingWindow --------------------------
(***************************************************************************)
(* SlidingWindow with blocks of two tokens and a window that moves over    *)
(* several of them, with and without drafts and steps in flight.           *)
(***************************************************************************)
EXTENDS SlidingWindow

\* Only drafters that use the KV cache have lookahead slots.
Config(spec, lookahead, depth) ==
  [spec |-> spec, lookahead |-> lookahead, depth |-> depth]

MCConfigs  == {Config(0, 0, 2), Config(2, 2, 1), Config(2, 0, 1), Config(1, 1, 2)}
Optimistic == {Config(2, 2, 2)}

Symmetry == Permutations(Requests)
=============================================================================
