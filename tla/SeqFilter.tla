----------------------------- MODULE SeqFilter -----------------------------
(***************************************************************************)
(* The elements of a sequence that are in a set, in their order: what      *)
(* removing blocks or entries from an ordered queue or map leaves.         *)
(* SelectSeq is the same, but has no definition that proofs can unfold.    *)
(***************************************************************************)
EXTENDS Integers, Sequences

Keep(s, S) ==
  LET F[n \in 0 .. Len(s)] ==
        IF n = 0 THEN << >>
        ELSE IF s[n] \in S THEN Append(F[n - 1], s[n]) ELSE F[n - 1]
  IN  F[Len(s)]
=============================================================================
