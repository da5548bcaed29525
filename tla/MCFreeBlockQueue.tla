-------------------------- MODULE MCFreeBlockQueue --------------------------
(***************************************************************************)
(* FreeBlockQueue with a handful of blocks: every order of every subset of *)
(* the blocks is reached.                                                  *)
(***************************************************************************)
EXTENDS FreeBlockQueue
=============================================================================
