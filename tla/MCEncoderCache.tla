---------------------------- MODULE MCEncoderCache ----------------------------
(* Three requests that share inputs; the first has one twice, and a is large. *)
EXTENDS EncoderCache, TLC

CONSTANTS r1, r2, r3, a, b, c

MCRequests == {r1, r2, r3}
MCHashes   == {a, b, c}
MCSize     == a :> 2 @@ b :> 1 @@ c :> 1
MCFeatures == r1 :> <<b, a, b>> @@ r2 :> <<c, a>> @@ r3 :> <<b>>
MCPriority == r1 :> 3 @@ r2 :> 2 @@ r3 :> 1
=============================================================================
