----------------------- MODULE MCOffloadingConnector -----------------------
EXTENDS OffloadingConnector

CONSTANTS r1, r2, r3, r4

MCRequests == {r1, r2, r3, r4}
MCKeys == r1 :> <<"a", "b", "c", "d">> @@ r2 :> <<"a", "b", "e">> @@ r3 :> <<"f", "g", "h">>
          @@ r4 :> <<"a", "b", "i", "j">>
MCPromptLen == r1 :> 2 @@ r2 :> 2 @@ r3 :> 1 @@ r4 :> 3

Cfg(rs, w, g, c, q, a, s, p, z) ==
  [requests |-> rs, workers |-> w, gpu_blocks |-> g, cpu_blocks |-> c,
   batch_queue_size |-> q, aborts |-> a, stops |-> s, preemptions |-> p, resets |-> z]

\* Requests, workers, GPU blocks, host blocks, frames in flight; then how many aborts, stop
\* tokens, preemptions and resets of the connector's cache may happen.  In the last two r3
\* takes the blocks of r2, ends while a pass of it is in flight, and r2 loads its prefix,
\* which only the host still has, into the block that this pass will write.
MCConfigs ==
  {Cfg({r1, r2}, 1, 3, 2, 1, 1, 0, 0, 1), Cfg({r1, r2}, 2, 3, 2, 1, 0, 0, 0, 0),
   Cfg({r1, r2}, 1, 3, 2, 2, 0, 0, 1, 0), Cfg({r1, r2}, 1, 3, 2, 2, 1, 0, 0, 0),
   Cfg({r2, r3, r4}, 1, 3, 4, 1, 0, 0, 0, 0),
   Cfg({r2, r3}, 1, 2, 3, 2, 0, 1, 1, 0), Cfg({r2, r3}, 1, 2, 3, 2, 1, 0, 1, 0)}
=============================================================================
