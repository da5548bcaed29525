------------------------ MODULE MCDataParallelWaves ------------------------
(***************************************************************************)
(* DataParallelWaves for two engines: requests that race the end of a wave *)
(* an abort, and pauses of every mode.                                     *)
(***************************************************************************)
EXTENDS DataParallelWaves

CONSTANTS c1, r1, r2

MCClients  == {c1}
MCRequests == {r1, r2}

Base == [clients |-> {c1}, requests |-> {r1, r2}, sync_interval |-> 1, steps |-> 1,
         aborted |-> {}, modes |-> {}, add_resuming |-> FALSE, timer |-> FALSE]

MCConfigs ==
  {[Base EXCEPT !.sync_interval = 2, !.timer = TRUE],
   [Base EXCEPT !.requests = {r1}, !.steps = 2, !.modes = {"keep", "abort", "wait"}],
   [Base EXCEPT !.requests = {r1}, !.aborted = {r1}]}
=============================================================================
