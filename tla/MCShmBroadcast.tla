--------------------------- MODULE MCShmBroadcast ---------------------------
(***************************************************************************)
(* ShmBroadcast with enough messages to go around the ring more than once, *)
(* in four environments: a quiet one, one in which the writer dies, one in *)
(* which the readers' queues are shut down, and one with timeouts.         *)
(***************************************************************************)
EXTENDS ShmBroadcast

Quiet   == [messages |-> 4, overflowing |-> {2}, timeouts |-> "never",
            crash |-> FALSE, shutdown |-> FALSE]
Dying   == [Quiet EXCEPT !.messages = 2, !.overflowing = {}, !.crash = TRUE]
Closing == [Quiet EXCEPT !.messages = 1, !.overflowing = {}, !.shutdown = TRUE]
Late    == [Quiet EXCEPT !.messages = 3, !.overflowing = {2}, !.timeouts = "fatal"]

MCEnvironments == {Quiet, Dying, Closing, Late}
=============================================================================
