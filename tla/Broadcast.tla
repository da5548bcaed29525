------------------------------ MODULE Broadcast ------------------------------
(***************************************************************************)
(* What MessageQueue promises the executor and its workers: one log of     *)
(* messages that every reader gets completely and in order, and a writer   *)
(* that is never more than a ring of chunks ahead of any reader.           *)
(***************************************************************************)
EXTENDS Integers, Sequences

CONSTANTS Readers, MaxChunks

VARIABLES
  sent,                 \* number of messages sent; they are 1, 2, ..., sent
  received              \* what each reader got, in the order it got it

Init == sent = 0 /\ received = [r \in Readers |-> << >>]

Send ==
  /\ \A r \in Readers : sent <= Len(received[r]) + MaxChunks
  /\ sent' = sent + 1
  /\ UNCHANGED received

Receive(r) ==
  /\ Len(received[r]) < sent
  /\ received' = [received EXCEPT ![r] = Append(@, Len(@) + 1)]
  /\ UNCHANGED sent

Next == Send \/ \E r \in Readers : Receive(r)

Spec == Init /\ [][Next]_<<sent, received>>
=============================================================================
