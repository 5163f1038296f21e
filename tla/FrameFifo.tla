------------------------------ MODULE FrameFifo -----------------------------
(***************************************************************************)
(* What writing frames to a stream and reading them back promises: the     *)
(* frames that were written arrive unaltered, in the order they were       *)
(* written, and every one of them does arrive.                             *)
(***************************************************************************)
EXTENDS Naturals, Sequences

CONSTANT Frames  \* the frames that may be written

VARIABLES
  sent,     \* the frames that have been written
  received  \* the frames that have been read

vars == <<sent, received>>

Init == sent = <<>> /\ received = <<>>

Send(frame) == sent' = Append(sent, frame) /\ UNCHANGED received

Receive ==
  /\ Len(received) < Len(sent)
  /\ received' = Append(received, sent[Len(received) + 1])
  /\ UNCHANGED sent

Next == Receive \/ \E frame \in Frames : Send(frame)

Spec == Init /\ [][Next]_vars /\ WF_vars(Receive)

=============================================================================
