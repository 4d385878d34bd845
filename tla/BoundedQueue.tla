----------------------------- MODULE BoundedQueue -----------------------------
(***************************************************************************)
(* What the engine's command queue promises: the commands it accepts are   *)
(* taken out once each, in the order they were accepted, and no more than  *)
(* Capacity of them are inside at any time.                                *)
(***************************************************************************)
EXTENDS Naturals, Sequences

CONSTANTS Commands, Capacity

VARIABLES
  accepted,  \* the commands put in since the queue was made
  taken      \* the commands taken out since then

Init == accepted = <<>> /\ taken = <<>>

Put(c) ==
  /\ Len(accepted) < Len(taken) + Capacity
  /\ accepted' = Append(accepted, c)
  /\ UNCHANGED taken

Take ==
  /\ Len(taken) < Len(accepted)
  /\ taken' = Append(taken, accepted[Len(taken) + 1])
  /\ UNCHANGED accepted

\* The process ends and its queue with it.
Reset == accepted' = <<>> /\ taken' = <<>>

Next == Take \/ Reset \/ \E c \in Commands : Put(c)

Spec == Init /\ [][Next]_<<accepted, taken>>
===============================================================================
