---------------------------- MODULE LossyChannel ----------------------------
(* What the frame queues of the firmware promise: frames may be lost, but  *)
(* whatever is delivered was put once, is delivered once, and comes in the *)
(* order it was put.                                                       *)
EXTENDS Naturals, Sequences, SequencesExt

CONSTANT Frame   \* what travels in the channel

VARIABLES
  transit,       \* frames put and neither delivered nor lost, oldest first
  delivered      \* frames delivered, in order

Init == transit = <<>> /\ delivered = <<>>

Put(f) ==
  /\ transit' = Append(transit, f)
  /\ UNCHANGED delivered

Lose(k) ==
  /\ transit' = RemoveAt(transit, k)
  /\ UNCHANGED delivered

Deliver ==
  /\ transit # <<>>
  /\ delivered' = Append(delivered, Head(transit))
  /\ transit' = Tail(transit)

Next ==
  \/ \E f \in Frame : Put(f)
  \/ \E k \in DOMAIN transit : Lose(k)
  \/ Deliver

Spec == Init /\ [][Next]_<<transit, delivered>>
=============================================================================
