----------------------------- MODULE FrameStream -----------------------------
(***************************************************************************)
(* What a binary pipe of src/host/typed_pipes.rs promises the two ends:    *)
(* frames come out in the order they were accepted, none is made up,       *)
(* doubled or skipped, and at most Slots of them are under way.  A stream  *)
(* that ends may cut off what is still under way; the next open of the     *)
(* same pipe starts an empty stream.                                       *)
(***************************************************************************)
EXTENDS Naturals, Sequences

CONSTANTS Frame, Slots

VARIABLES
  accepted,     \* frames the sender was told are on their way
  delivered,    \* frames written to the client
  open          \* whether the stream still carries frames

vars == <<accepted, delivered, open>>

Init == accepted = << >> /\ delivered = << >> /\ open = FALSE

Open ==
  /\ ~open
  /\ accepted' = << >> /\ delivered' = << >> /\ open' = TRUE

\* A frame may be accepted by a stream that has just ended: it is cut off.
Accept ==
  /\ Len(accepted) < Len(delivered) + Slots
  /\ \E f \in Frame : accepted' = Append(accepted, f)
  /\ UNCHANGED <<delivered, open>>

Deliver ==
  /\ open
  /\ Len(delivered) < Len(accepted)
  /\ delivered' = Append(delivered, accepted[Len(delivered) + 1])
  /\ UNCHANGED <<accepted, open>>

End == open /\ open' = FALSE /\ UNCHANGED <<accepted, delivered>>

Next == Open \/ Accept \/ Deliver \/ End

Spec == Init /\ [][Next]_vars
=============================================================================
