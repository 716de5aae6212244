--------------------------- MODULE MCPermissionGate ---------------------------
(* Instances of the gate.  "Same": two calls share one binding.  "Tool": two  *)
(* calls of one tool with different arguments, the second one's posture       *)
(* closing what is not granted.                                               *)
EXTENDS PermissionGate, TLC

CONSTANTS c1, c2, b1, b2, t1

SameBinding == (c1 :> b1) @@ (c2 :> b1)
ToolBinding == (c1 :> b1) @@ (c2 :> b2)
ToolOfAll   == (b1 :> t1) @@ (b2 :> t1)
SecondClosed == (b1 :> "open") @@ (b2 :> "closed")
===============================================================================
