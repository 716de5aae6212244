------------------------------ MODULE MCPaneSend ------------------------------
(* "Retry": tries of one operation.  "Mixed": the same, but the second try     *)
(* has another text.                                                           *)
EXTENDS PaneSend, TLC

CONSTANTS r1, r2, r3, o1, t1, t2

SameOp     == [r \in Requests |-> o1]
RetryTexts == [r \in Requests |-> t1]
MixedTexts == [r \in Requests |-> IF r = r2 THEN t2 ELSE t1]

Retries == Permutations({r1, r2, r3})

\* The journal sorts the operation between the second ask and the first.
AskOrder == [k \in Keys |-> CASE k = 2 -> 0 [] k = o1 -> 1 [] k = 1 -> 2
                                [] OTHER -> k + 1]
===============================================================================
