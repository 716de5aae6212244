----------------------------- MODULE MCAgentRuns -----------------------------
(* Two agents with cards and one without.  "worker" may use the tool for a   *)
(* while, "other" has to ask; "kid" is what they delegate to.                *)
EXTENDS AgentRuns, TLC

CONSTANTS worker, other, kid, tool, star, m1, m2, a1, a2

Threads == Permutations(Callers) \cup Permutations(Admissions)

ToTool(spec) == [t \in Tools |-> IF t = tool THEN spec ELSE "none"]
AskFor == ToTool("ask")
SoftFor == ToTool("soft")

WorkerSoft == [a \in Agents |-> IF a = worker THEN SoftFor ELSE NoScope]
WorkerAsks == [a \in Agents |-> IF a = worker THEN AskFor ELSE NoScope]
Both == [a \in Agents |-> IF a = worker THEN SoftFor ELSE IF a = other THEN AskFor ELSE NoScope]

AnyWant == {AskFor, SoftFor}
OnlySoft == {SoftFor}

Quotas(c, s, d, i, f) == [k \in Kinds |->
  CASE k = "create" -> c [] k = "spawn" -> s [] k = "delegate" -> d
    [] k = "call" -> i [] k = "finish" -> f]
Calling == Quotas(0, 2, 0, 3, 1)
Delegating == Quotas(1, 1, 1, 2, 0)
Racing == Quotas(0, 2, 2, 0, 0)
===============================================================================
