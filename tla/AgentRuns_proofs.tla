--------------------------- MODULE AgentRuns_proofs ---------------------------
(***************************************************************************)
(* Proofs about the Agents API, for every number of callers, agents and    *)
(* tools.  TypeInv adds to TypeOK which record a caller holds at each step *)
(* and that it refers to runs that exist.  RunsStep says what a step may do *)
(* to the journal and StepMoves how a request comes by the copies it goes  *)
(* on with; on these rest the other invariants: what a person allowed      *)
(* (AllowInv, BorrowInv), what a run may execute (ScopeInv) and where the   *)
(* scope of a run comes from (SourceInv).                                  *)
(***************************************************************************)
EXTENDS AgentRuns, SequenceTheorems, TLAPS

Card == [scope : Scopes, by : Agents \cup {Nobody}, exists : BOOLEAN]
Run == [agent : Agents, parent : {NoRun} \cup RunIds, adm : Admissions \cup (RunIds \X Agents),
        active : BOOLEAN, scope : Scopes]

\* What a caller is serving: which fields there are, and that they refer to runs
\* that exist.
CreateRec ==
  {o \in [pc : {"exists", "write", "rows", "find", "consume"}, agent : Agents, want : Scopes,
          held : Scopes, run : {NoRun} \cup Runs, then : {"done", "find", "consume"},
          by : Agents \cup {Nobody}, tool : Tools \cup {"none"}, row : Slots \cup {"gone"},
          todo : SUBSET Tools] :
     /\ o.pc \in {"find", "consume"} => o.then = o.pc
     /\ o.then = "find" => o.run \in Runs
     /\ o.then = "consume" => o.run \in Runs /\ o.tool \in Tools
     /\ \A t \in o.todo : Allows(o.want[t])}
IssueRec == [pc : {"issue"}, agent : Agents, run : {NoRun} \cup Runs,
             adm : Admissions \cup (RunIds \X Agents), scope : Scopes]
RevokeRec == [pc : {"revoke"}, run : Runs]
AdmitRec == {o \in [pc : {"admit"}, agent : Agents, run : Runs, tool : Tools, scope : Scopes] :
               o.agent = runs[o.run].agent}
CommitRec == {o \in [pc : {"commit"}, agent : Agents, run : Runs, tool : Tools, scope : Scopes,
                     row : Slots \cup {"gone"}] :
                o.agent = runs[o.run].agent}
ConsumeRec == [pc : {"consume"}, run : Runs, tool : Tools, row : Slots \cup {"gone"}]

Op == {Idle} \cup CreateRec \cup IssueRec \cup RevokeRec \cup AdmitRec \cup CommitRec
      \cup ConsumeRec

LiveAsk == {q \in Ask : q.run \in Runs}

\* A soft grant that expires, with the copy of the card.
Syncing == [agent : Agents, tool : Tools, step : {"card", "write", "runs"}, seen : Card]

TypeInv ==
  /\ TypeOK
  /\ card \in [Agents -> Card]
  /\ runs \in Seq(Run)
  /\ issued \in Seq(Scopes) /\ ever \in Seq([Tools -> Nat])
  /\ op \in [Callers -> Op]
  /\ asks \subseteq LiveAsk
  /\ dec \in {[step |-> "idle"]} \cup [step : {"mint"}, ask : LiveAsk]
  /\ ran \subseteq Runs \X Tools \X ({NoRun} \cup RunIds)
  /\ expiring \subseteq Syncing

\* Scopes and ranks.
LEMMA ScopeTypes ==
  /\ NoScope \in Scopes /\ Everything \in Scopes
  /\ \A s \in Scopes, t \in Tools : SoftToAsk(s, t) \in Scopes /\ [s EXCEPT ![t] = "hard"] \in Scopes
  /\ \A s \in Scopes : Ranks(s) \in [Tools -> Nat]
<1>1. NoScope \in Scopes /\ Everything \in Scopes
  BY DEF NoScope, Everything, Scopes, Specs
<1>2. \A s \in Scopes, t \in Tools : SoftToAsk(s, t) \in Scopes /\ [s EXCEPT ![t] = "hard"] \in Scopes
  BY DEF SoftToAsk, Scopes, Specs
<1>3. \A x : Rank(x) \in Nat
  BY DEF Rank
<1>4. \A s \in Scopes : Ranks(s) \in [Tools -> Nat]
  BY <1>3 DEF Ranks
<1>5. QED BY <1>1, <1>2, <1>4

\* Where a caller stands says which record it is.
LEMMA OpByPc ==
  ASSUME NEW o \in Op
  PROVE  /\ o.pc \in {"exists", "write", "rows", "find"} => o \in CreateRec
         /\ o.pc = "issue" => o \in IssueRec
         /\ o.pc = "revoke" => o \in RevokeRec
         /\ o.pc = "admit" => o \in AdmitRec
         /\ o.pc = "commit" => o \in CommitRec
         /\ o.pc = "consume" => o \in CreateRec \cup ConsumeRec
<1>1. o \in CreateRec => o.pc \in {"exists", "write", "rows", "find", "consume"}
  BY DEF CreateRec
<1>2. o \in IssueRec => o.pc = "issue"
  BY DEF IssueRec
<1>3. o \in RevokeRec => o.pc = "revoke"
  BY DEF RevokeRec
<1>4. o \in AdmitRec => o.pc = "admit"
  BY DEF AdmitRec
<1>5. o \in CommitRec => o.pc = "commit"
  BY DEF CommitRec
<1>6. o \in ConsumeRec => o.pc = "consume"
  BY DEF ConsumeRec
<1>7. o = Idle => o.pc = "idle"
  BY DEF Idle
<1>8. QED BY <1>1, <1>2, <1>3, <1>4, <1>5, <1>6, <1>7 DEF Op

LEMMA InitTypeInv == ASSUME Init PROVE TypeInv
<1>1. << >> \in Seq(Run) /\ << >> \in Seq(Scopes) /\ << >> \in Seq([Tools -> Nat])
      /\ Len(<< >>) = 0 /\ DOMAIN << >> = {}
  BY EmptySeq
<1>2. card \in [Agents -> Card]
  BY AgentsAssumption, ScopeTypes DEF AgentsAssumption, Init, Card, NoCard, CardOf
<1>3. rows \in [Agents -> [Tools -> Row]]
  BY DEF Init, Row, NoRow, Allows
<1>4. op \in [Callers -> Op]
  BY DEF Init, Op
<1>5. Runs = {}
  BY <1>1 DEF Init, Runs
<1>6. \A a \in Agents : card[a].scope \in Scopes /\ card[a].exists \in BOOLEAN
  BY <1>2 DEF Card
<1>7. MaxRuns \in Nat /\ Len(runs) <= MaxRuns
  BY <1>1, AgentsAssumption DEF Init, AgentsAssumption
<1>8. TypeOK
  BY <1>1, <1>3, <1>5, <1>6, <1>7 DEF Init, TypeOK
<1>9. QED BY <1>1, <1>2, <1>4, <1>8 DEF Init, TypeInv

-------------------------------------------------------------------------------
(* What a step may do to the journal of runs.                                 *)

\* A record is added, or the records there are keep everything but their scope
\* and stay finished.
RunsKept ==
  /\ Runs \subseteq Runs'
  /\ \A r \in Runs : /\ runs'[r].agent = runs[r].agent /\ runs'[r].adm = runs[r].adm
                     /\ runs'[r].parent = runs[r].parent
                     /\ runs'[r].active => runs[r].active
                     /\ issued'[r] = issued[r]

\* The one step that adds a run, and what its guards say.
Added(c) ==
  /\ op[c].pc = "issue"
  /\ ~AdmittedBefore(op[c].agent, op[c].adm)
  /\ FreeAgent(op[c].agent)
  /\ Len(runs) < MaxRuns
  /\ runs' = Append(runs, [agent |-> op[c].agent, parent |-> op[c].run, adm |-> op[c].adm,
                           active |-> TRUE, scope |-> op[c].scope])
  /\ issued' = Append(issued, op[c].scope)
  /\ ever' = Append(ever, Ranks(op[c].scope))

\* Finished: the run ends.  Widened: it gets the tool a person
\* allowed it.  Synced: a soft grant of its agent became an ask.
Finished(r) == runs' = [runs EXCEPT ![r].active = FALSE] /\ UNCHANGED <<issued, ever>>
Widened(r, t) ==
  /\ runs' = Widen(r, t) /\ ever' = [ever EXCEPT ![r][t] = 3] /\ UNCHANGED issued
  /\ <<r, t>> \in approved'
Synced(a, t) ==
  /\ runs' = [r \in Runs |-> IF runs[r].active /\ runs[r].agent = a
                             THEN [runs[r] EXCEPT !.scope = SoftToAsk(@, t)] ELSE runs[r]]
  /\ UNCHANGED <<issued, ever>>

\* What these do to the sequences.
LEMMA FinishedEffect ==
  ASSUME TypeInv, NEW r \in Runs, Finished(r)
  PROVE  /\ runs' \in Seq(Run) /\ Len(runs') = Len(runs) /\ Runs' = Runs
         /\ \A s \in Runs : runs'[s] = IF s = r THEN [runs[s] EXCEPT !.active = FALSE] ELSE runs[s]
<1>1. runs \in Seq(Run) /\ Runs = 1 .. Len(runs) /\ runs[r] \in Run
  BY LenProperties, ElementOfSeq DEF TypeInv, Runs
<1>2. [runs[r] EXCEPT !.active = FALSE] \in Run
  BY <1>1 DEF Run
<1>3. /\ runs' \in Seq(Run) /\ Len(runs') = Len(runs)
      /\ \A s \in 1 .. Len(runs) :
           runs'[s] = IF s = r THEN [runs[r] EXCEPT !.active = FALSE] ELSE runs[s]
  BY <1>1, <1>2, ExceptSeq DEF Finished
<1>4. Runs' = Runs
  BY <1>1, <1>3, LenProperties DEF Runs
<1>5. QED BY <1>1, <1>3, <1>4

LEMMA WidenedEffect ==
  ASSUME TypeInv, NEW r \in Runs, NEW t \in Tools, Widened(r, t)
  PROVE  /\ runs' \in Seq(Run) /\ Len(runs') = Len(runs) /\ Runs' = Runs
         /\ \A s \in Runs : runs'[s] = IF s = r THEN [runs[s] EXCEPT !.scope[t] = "hard"] ELSE runs[s]
         /\ ever' \in Seq([Tools -> Nat]) /\ Len(ever') = Len(ever)
<1>1. /\ runs \in Seq(Run) /\ Runs = 1 .. Len(runs) /\ runs[r] \in Run
      /\ ever \in Seq([Tools -> Nat]) /\ Len(ever) = Len(runs)
      /\ ever[r] \in [Tools -> Nat]
  BY LenProperties, ElementOfSeq DEF TypeInv, TypeOK, Runs
<1>2. [runs[r] EXCEPT !.scope[t] = "hard"] \in Run /\ [ever[r] EXCEPT ![t] = 3] \in [Tools -> Nat]
  BY <1>1 DEF Run, Scopes, Specs
<1>3. /\ runs' = [runs EXCEPT ![r] = [runs[r] EXCEPT !.scope[t] = "hard"]]
      /\ ever' = [ever EXCEPT ![r] = [ever[r] EXCEPT ![t] = 3]]
  BY <1>1 DEF Widened, Widen
<1>4. /\ runs' \in Seq(Run) /\ Len(runs') = Len(runs)
      /\ \A s \in 1 .. Len(runs) :
           runs'[s] = IF s = r THEN [runs[r] EXCEPT !.scope[t] = "hard"] ELSE runs[s]
  <2>1. PICK new \in Run : new = [runs[r] EXCEPT !.scope[t] = "hard"]
    BY <1>2
  <2>2. runs' = [runs EXCEPT ![r] = new]
    BY <1>3, <2>1
  <2>3. /\ runs' \in Seq(Run) /\ Len(runs') = Len(runs)
        /\ \A s \in 1 .. Len(runs) : runs'[s] = IF s = r THEN new ELSE runs[s]
    BY <1>1, <2>2, ExceptSeq
  <2>4. QED BY <2>1, <2>3
<1>5. ever' \in Seq([Tools -> Nat]) /\ Len(ever') = Len(ever)
  BY <1>1, <1>2, <1>3, ExceptSeq
<1>6. Runs' = Runs
  BY <1>1, <1>4, LenProperties DEF Runs
<1>7. QED BY <1>1, <1>4, <1>5, <1>6

LEMMA SyncedEffect ==
  ASSUME TypeInv, NEW a \in Agents, NEW t \in Tools, Synced(a, t)
  PROVE  /\ runs' \in Seq(Run) /\ Len(runs') = Len(runs) /\ Runs' = Runs
         /\ \A s \in Runs : \/ runs'[s] = runs[s]
                            \/ runs'[s] = [runs[s] EXCEPT !.scope = SoftToAsk(@, t)]
<1>1. /\ runs \in Seq(Run) /\ Runs = 1 .. Len(runs) /\ Len(runs) \in Nat
      /\ \A s \in Runs : runs[s] \in Run
  BY LenProperties, ElementOfSeq DEF TypeInv, Runs
<1>2. \A s \in Runs : [runs[s] EXCEPT !.scope = SoftToAsk(@, t)] \in Run
  BY <1>1, ScopeTypes DEF Run
<1>3. \A s \in Runs : /\ runs'[s] \in Run
                      /\ \/ runs'[s] = runs[s]
                         \/ runs'[s] = [runs[s] EXCEPT !.scope = SoftToAsk(@, t)]
  BY <1>1, <1>2 DEF Synced
<1>4. runs' = [s \in 1 .. Len(runs) |-> runs'[s]]
  BY <1>1 DEF Synced
<1>5. runs' \in Seq(Run) /\ Len(runs') = Len(runs) /\ DOMAIN runs' = 1 .. Len(runs)
  BY <1>1, <1>3, <1>4, IsASeq, LenProperties
<1>6. QED BY <1>1, <1>3, <1>5 DEF Runs

LEMMA AddedEffect ==
  ASSUME TypeInv, NEW c \in Callers, Added(c)
  PROVE  /\ op[c] \in IssueRec
         /\ runs' \in Seq(Run) /\ Len(runs') <= MaxRuns
         /\ issued' \in Seq(Scopes) /\ Len(issued') = Len(runs')
         /\ ever' \in Seq([Tools -> Nat]) /\ Len(ever') = Len(runs')
         /\ \E n \in RunIds :
              /\ Runs' = Runs \cup {n} /\ n \notin Runs /\ op[c].run < n
              /\ \A s \in Runs : runs'[s] = runs[s] /\ issued'[s] = issued[s]
              /\ runs'[n] = [agent |-> op[c].agent, parent |-> op[c].run, adm |-> op[c].adm,
                             active |-> TRUE, scope |-> op[c].scope]
              /\ issued'[n] = op[c].scope
<1>1. op[c] \in IssueRec
  BY OpByPc DEF TypeInv, Added
<1>2. /\ runs \in Seq(Run) /\ Runs = 1 .. Len(runs) /\ Len(runs) \in Nat
      /\ issued \in Seq(Scopes) /\ Len(issued) = Len(runs)
      /\ ever \in Seq([Tools -> Nat]) /\ Len(ever) = Len(runs)
      /\ MaxRuns \in Nat
  BY LenProperties, AgentsAssumption DEF TypeInv, TypeOK, Runs, AgentsAssumption
<1>3. DEFINE new == [agent |-> op[c].agent, parent |-> op[c].run, adm |-> op[c].adm,
                     active |-> TRUE, scope |-> op[c].scope]
<1>4. new \in Run /\ op[c].scope \in Scopes
  BY <1>1, <1>2 DEF IssueRec, Run, RunIds, TypeInv, TypeOK
<1>5. runs' = Append(runs, new) /\ issued' = Append(issued, op[c].scope) /\ Len(runs) < MaxRuns
      /\ ever' = Append(ever, Ranks(op[c].scope))
  BY DEF Added
<1> HIDE DEF new
<1>6. /\ runs' \in Seq(Run) /\ Len(runs') = Len(runs) + 1
      /\ \A s \in 1 .. Len(runs) : runs'[s] = runs[s]
      /\ runs'[Len(runs) + 1] = new
  BY <1>2, <1>4, <1>5, AppendProperties
<1>7. /\ issued' \in Seq(Scopes) /\ Len(issued') = Len(issued) + 1
      /\ \A s \in 1 .. Len(issued) : issued'[s] = issued[s]
      /\ issued'[Len(issued) + 1] = op[c].scope
  BY <1>2, <1>4, <1>5, AppendProperties
<1>8. ever' \in Seq([Tools -> Nat]) /\ Len(ever') = Len(ever) + 1
  BY <1>2, <1>4, <1>5, ScopeTypes, AppendProperties
<1>9. Runs' = 1 .. Len(runs) + 1
  BY <1>6, LenProperties DEF Runs
<1>10. PICK n : n = Len(runs) + 1
  OBVIOUS
<1>11. Runs' = Runs \cup {n} /\ n \notin Runs /\ n \in RunIds /\ n <= MaxRuns /\ op[c].run < n
  BY <1>1, <1>2, <1>5, <1>9, <1>10 DEF RunIds, IssueRec, NoRun
<1>12. /\ \A s \in Runs : runs'[s] = runs[s] /\ issued'[s] = issued[s]
       /\ runs'[n] = new /\ issued'[n] = op[c].scope
       /\ Len(issued') = Len(runs') /\ Len(ever') = Len(runs') /\ Len(runs') = n
  BY <1>2, <1>6, <1>7, <1>8, <1>10
<1>13. QED BY <1>1, <1>6, <1>7, <1>8, <1>11, <1>12 DEF new

\* A run in the journal has a number and a record.
LEMMA RunIsRun ==
  ASSUME TypeInv, NEW r \in Runs
  PROVE  runs[r] \in Run /\ r \in RunIds
<1>1. runs \in Seq(Run) /\ Len(runs) <= MaxRuns /\ MaxRuns \in Nat
  BY AgentsAssumption DEF TypeInv, TypeOK, AgentsAssumption
<1>2. Runs = 1 .. Len(runs) /\ Len(runs) \in Nat
  BY <1>1, LenProperties DEF Runs
<1>3. runs[r] \in Run
  BY <1>1, <1>2, ElementOfSeq
<1>4. QED BY <1>1, <1>2, <1>3 DEF RunIds

\* The five things a step can do to the journal.
LEMMA RunsStep ==
  ASSUME TypeInv, [Next]_vars
  PROVE  \/ UNCHANGED <<runs, issued, ever>>
         \/ \E c \in Callers : Added(c)
         \/ \E r \in Runs : Finished(r)
         \/ \E r \in Runs, t \in Tools : Widened(r, t)
         \/ \E a \in Agents, t \in Tools : Synced(a, t)
<1>1. CASE UNCHANGED vars
  BY <1>1 DEF vars, world, history
<1>2. ASSUME NEW c \in Callers, Request(c), ~Issue(c), ~StartFinish(c)
      PROVE  UNCHANGED <<runs, issued, ever>>
  BY <1>2 DEF Request, StartCreate, RefuseCreate, TakeExisting, NoneExists, WriteCard,
       RecordScope, StartSpawn, StartDelegate, FindChild, RevokeRows, StartCall, Admit, Commit,
       Consume, world, history
<1>3. ASSUME NEW c \in Callers, Issue(c)
      PROVE  Added(c) \/ UNCHANGED <<runs, issued, ever>>
  BY <1>3 DEF Issue, Added
<1>4. ASSUME NEW c \in Callers, StartFinish(c)
      PROVE  \E r \in Runs : Finished(r)
  BY <1>4 DEF StartFinish, Finished, history
<1>5. ASSUME NEW q \in asks, AllowAsk(q)
      PROVE  \/ UNCHANGED <<runs, issued, ever>>
             \/ \E r \in Runs, t \in Tools : Widened(r, t)
  BY <1>5 DEF AllowAsk, Widened, Target, TypeInv, LiveAsk, Ask
<1>6. ASSUME Person, \A q \in asks : ~AllowAsk(q)
      PROVE  UNCHANGED <<runs, issued, ever>>
  BY <1>6 DEF Person, DenyAsk, AllowCall, DenyCall, MintRunOnly, history
<1>7. ASSUME NEW a \in Agents, NEW t \in Tools, Lapse(a, t) \/ Expire(a, t)
      PROVE  UNCHANGED <<runs, issued, ever>>
  BY <1>7 DEF Lapse, Expire, history
<1>8. ASSUME NEW e \in expiring, ReadCard(e) \/ SyncCard(e) \/ SyncRuns(e)
      PROVE  \/ UNCHANGED <<runs, issued, ever>>
             \/ \E a \in Agents, t \in Tools : Synced(a, t)
  <2>1. e.agent \in Agents /\ e.tool \in Tools
    BY DEF TypeInv, Syncing
  <2>2. Synced(e.agent, e.tool) \/ UNCHANGED <<runs, issued, ever>>
    BY <1>8 DEF ReadCard, SyncCard, SyncRuns, Synced, history
  <2>3. QED BY <2>1, <2>2
<1>9. QED BY <1>1, <1>2, <1>3, <1>4, <1>5, <1>6, <1>7, <1>8 DEF Next, Clock

\* The journal keeps its shape, and no record changes its agent, its admission, its
\* parent or comes back to life.
LEMMA StepRuns ==
  ASSUME TypeInv, [Next]_vars
  PROVE  /\ runs' \in Seq(Run) /\ Len(runs') <= MaxRuns
         /\ issued' \in Seq(Scopes) /\ Len(issued') = Len(runs')
         /\ ever' \in Seq([Tools -> Nat]) /\ Len(ever') = Len(runs')
         /\ \A r \in Runs' : runs'[r].parent < r
         /\ RunsKept
<1>1. /\ runs \in Seq(Run) /\ issued \in Seq(Scopes) /\ ever \in Seq([Tools -> Nat])
      /\ Len(issued) = Len(runs) /\ Len(ever) = Len(runs) /\ Len(runs) <= MaxRuns
      /\ \A r \in Runs : runs[r].parent < r /\ runs[r] \in Run
  BY LenProperties, ElementOfSeq DEF TypeInv, TypeOK, Runs
<1>2. CASE UNCHANGED <<runs, issued, ever>>
  BY <1>1, <1>2 DEF RunsKept, Runs
<1>3. ASSUME NEW c \in Callers, Added(c)
      PROVE  (\A r \in Runs' : runs'[r].parent < r) /\ RunsKept
  <2>1. PICK n \in RunIds :
          /\ Runs' = Runs \cup {n} /\ n \notin Runs /\ op[c].run < n
          /\ \A s \in Runs : runs'[s] = runs[s] /\ issued'[s] = issued[s]
          /\ runs'[n] = [agent |-> op[c].agent, parent |-> op[c].run, adm |-> op[c].adm,
                         active |-> TRUE, scope |-> op[c].scope]
    BY <1>3, AddedEffect
  <2>2. QED BY <1>1, <2>1 DEF RunsKept
<1>4. ASSUME NEW r \in Runs, Finished(r)
      PROVE  /\ runs' \in Seq(Run) /\ Len(runs') = Len(runs) /\ UNCHANGED <<issued, ever>>
             /\ \A s \in Runs' : runs'[s].parent < s
             /\ RunsKept
  <2>1. /\ runs' \in Seq(Run) /\ Len(runs') = Len(runs) /\ Runs' = Runs
        /\ \A s \in Runs : runs'[s] = IF s = r THEN [runs[s] EXCEPT !.active = FALSE] ELSE runs[s]
        /\ UNCHANGED <<issued, ever>>
    BY <1>4, FinishedEffect DEF Finished
  <2>2. QED BY <1>1, <2>1 DEF RunsKept, Run
<1>5. ASSUME NEW r \in Runs, NEW t \in Tools, Widened(r, t)
      PROVE  (\A s \in Runs' : runs'[s].parent < s) /\ RunsKept /\ UNCHANGED issued
  <2>1. /\ Runs' = Runs
        /\ \A s \in Runs : runs'[s] = IF s = r THEN [runs[s] EXCEPT !.scope[t] = "hard"] ELSE runs[s]
        /\ UNCHANGED issued
    BY <1>5, WidenedEffect DEF Widened
  <2>2. QED BY <1>1, <2>1 DEF RunsKept, Run
<1>6. ASSUME NEW a \in Agents, NEW t \in Tools, Synced(a, t)
      PROVE  (\A s \in Runs' : runs'[s].parent < s) /\ RunsKept /\ UNCHANGED <<issued, ever>>
  <2>1. /\ Runs' = Runs
        /\ \A s \in Runs : \/ runs'[s] = runs[s]
                           \/ runs'[s] = [runs[s] EXCEPT !.scope = SoftToAsk(@, t)]
        /\ UNCHANGED <<issued, ever>>
    BY <1>6, SyncedEffect DEF Synced
  <2>2. QED BY <1>1, <2>1 DEF RunsKept, Run
<1>7. QED
  BY <1>1, <1>2, <1>3, <1>4, <1>5, <1>6, RunsStep, AddedEffect, WidenedEffect, SyncedEffect

\* What a request held before the step it holds after it.
LEMMA OpKept ==
  ASSUME RunsKept, NEW o \in Op
  PROVE  o \in Op'
<1>1. \A r \in Runs : r \in Runs' /\ runs'[r].agent = runs[r].agent
  BY DEF RunsKept
<1>2. /\ o \in CreateRec => o \in CreateRec'
      /\ o \in IssueRec => o \in IssueRec'
      /\ o \in RevokeRec => o \in RevokeRec'
      /\ o \in AdmitRec => o \in AdmitRec'
      /\ o \in CommitRec => o \in CommitRec'
      /\ o \in ConsumeRec => o \in ConsumeRec'
  BY <1>1 DEF CreateRec, IssueRec, RevokeRec, AdmitRec, CommitRec, ConsumeRec
<1>3. QED BY <1>2 DEF Op

-------------------------------------------------------------------------------
(* What a step may do to the asks.                                            *)

\* An ask is added for a run and a tool, and that is on record.
Filing(r, t) ==
  /\ \A q \in asks' : q \in asks \/ (q \in Ask /\ q.run = r /\ q.tool = t)
  /\ filed' = filed \cup {<<r, t>>}

LEMMA FileEffect ==
  ASSUME TypeInv, NEW r \in Runs, NEW t \in Tools, File(r, t) \/ FileOwn(r, t)
  PROVE  Filing(r, t)
<1>1. runs[r] \in Run /\ r \in RunIds
  BY RunIsRun
<1>2. PICK tag \in RunIds :
        /\ asks' = IF \E q \in asks : q.tag = tag /\ q.tool = t THEN asks
                   ELSE asks \cup {[tag |-> tag, run |-> r, tool |-> t]}
        /\ filed' = filed \cup {<<r, t>>}
  BY <1>1 DEF File, FileOwn, Run
<1>3. [tag |-> tag, run |-> r, tool |-> t] \in Ask
  BY <1>1 DEF Ask
<1>4. QED BY <1>2, <1>3 DEF Filing

\* What a step does to the asks: one may be filed, some may go.
LEMMA StepAsks ==
  ASSUME TypeInv, [Next]_vars
  PROVE  \/ asks' \subseteq asks /\ UNCHANGED filed
         \/ \E r \in Runs, t \in Tools : Filing(r, t)
<1>1. CASE UNCHANGED vars
  BY <1>1 DEF vars, world, history
<1>2. ASSUME NEW c \in Callers, RefuseCreate(c)
      PROVE  UNCHANGED <<asks, filed>> \/ \E r \in Runs, t \in Tools : Filing(r, t)
  <2>1. op[c].run \in {NoRun} \cup Runs
    BY <1>2, OpByPc DEF RefuseCreate, TypeInv, CreateRec
  <2>2. QED BY <1>2, <2>1, FileEffect DEF RefuseCreate, Uncovered
<1>3. ASSUME NEW c \in Callers, StartCall(c) \/ Admit(c) \/ Commit(c)
      PROVE  UNCHANGED <<asks, filed>> \/ \E r \in Runs, t \in Tools : Filing(r, t)
  <2>1. CASE StartCall(c)
    BY <2>1, FileEffect DEF StartCall
  <2>2. CASE Commit(c)
    <3>1. op[c].run \in Runs /\ op[c].tool \in Tools
      BY <2>2, OpByPc DEF Commit, TypeInv, CommitRec
    <3>2. QED BY <2>2, <3>1, FileEffect DEF Commit
  <2>3. CASE Admit(c)
    <3>1. op[c].run \in Runs /\ op[c].tool \in Tools
      BY <2>3, OpByPc DEF Admit, TypeInv, AdmitRec
    <3>2. UNCHANGED <<asks, filed>> \/ File(op[c].run, op[c].tool)
      BY <2>3 DEF Admit
    <3>3. QED BY <3>1, <3>2, FileEffect
  <2>4. QED BY <1>3, <2>1, <2>2, <2>3
<1>4. ASSUME NEW c \in Callers, Request(c), ~RefuseCreate(c), ~StartCall(c), ~Admit(c), ~Commit(c)
      PROVE  UNCHANGED <<asks, filed>>
  BY <1>4 DEF Request, StartCreate, TakeExisting, NoneExists, WriteCard, RecordScope, StartSpawn,
       StartDelegate, FindChild, Issue, StartFinish, RevokeRows, Consume, world, history
<1>5. CASE Person
  BY <1>5 DEF Person, DenyAsk, AllowAsk, AllowCall, DenyCall, MintRunOnly, history
<1>6. CASE Clock
  BY <1>6 DEF Clock, Lapse, Expire, ReadCard, SyncCard, SyncRuns, history
<1>7. QED BY <1>1, <1>2, <1>3, <1>4, <1>5, <1>6 DEF Next

-------------------------------------------------------------------------------
(* Every variable keeps its shape.                                            *)

\* A request that creates an agent, as it starts.
LEMMA CreateType ==
  ASSUME NEW a \in Agents, NEW want \in Scopes, NEW held \in Scopes, NEW by \in Agents \cup {Nobody},
         NEW run \in {NoRun} \cup Runs, NEW then \in {"done", "find", "consume"},
         NEW tool \in Tools \cup {"none"}, NEW row \in Slots \cup {"gone"},
         then # "done" => run \in Runs, then = "consume" => tool \in Tools
  PROVE  [Create(a, want, held, run, then, by, tool) EXCEPT !.row = row] \in Op
<1>1. [Create(a, want, held, run, then, by, tool) EXCEPT !.row = row] \in CreateRec
  BY DEF Create, CreateRec
<1>2. QED BY <1>1 DEF Op

\* A request goes on to another step of the creation, or to what follows it.
LEMMA CreateMove ==
  ASSUME NEW o \in CreateRec, NEW pc \in {"write", "find", "consume"},
         pc \in {"find", "consume"} => o.then = pc
  PROVE  [o EXCEPT !.pc = pc] \in Op
<1>1. [o EXCEPT !.pc = pc] \in CreateRec
  BY DEF CreateRec
<1>2. QED BY <1>1 DEF Op

\* The card is written; the rows of the tools it allows are left to do.
LEMMA CreateToRows ==
  ASSUME NEW o \in CreateRec
  PROVE  [o EXCEPT !.pc = "rows", !.todo = {t \in Tools : Allows(o.want[t])}] \in Op
<1>1. PICK todo \in SUBSET Tools : todo = {t \in Tools : Allows(o.want[t])}
  OBVIOUS
<1>2. \A t \in todo : Allows(o.want[t])
  BY <1>1
<1>3. [o EXCEPT !.pc = "rows", !.todo = todo] \in CreateRec
  BY <1>2 DEF CreateRec
<1>4. QED BY <1>1, <1>3 DEF Op

\* Losing the row one holds keeps the record.
LEMMA DroppedType ==
  ASSUME NEW o \in Op, NEW a, NEW t, NEW slots
  PROVE  Dropped(o, a, t, slots) \in Op
<1>1. CASE o.pc = "commit"
  <2>1. o \in CommitRec
    BY <1>1, OpByPc
  <2>2. [o EXCEPT !.row = "gone"] \in CommitRec
    BY <2>1 DEF CommitRec
  <2>3. QED BY <2>2 DEF Dropped, Op
<1>2. CASE o.pc # "commit"
  BY <1>2 DEF Dropped
<1>3. QED BY <1>1, <1>2

\* Whatever a request does, it goes on with a record of the right shape.
LEMMA StepOp ==
  ASSUME TypeInv, [Next]_vars
  PROVE  op' \in [Callers -> Op']
<1> USE AgentsAssumption DEF AgentsAssumption
<1>1. RunsKept /\ op \in [Callers -> Op]
  BY StepRuns DEF TypeInv
<1>2. SUFFICES op' \in [Callers -> Op \cup Op']
  BY <1>1, <1>2, OpKept
<1>3. ASSUME NEW c \in Callers, NEW o \in Op \cup Op', Step(c, o)
      PROVE  op' \in [Callers -> Op \cup Op']
  BY <1>1, <1>3 DEF Step
<1>4. Idle \in Op
  BY DEF Op
<1>5. ASSUME NEW c \in Callers, Done(c)
      PROVE  op' \in [Callers -> Op \cup Op']
  BY <1>3, <1>4, <1>5 DEF Done
<1>6. ASSUME NEW c \in Callers, op[c] \in CreateRec, Leave(c)
      PROVE  op' \in [Callers -> Op \cup Op']
  BY <1>3, <1>5, <1>6, CreateMove DEF Leave
<1>7. ASSUME NEW c \in Callers, StartCreate(c)
      PROVE  op' \in [Callers -> Op \cup Op']
  <2>1. PICK a \in Agents, want \in Scopes, held \in Scopes, by \in Agents \cup {Nobody} :
          Step(c, Create(a, want, held, NoRun, "done", by, "none"))
    BY <1>7, ScopeTypes DEF StartCreate, TypeInv, TypeOK
  <2>2. Create(a, want, held, NoRun, "done", by, "none") \in Op
    BY DEF Create, Op, CreateRec
  <2>3. QED BY <1>3, <2>1, <2>2
<1>8. ASSUME NEW c \in Callers, \/ RefuseCreate(c) \/ TakeExisting(c) \/ NoneExists(c)
                                \/ WriteCard(c)
      PROVE  op' \in [Callers -> Op \cup Op']
  <2>1. op[c] \in CreateRec
    BY <1>1, <1>8, OpByPc DEF RefuseCreate, TakeExisting, NoneExists, WriteCard
  <2>2. [op[c] EXCEPT !.pc = "rows", !.todo = {t \in Tools : Allows(op[c].want[t])}] \in Op
    BY <2>1, CreateToRows
  <2>3. CASE Leave(c)
    BY <1>6, <2>1, <2>3
  <2>4. CASE ~Leave(c)
    <3>1. [op[c] EXCEPT !.pc = "find"] \in Op \/ op[c].then # "find"
      BY <2>1, CreateMove
    <3>2. [op[c] EXCEPT !.pc = "write"] \in Op
      BY <2>1, CreateMove
    <3>3. QED BY <1>3, <1>8, <2>2, <2>4, <3>1, <3>2
                 DEF RefuseCreate, TakeExisting, NoneExists, WriteCard
  <2>5. QED BY <2>3, <2>4
<1>9. ASSUME NEW c \in Callers, RecordScope(c)
      PROVE  op' \in [Callers -> Op \cup Op']
  <2>1. op[c] \in CreateRec
    BY <1>1, <1>9, OpByPc DEF RecordScope
  <2>2. CASE op[c].todo = {}
    BY <1>3, <1>5, <1>9, <2>1, <2>2, CreateMove DEF RecordScope, CreateRec
  <2>3. CASE op[c].todo # {}
    <3>1. PICK t \in op[c].todo :
            op' = [d \in Callers |->
                 IF d = c THEN [op[c] EXCEPT !.todo = @ \ {t}]
                 ELSE Dropped(op[d], op[c].agent, t,
                        {"scope"} \cup (IF rows[op[c].agent][t].once = "fresh" THEN {"once"} ELSE {}))]
      BY <1>9, <2>3 DEF RecordScope
    <3>2. [op[c] EXCEPT !.todo = @ \ {t}] \in Op
      BY <2>1 DEF CreateRec, Op
    <3>3. QED BY <1>1, <3>1, <3>2, DroppedType
  <2>4. QED BY <2>2, <2>3
<1>10. ASSUME NEW c \in Callers, StartSpawn(c) \/ FindChild(c)
       PROVE  op' \in [Callers -> Op \cup Op']
  <2>1. CASE StartSpawn(c)
    <3>1. PICK a \in Agents, adm \in Admissions :
            Step(c, [pc |-> "issue", agent |-> a, run |-> NoRun, adm |-> adm,
                     scope |-> card[a].scope])
      BY <2>1 DEF StartSpawn
    <3>2. [pc |-> "issue", agent |-> a, run |-> NoRun, adm |-> adm, scope |-> card[a].scope]
            \in IssueRec
      BY DEF TypeInv, TypeOK, IssueRec
    <3>3. QED BY <1>3, <3>1, <3>2 DEF Op
  <2>2. CASE FindChild(c)
    <3>1. op[c] \in CreateRec /\ op[c].run \in Runs
      BY <1>1, <2>2, OpByPc DEF FindChild, CreateRec
    <3>2. [pc |-> "issue", agent |-> op[c].agent, run |-> op[c].run,
           adm |-> <<op[c].run, op[c].agent>>, scope |-> card[op[c].agent].scope] \in IssueRec
      BY <3>1, RunIsRun DEF TypeInv, TypeOK, CreateRec, IssueRec
    <3>3. QED BY <1>3, <2>2, <3>2 DEF FindChild, Op
  <2>3. QED BY <1>10, <2>1, <2>2
<1>11. ASSUME NEW c \in Callers, StartDelegate(c)
       PROVE  op' \in [Callers -> Op \cup Op']
  <2>1. PICK p \in Runs, a \in Agents, want \in Wants :
          Step(c, Create(a, want, runs[p].scope, p, "find", runs[p].agent, "none"))
    BY <1>11 DEF StartDelegate
  <2>2. want \in Scopes /\ runs[p].scope \in Scopes /\ runs[p].agent \in Agents
    BY RunIsRun DEF Run
  <2>3. Create(a, want, runs[p].scope, p, "find", runs[p].agent, "none") \in Op
    BY <2>2 DEF Create, Op, CreateRec
  <2>4. QED BY <1>3, <2>1, <2>3
<1>12. ASSUME NEW c \in Callers, Issue(c) \/ Consume(c)
       PROVE  op' \in [Callers -> Op \cup Op']
  BY <1>5, <1>12 DEF Issue, Consume
<1>13. ASSUME NEW c \in Callers, StartFinish(c)
       PROVE  op' \in [Callers -> Op \cup Op']
  <2>1. PICK r \in Runs : Step(c, [pc |-> "revoke", run |-> r])
    BY <1>13 DEF StartFinish
  <2>2. [pc |-> "revoke", run |-> r] \in RevokeRec
    BY DEF RevokeRec
  <2>3. QED BY <1>3, <2>1, <2>2 DEF Op
<1>14. ASSUME NEW c \in Callers, RevokeRows(c)
       PROVE  op' \in [Callers -> Op \cup Op']
  BY <1>1, <1>4, <1>14, DroppedType DEF RevokeRows
<1>15. ASSUME NEW c \in Callers, StartCall(c)
       PROVE  op' \in [Callers -> Op \cup Op']
  <2>1. CASE Done(c)
    BY <1>5, <2>1
  <2>2. CASE ~Done(c)
    <3>1. PICK r \in Runs, t \in Tools :
            Step(c, [pc |-> "admit", agent |-> runs[r].agent, run |-> r, tool |-> t,
                     scope |-> runs[r].scope])
      BY <1>15, <2>2 DEF StartCall
    <3>2. [pc |-> "admit", agent |-> runs[r].agent, run |-> r, tool |-> t,
           scope |-> runs[r].scope] \in AdmitRec
      BY RunIsRun DEF AdmitRec, Run
    <3>3. QED BY <1>3, <3>1, <3>2 DEF Op
  <2>3. QED BY <2>1, <2>2
<1>16. ASSUME NEW c \in Callers, Admit(c)
       PROVE  op' \in [Callers -> Op \cup Op']
  <2>1. op[c] \in AdmitRec
    BY <1>1, <1>16, OpByPc DEF Admit
  <2>2. CASE Done(c)
    BY <1>5, <2>2
  <2>3. CASE ~Done(c)
    <3>1. PICK s \in Slots :
            Step(c, [pc |-> "commit", agent |-> op[c].agent, run |-> op[c].run,
                     tool |-> op[c].tool, scope |-> op[c].scope, row |-> s])
      BY <1>16, <2>3 DEF Admit, Answering
    <3>2. [pc |-> "commit", agent |-> op[c].agent, run |-> op[c].run,
           tool |-> op[c].tool, scope |-> op[c].scope, row |-> s] \in CommitRec
      BY <2>1 DEF AdmitRec, CommitRec
    <3>3. QED BY <1>3, <3>1, <3>2 DEF Op
  <2>4. QED BY <2>2, <2>3
<1>17. ASSUME NEW c \in Callers, Commit(c)
       PROVE  op' \in [Callers -> Op \cup Op']
  <2>1. op[c] \in CommitRec
    BY <1>1, <1>17, OpByPc DEF Commit
  <2>2. CASE Done(c)
    BY <1>5, <2>2
  <2>3. CASE \E a \in Agents, want \in Wants :
               Step(c, [Create(a, want, op[c].scope, op[c].run, "consume", "nobody", op[c].tool)
                        EXCEPT !.row = op[c].row])
    <3>1. PICK a \in Agents, want \in Scopes :
            Step(c, [Create(a, want, op[c].scope, op[c].run, "consume", "nobody", op[c].tool)
                     EXCEPT !.row = op[c].row])
      BY <2>3
    <3>2. /\ op[c].scope \in Scopes /\ op[c].run \in Runs /\ op[c].tool \in Tools
          /\ op[c].row \in Slots \cup {"gone"}
      BY <2>1 DEF CommitRec
    <3>3. [Create(a, want, op[c].scope, op[c].run, "consume", "nobody", op[c].tool)
           EXCEPT !.row = op[c].row] \in Op
      BY <3>2, CreateType DEF Nobody
    <3>4. QED BY <1>3, <3>1, <3>3
  <2>4. CASE Step(c, [pc |-> "consume", run |-> op[c].run, tool |-> op[c].tool, row |-> op[c].row])
    <3>1. [pc |-> "consume", run |-> op[c].run, tool |-> op[c].tool, row |-> op[c].row] \in ConsumeRec
      BY <2>1 DEF CommitRec, ConsumeRec
    <3>2. QED BY <1>3, <2>4, <3>1 DEF Op
  <2>5. QED BY <1>17, <2>2, <2>3, <2>4 DEF Commit
<1>18. CASE Person
  <2>1. CASE UNCHANGED op
    BY <1>1, <2>1
  <2>2. ASSUME NEW a, NEW t, NEW slots, op' = [d \in Callers |-> Dropped(op[d], a, t, slots)]
        PROVE  op' \in [Callers -> Op \cup Op']
    BY <1>1, <2>2, DroppedType
  <2>3. ASSUME NEW w \in pend, AllowCall(w[1], w[2])
        PROVE  op' \in [Callers -> Op \cup Op']
    <3>1. op' = [d \in Callers |-> Dropped(op[d], w[1], w[2], {"once"})]
      BY <2>3 DEF AllowCall
    <3>2. QED BY <2>2, <3>1
  <2>4. CASE MintRunOnly
    <3>1. PICK a, t : op' = [d \in Callers |-> Dropped(op[d], a, t, {"run"})]
      BY <2>4 DEF MintRunOnly
    <3>2. QED BY <2>2, <3>1
  <2>5. ASSUME NEW w \in pend, DenyCall(w[1], w[2])
        PROVE  UNCHANGED op
    BY <2>5 DEF DenyCall
  <2>6. ASSUME NEW q \in asks, DenyAsk(q) \/ AllowAsk(q)
        PROVE  UNCHANGED op
    BY <2>6 DEF DenyAsk, AllowAsk
  <2>7. QED BY <1>18, <2>1, <2>3, <2>4, <2>5, <2>6 DEF Person
<1>19. CASE Clock \/ UNCHANGED vars
  BY <1>1, <1>19 DEF Clock, Lapse, Expire, ReadCard, SyncCard, SyncRuns, vars
<1>20. QED
  BY <1>7, <1>8, <1>9, <1>10, <1>11, <1>12, <1>13, <1>14, <1>15, <1>16, <1>17, <1>18, <1>19
     DEF Next, Request

\* Cards.
LEMMA StepCard ==
  ASSUME TypeInv, [Next]_vars
  PROVE  card' \in [Agents -> Card]
<1>1. card \in [Agents -> Card]
  BY DEF TypeInv
<1>2. ASSUME NEW c \in Callers, WriteCard(c)
      PROVE  card' \in [Agents -> Card]
  <2>1. op[c] \in CreateRec
    BY <1>2, OpByPc DEF WriteCard, TypeInv
  <2>2. CardOf(op[c].want, op[c].by) \in Card
    BY <2>1 DEF CreateRec, CardOf, Card
  <2>3. QED BY <1>1, <1>2, <2>2 DEF WriteCard
<1>3. ASSUME NEW e \in expiring, SyncCard(e)
      PROVE  card' \in [Agents -> Card]
  <2>1. e.seen \in Card /\ e.tool \in Tools
    BY DEF TypeInv, Syncing
  <2>2. [e.seen EXCEPT !.scope = SoftToAsk(@, e.tool)] \in Card
    BY <2>1, ScopeTypes DEF Card
  <2>3. QED BY <1>1, <1>3, <2>2 DEF SyncCard
<1>4. ASSUME NEW c \in Callers, Request(c), ~WriteCard(c)
      PROVE  UNCHANGED card
  BY <1>4 DEF Request, StartCreate, RefuseCreate, TakeExisting, NoneExists, RecordScope,
       StartSpawn, StartDelegate, FindChild, Issue, StartFinish, RevokeRows, StartCall, Admit,
       Commit, Consume, world
<1>5. ASSUME NEW a \in Agents, NEW t \in Tools, Lapse(a, t) \/ Expire(a, t)
      PROVE  UNCHANGED card
  BY <1>5 DEF Lapse, Expire
<1>6. ASSUME NEW e \in expiring, ReadCard(e) \/ SyncRuns(e)
      PROVE  UNCHANGED card
  BY <1>6 DEF ReadCard, SyncRuns
<1>7. CASE Person \/ UNCHANGED vars
  BY <1>1, <1>7 DEF Person, DenyAsk, AllowAsk, AllowCall, DenyCall, MintRunOnly, vars, world
<1>8. QED BY <1>1, <1>2, <1>3, <1>4, <1>5, <1>6, <1>7 DEF Next, Clock

\* Soft grants that expire.
LEMMA StepExpiring ==
  ASSUME TypeInv, [Next]_vars
  PROVE  expiring' \subseteq Syncing
<1>1. expiring \subseteq Syncing /\ card \in [Agents -> Card]
  BY DEF TypeInv
<1>2. NoCard \in Card
  BY ScopeTypes DEF NoCard, Card
<1>3. \A a \in Agents, t \in Tools, x \in {"card", "write", "runs"}, seen \in Card :
        Sync(a, t, x, seen) \in Syncing
  BY DEF Sync, Syncing
<1>4. CASE UNCHANGED expiring
  BY <1>1, <1>4
<1>5. ASSUME NEW a \in Agents, NEW t \in Tools, Expire(a, t)
      PROVE  expiring' \subseteq Syncing
  BY <1>1, <1>2, <1>3, <1>5 DEF Expire
<1>6. ASSUME NEW e \in expiring, ReadCard(e) \/ SyncCard(e) \/ SyncRuns(e)
      PROVE  expiring' \subseteq Syncing
  <2>1. e.agent \in Agents /\ e.tool \in Tools
    BY <1>1 DEF Syncing
  <2>2. card[e.agent] \in Card
    BY <1>1, <2>1
  <2>3. QED BY <1>1, <1>2, <1>3, <1>6, <2>1, <2>2 DEF ReadCard, SyncCard, SyncRuns
<1>7. ASSUME NEW a \in Agents, NEW t \in Tools, Lapse(a, t)
      PROVE  UNCHANGED expiring
  BY <1>7 DEF Lapse
<1>8. ASSUME NEW c \in Callers, Request(c)
      PROVE  UNCHANGED expiring
  BY <1>8 DEF Request, StartCreate, RefuseCreate, TakeExisting, NoneExists, WriteCard, RecordScope,
       StartSpawn, StartDelegate, FindChild, Issue, StartFinish, RevokeRows, StartCall, Admit,
       Commit, Consume, world
<1>9. CASE Person \/ UNCHANGED vars
  BY <1>4, <1>9 DEF Person, DenyAsk, AllowAsk, AllowCall, DenyCall, MintRunOnly, vars, world
<1>10. QED BY <1>4, <1>5, <1>6, <1>7, <1>8, <1>9 DEF Next, Clock

\* What a step does to one pair of agent and tool: its run-only row comes from the
\* ask that a person is deciding, goes, or stays.
RowStep(a, t) ==
  /\ rows'[a][t] \in Row
  /\ \/ rows'[a][t].run \in {rows[a][t].run, NoRun}
     \/ /\ dec.step = "mint"
        /\ rows'[a][t].run = dec.ask.run /\ a = runs[dec.ask.run].agent /\ t = dec.ask.tool

\* A row with one part replaced.
LEMMA RowParts ==
  ASSUME NEW r \in Row
  PROVE  /\ \A s \in {"none", "soft", "hard", "lapsed", "ask"} :
              [r EXCEPT !.scope = s] \in Row /\ [r EXCEPT !.scope = s].run = r.run
         /\ \A o \in {"none", "fresh", "used"} :
              [r EXCEPT !.once = o] \in Row /\ [r EXCEPT !.once = o].run = r.run
         /\ \A n \in {NoRun} \cup RunIds :
              [r EXCEPT !.run = n] \in Row /\ [r EXCEPT !.run = n].run = n
  BY DEF Row

LEMMA StepRows ==
  ASSUME TypeInv, [Next]_vars
  PROVE  rows' \in [Agents -> [Tools -> Row]] /\ \A a \in Agents, t \in Tools : RowStep(a, t)
<1>1. rows \in [Agents -> [Tools -> Row]]
  BY DEF TypeInv, TypeOK
<1>2. CASE UNCHANGED rows
  BY <1>1, <1>2 DEF RowStep
<1>3. ASSUME NEW a \in Agents, NEW t \in Tools, NEW v \in Row,
             rows' = [rows EXCEPT ![a][t] = v],
             \/ v.run = rows[a][t].run
             \/ /\ dec.step = "mint"
                /\ v.run = dec.ask.run /\ a = runs[dec.ask.run].agent /\ t = dec.ask.tool
      PROVE  rows' \in [Agents -> [Tools -> Row]] /\ \A b \in Agents, u \in Tools : RowStep(b, u)
  <2>1. rows' \in [Agents -> [Tools -> Row]]
    BY <1>1, <1>3
  <2>2. \A b \in Agents, u \in Tools : rows'[b][u] = IF b = a /\ u = t THEN v ELSE rows[b][u]
    BY <1>1, <1>3
  <2>3. QED BY <1>1, <1>3, <2>1, <2>2 DEF RowStep
<1>4. ASSUME NEW c \in Callers, RecordScope(c), ~UNCHANGED rows
      PROVE  rows' \in [Agents -> [Tools -> Row]] /\ \A a \in Agents, t \in Tools : RowStep(a, t)
  <2>1. op[c] \in CreateRec
    BY <1>4, OpByPc DEF RecordScope, TypeInv
  <2>2. PICK t \in op[c].todo :
          rows' = [rows EXCEPT ![op[c].agent][t].scope = op[c].want[t],
                     ![op[c].agent][t].once = IF @ = "fresh" THEN "none" ELSE @]
    BY <1>4 DEF RecordScope
  <2>3. op[c].agent \in Agents /\ t \in Tools /\ op[c].want[t] \in {"soft", "hard"}
    BY <2>1 DEF CreateRec, Allows
  <2>4. PICK a \in Agents : a = op[c].agent
    BY <2>3
  <2>5. PICK s \in {"soft", "hard"} : s = op[c].want[t]
    BY <2>3
  <2>6. PICK v \in Row : /\ v = [rows[a][t] EXCEPT !.scope = s, !.once = IF @ = "fresh" THEN "none" ELSE @]
                         /\ v.run = rows[a][t].run
    <3>1. rows[a][t] \in Row
      BY <1>1, <2>3
    <3>2. /\ [rows[a][t] EXCEPT !.scope = s, !.once = IF @ = "fresh" THEN "none" ELSE @] \in Row
          /\ [rows[a][t] EXCEPT !.scope = s, !.once = IF @ = "fresh" THEN "none" ELSE @].run
               = rows[a][t].run
      BY <3>1 DEF Row
    <3>3. QED BY <3>2
  <2>7. rows' = [rows EXCEPT ![a][t] = v]
    BY <1>1, <2>2, <2>4, <2>5, <2>6
  <2>8. QED BY <1>3, <2>3, <2>6, <2>7
<1>5. ASSUME NEW c \in Callers, RevokeRows(c)
      PROVE  rows' \in [Agents -> [Tools -> Row]] /\ \A a \in Agents, t \in Tools : RowStep(a, t)
  <2>1. op[c].run \in Runs
    <3>1. op[c] \in Op /\ op[c].pc = "revoke"
      BY <1>5 DEF RevokeRows, TypeInv
    <3>2. op[c] \in RevokeRec
      BY <3>1, OpByPc
    <3>3. QED BY <3>2 DEF RevokeRec
  <2>2. PICK b \in Agents : b = runs[op[c].run].agent
    BY <2>1, RunIsRun DEF Run
  <2>3. rows' = [rows EXCEPT ![b] = [t \in Tools |->
           IF rows[b][t].run = op[c].run THEN [rows[b][t] EXCEPT !.run = NoRun] ELSE rows[b][t]]]
    BY <1>5, <2>2 DEF RevokeRows
  <2>4. \A t \in Tools : rows[b][t] \in Row
    BY <1>1
  <2>5. \A r \in Row : [r EXCEPT !.run = NoRun] \in Row /\ [r EXCEPT !.run = NoRun].run = NoRun
    BY RowParts
  <2>6. QED BY <1>1, <2>3, <2>4, <2>5 DEF RowStep
<1>6. ASSUME NEW c \in Callers, Consume(c), ~UNCHANGED rows
      PROVE  rows' \in [Agents -> [Tools -> Row]] /\ \A a \in Agents, t \in Tools : RowStep(a, t)
  <2>1. op[c].run \in Runs /\ op[c].tool \in Tools
    BY <1>6, OpByPc DEF Consume, TypeInv, CreateRec, ConsumeRec
  <2>2. PICK a \in Agents : a = runs[op[c].run].agent
    BY <2>1, RunIsRun DEF Run
  <2>3. PICK t \in Tools : t = op[c].tool
    BY <2>1
  <2>4. rows' = [rows EXCEPT ![a][t] = [rows[a][t] EXCEPT !.once = "used"]]
    BY <1>1, <1>6, <2>2, <2>3 DEF Consume
  <2>5. PICK v \in Row : /\ v = [rows[a][t] EXCEPT !.once = "used"]
                           /\ v.run = rows[a][t].run
    <3>1. rows[a][t] \in Row
      BY <1>1
    <3>2. /\ [rows[a][t] EXCEPT !.once = "used"] \in Row
          /\ [rows[a][t] EXCEPT !.once = "used"].run = rows[a][t].run
      BY <3>1, RowParts
    <3>3. QED BY <3>2
  <2>6. QED BY <1>3, <2>4, <2>5
<1>7. ASSUME NEW w \in pend, AllowCall(w[1], w[2])
      PROVE  rows' \in [Agents -> [Tools -> Row]] /\ \A a \in Agents, t \in Tools : RowStep(a, t)
  <2>1. PICK a \in Agents, t \in Tools : a = w[1] /\ t = w[2]
    BY DEF TypeInv, TypeOK
  <2>2. rows' = [rows EXCEPT ![a][t] = [rows[a][t] EXCEPT !.once = "fresh"]]
    BY <1>1, <1>7, <2>1 DEF AllowCall
  <2>3. PICK v \in Row : /\ v = [rows[a][t] EXCEPT !.once = "fresh"]
                           /\ v.run = rows[a][t].run
    <3>1. rows[a][t] \in Row
      BY <1>1
    <3>2. /\ [rows[a][t] EXCEPT !.once = "fresh"] \in Row
          /\ [rows[a][t] EXCEPT !.once = "fresh"].run = rows[a][t].run
      BY <3>1, RowParts
    <3>3. QED BY <3>2
  <2>4. QED BY <1>3, <2>2, <2>3
<1>8. CASE MintRunOnly
  <2>1. PICK q \in LiveAsk : dec.ask = q
    BY <1>8 DEF MintRunOnly, TypeInv
  <2>2. q.run \in Runs /\ q.tool \in Tools
    BY DEF LiveAsk, Ask
  <2>3. PICK a \in Agents : a = runs[q.run].agent
    BY <2>2, RunIsRun DEF Run
  <2>4. rows' = [rows EXCEPT ![a][q.tool] = [rows[a][q.tool] EXCEPT !.run = q.run]]
    BY <1>1, <1>8, <2>1, <2>3 DEF MintRunOnly, Target
  <2>5. PICK v \in Row : v = [rows[a][q.tool] EXCEPT !.run = q.run] /\ v.run = q.run
    <3>1. rows[a][q.tool] \in Row /\ q.run \in {NoRun} \cup RunIds
      BY <1>1, <2>2, RunIsRun
    <3>2. /\ [rows[a][q.tool] EXCEPT !.run = q.run] \in Row
          /\ [rows[a][q.tool] EXCEPT !.run = q.run].run = q.run
      BY <3>1, RowParts
    <3>3. QED BY <3>2
  <2>6. dec.step = "mint"
    BY <1>8 DEF MintRunOnly
  <2>7. QED BY <1>3, <2>1, <2>2, <2>3, <2>4, <2>5, <2>6
<1>9. ASSUME NEW a \in Agents, NEW t \in Tools, Lapse(a, t) \/ Expire(a, t)
      PROVE  rows' \in [Agents -> [Tools -> Row]] /\ \A b \in Agents, u \in Tools : RowStep(b, u)
  <2>1. PICK s \in {"lapsed", "ask"} : rows' = [rows EXCEPT ![a][t] = [rows[a][t] EXCEPT !.scope = s]]
    BY <1>1, <1>9 DEF Lapse, Expire
  <2>2. PICK v \in Row : /\ v = [rows[a][t] EXCEPT !.scope = s]
                           /\ v.run = rows[a][t].run
    <3>1. rows[a][t] \in Row
      BY <1>1
    <3>2. /\ [rows[a][t] EXCEPT !.scope = s] \in Row
          /\ [rows[a][t] EXCEPT !.scope = s].run = rows[a][t].run
      BY <3>1, RowParts
    <3>3. QED BY <3>2
  <2>3. QED BY <1>3, <2>1, <2>2
<1>10. ASSUME NEW c \in Callers, Request(c), ~RecordScope(c), ~RevokeRows(c), ~Consume(c)
       PROVE  UNCHANGED rows
  BY <1>10 DEF Request, StartCreate, RefuseCreate, TakeExisting, NoneExists, WriteCard, StartSpawn,
       StartDelegate, FindChild, Issue, StartFinish, StartCall, Admit, Commit, world
<1>11. ASSUME NEW e \in expiring, ReadCard(e) \/ SyncCard(e) \/ SyncRuns(e)
       PROVE  UNCHANGED rows
  BY <1>11 DEF ReadCard, SyncCard, SyncRuns
<1>12. ASSUME NEW w \in pend, DenyCall(w[1], w[2])
       PROVE  UNCHANGED rows
  BY <1>12 DEF DenyCall
<1>13. ASSUME NEW q \in asks, DenyAsk(q) \/ AllowAsk(q)
       PROVE  UNCHANGED rows
  BY <1>13 DEF DenyAsk, AllowAsk
<1>14. CASE UNCHANGED vars
  BY <1>2, <1>14 DEF vars, world
<1>15. QED
  BY <1>2, <1>4, <1>5, <1>6, <1>7, <1>8, <1>9, <1>10, <1>11, <1>12, <1>13, <1>14
     DEF Next, Person, Clock

\* The calls that ran, of runs that exist.
LEMMA StepRan ==
  ASSUME TypeInv, [Next]_vars
  PROVE  \/ UNCHANGED ran
         \/ \E c \in Callers :
              /\ op[c] \in CommitRec /\ Commit(c)
              /\ ran' = ran \cup {<<op[c].run, op[c].tool,
                           IF op[c].row = "run" THEN rows[op[c].agent][op[c].tool].run ELSE NoRun>>}
              /\ op[c].row = "run" => rows[op[c].agent][op[c].tool].run # NoRun
<1>1. ASSUME NEW c \in Callers, Commit(c), ~UNCHANGED ran
      PROVE  /\ op[c] \in CommitRec
             /\ ran' = ran \cup {<<op[c].run, op[c].tool,
                          IF op[c].row = "run" THEN rows[op[c].agent][op[c].tool].run ELSE NoRun>>}
             /\ op[c].row = "run" => rows[op[c].agent][op[c].tool].run # NoRun
  <2>1. op[c] \in CommitRec
    BY <1>1, OpByPc DEF Commit, TypeInv
  <2>2. QED BY <1>1, <2>1 DEF Commit, Alive
<1>2. ASSUME NEW c \in Callers, Request(c), ~Commit(c)
      PROVE  UNCHANGED ran
  BY <1>2 DEF Request, StartCreate, RefuseCreate, TakeExisting, NoneExists, WriteCard, RecordScope,
       StartSpawn, StartDelegate, FindChild, Issue, StartFinish, RevokeRows, StartCall, Admit,
       Consume, history
<1>3. CASE Person \/ Clock \/ UNCHANGED vars
  BY <1>3 DEF Person, DenyAsk, AllowAsk, AllowCall, DenyCall, MintRunOnly, Clock, Lapse, Expire,
       ReadCard, SyncCard, SyncRuns, vars, history
<1>4. QED BY <1>1, <1>2, <1>3 DEF Next

\* What a person decided, and what the run-only row of a decision is minted from.
LEMMA StepDecision ==
  ASSUME TypeInv, [Next]_vars
  PROVE  \/ UNCHANGED <<dec, approved>>
         \/ dec' = [step |-> "idle"] /\ UNCHANGED approved
         \/ \E q \in asks : /\ dec' = [step |-> "mint", ask |-> q]
                            /\ approved' = approved \cup {<<q.run, q.tool>>}
<1>1. ASSUME NEW c \in Callers, Request(c)
      PROVE  UNCHANGED <<dec, approved>>
  BY <1>1 DEF Request, StartCreate, RefuseCreate, TakeExisting, NoneExists, WriteCard, RecordScope,
       StartSpawn, StartDelegate, FindChild, Issue, StartFinish, RevokeRows, StartCall, Admit,
       Commit, Consume, world, history
<1>2. CASE Person
  BY <1>2 DEF Person, DenyAsk, AllowAsk, AllowCall, DenyCall, MintRunOnly, Target, history
<1>3. CASE Clock \/ UNCHANGED vars
  BY <1>3 DEF Clock, Lapse, Expire, ReadCard, SyncCard, SyncRuns, vars, world, history
<1>4. QED BY <1>1, <1>2, <1>3 DEF Next

\* Calls that wait are calls of an agent.
LEMMA StepPend ==
  ASSUME TypeInv, [Next]_vars
  PROVE  pend' \subseteq Agents \X Tools
<1>1. pend \subseteq Agents \X Tools
  BY DEF TypeInv, TypeOK
<1>2. ASSUME NEW c \in Callers, Admit(c)
      PROVE  pend' \subseteq Agents \X Tools
  <2>1. op[c].agent \in Agents /\ op[c].tool \in Tools
    BY <1>2, OpByPc DEF Admit, TypeInv, AdmitRec
  <2>2. QED BY <1>1, <1>2, <2>1 DEF Admit
<1>3. ASSUME NEW c \in Callers, Request(c), ~Admit(c)
      PROVE  UNCHANGED pend
  BY <1>3 DEF Request, StartCreate, RefuseCreate, TakeExisting, NoneExists, WriteCard, RecordScope,
       StartSpawn, StartDelegate, FindChild, Issue, StartFinish, RevokeRows, StartCall, Commit,
       Consume, world
<1>4. CASE Person
  BY <1>1, <1>4 DEF Person, DenyAsk, AllowAsk, AllowCall, DenyCall, MintRunOnly
<1>5. CASE Clock \/ UNCHANGED vars
  BY <1>1, <1>5 DEF Clock, Lapse, Expire, ReadCard, SyncCard, SyncRuns, vars, world
<1>6. QED BY <1>1, <1>2, <1>3, <1>4, <1>5 DEF Next

LEMMA StepTypeInv ==
  ASSUME TypeInv, [Next]_vars
  PROVE  TypeInv'
<1>1. /\ runs' \in Seq(Run) /\ Len(runs') <= MaxRuns
      /\ issued' \in Seq(Scopes) /\ Len(issued') = Len(runs')
      /\ ever' \in Seq([Tools -> Nat]) /\ Len(ever') = Len(runs')
      /\ \A r \in Runs' : runs'[r].parent < r
      /\ RunsKept
  BY StepRuns
<1>2. card' \in [Agents -> Card] /\ op' \in [Callers -> Op'] /\ rows' \in [Agents -> [Tools -> Row]]
      /\ pend' \subseteq Agents \X Tools /\ expiring' \subseteq Syncing
  BY StepCard, StepOp, StepRows, StepPend, StepExpiring
<1>3. \A q \in LiveAsk : q \in LiveAsk'
  BY <1>1 DEF LiveAsk, RunsKept
<1>4. asks' \subseteq LiveAsk'
  <2>1. asks \subseteq LiveAsk
    BY DEF TypeInv
  <2>2. CASE asks' \subseteq asks
    BY <1>3, <2>1, <2>2
  <2>3. ASSUME NEW r \in Runs, NEW t \in Tools, Filing(r, t)
        PROVE  asks' \subseteq LiveAsk'
    BY <1>1, <1>3, <2>1, <2>3 DEF Filing, LiveAsk, RunsKept
  <2>4. QED BY <2>2, <2>3, StepAsks
<1>5. dec' \in {[step |-> "idle"]} \cup [step : {"mint"}, ask : LiveAsk']
  <2>1. dec \in {[step |-> "idle"]} \cup [step : {"mint"}, ask : LiveAsk] /\ asks \subseteq LiveAsk
    BY DEF TypeInv
  <2>2. QED BY <1>3, <2>1, StepDecision
<1>6. ran' \subseteq Runs' \X Tools \X ({NoRun} \cup RunIds)
  <2>1. ran \subseteq Runs \X Tools \X ({NoRun} \cup RunIds)
    BY DEF TypeInv
  <2>2. ASSUME NEW c \in Callers, op[c] \in CommitRec
        PROVE  /\ op[c].run \in Runs' /\ op[c].tool \in Tools
               /\ rows[op[c].agent][op[c].tool].run \in {NoRun} \cup RunIds
    <3>1. op[c].run \in Runs /\ op[c].tool \in Tools /\ op[c].agent \in Agents
      BY <2>2 DEF CommitRec
    <3>2. rows \in [Agents -> [Tools -> Row]]
      BY DEF TypeInv, TypeOK
    <3>3. rows[op[c].agent][op[c].tool] \in Row
      BY <3>1, <3>2
    <3>4. QED BY <1>1, <3>1, <3>3 DEF RunsKept, Row
  <2>3. QED BY <1>1, <2>1, <2>2, StepRan DEF RunsKept
<1>7. \A r \in Runs' : runs'[r] \in Run
  BY <1>1, LenProperties, ElementOfSeq DEF Runs
<1>8. TypeOK'
  <2>1. \A a \in Agents : card'[a].scope \in Scopes /\ card'[a].exists \in BOOLEAN
    BY <1>2 DEF Card
  <2>2. asks' \subseteq Ask
    BY <1>4 DEF LiveAsk
  <2>3. QED BY <1>1, <1>2, <1>7, <2>1, <2>2 DEF TypeOK, Run
<1>9. QED BY <1>1, <1>2, <1>4, <1>5, <1>6, <1>8 DEF TypeInv

LEMMA TypeInvariance == Spec => []TypeInv
<1>1. Init => TypeInv
  BY InitTypeInv
<1>2. TypeInv /\ [Next]_vars => TypeInv'
  BY StepTypeInv
<1>3. QED BY <1>1, <1>2, PTL DEF Spec

\* Every variable keeps its shape and runs refer to runs that exist, in every order
\* of the steps of any number of callers.
THEOREM TypeCorrect == Spec => []TypeOK
<1>1. TypeInv => TypeOK
  BY DEF TypeInv
<1>2. QED BY <1>1, TypeInvariance, PTL

-------------------------------------------------------------------------------
(* One run at a time.                                                         *)

LEMMA StepOneRun ==
  ASSUME TypeInv, OneRunAtATime, [Next]_vars
  PROVE  OneRunAtATime'
<1>1. RunsKept
  BY StepRuns
<1>2. ASSUME Runs' = Runs
      PROVE  OneRunAtATime'
  BY <1>1, <1>2 DEF OneRunAtATime, RunsKept
<1>3. ASSUME NEW c \in Callers, Added(c)
      PROVE  OneRunAtATime'
  <2>1. PICK n \in RunIds :
          /\ Runs' = Runs \cup {n} /\ n \notin Runs
          /\ \A s \in Runs : runs'[s] = runs[s]
          /\ runs'[n] = [agent |-> op[c].agent, parent |-> op[c].run, adm |-> op[c].adm,
                         active |-> TRUE, scope |-> op[c].scope]
    BY <1>3, AddedEffect
  <2>2. runs'[n].agent = op[c].agent /\ runs'[n].adm = op[c].adm
    BY <2>1
  <2>3. \A r \in Runs : runs[r].agent = op[c].agent => ~runs[r].active /\ runs[r].adm # op[c].adm
    BY <1>3 DEF Added, FreeAgent, AdmittedBefore
  <2>4. ASSUME NEW r \in Runs, runs'[r].agent = runs'[n].agent
        PROVE  ~runs'[r].active /\ runs'[r].adm # runs'[n].adm
    BY <2>1, <2>2, <2>3, <2>4
  <2>5. ASSUME NEW r \in Runs, NEW s \in Runs, runs'[r].agent = runs'[s].agent
        PROVE  /\ runs'[r].active /\ runs'[s].active => r = s
               /\ runs'[r].adm = runs'[s].adm => r = s
    BY <2>1, <2>5 DEF OneRunAtATime
  <2>6. QED BY <2>1, <2>4, <2>5 DEF OneRunAtATime
<1>4. UNCHANGED runs => Runs' = Runs
  BY DEF Runs
<1>5. QED BY <1>2, <1>3, <1>4, RunsStep, FinishedEffect, WidenedEffect, SyncedEffect

\* issue_run lets an agent have one active run and an admission stand for one run,
\* although callers decided on agents and parents before they took its lock.
THEOREM RunsAreExclusive == Spec => []OneRunAtATime
<1>1. Init => OneRunAtATime
  <2>1. DOMAIN << >> = {}
    OBVIOUS
  <2>2. QED BY <2>1 DEF Init, OneRunAtATime, Runs
<1>2. TypeInv /\ OneRunAtATime /\ [Next]_vars => OneRunAtATime'
  BY StepOneRun
<1>3. QED BY <1>1, <1>2, TypeInvariance, PTL DEF Spec

\* Nothing that is written to the journal later brings a finished run back.
THEOREM FinishedIsFinal == Spec => FinishedStaysFinished
<1>1. TypeInv /\ [Next]_vars => [\A r \in Runs : ~runs[r].active => ~runs'[r].active]_vars
  BY StepRuns DEF RunsKept
<1>2. QED BY <1>1, TypeInvariance, PTL DEF Spec, FinishedStaysFinished

-------------------------------------------------------------------------------
(* What a person allowed.                                                     *)

\* The asks there are, and the one a person is deciding, were filed by the run they
\* are for; a run-only row was allowed for the run and the agent it is bound to.
AllowInv ==
  /\ \A q \in asks : <<q.run, q.tool>> \in filed
  /\ approved \subseteq filed
  /\ dec.step = "mint" => <<dec.ask.run, dec.ask.tool>> \in approved
  /\ \A a \in Agents, t \in Tools :
       LET r == rows[a][t].run IN
         r # NoRun => r \in Runs /\ runs[r].agent = a /\ <<r, t>> \in approved

LEMMA InitAllowInv == ASSUME Init PROVE AllowInv
<1>1. asks = {} /\ approved = {} /\ dec.step = "idle"
  BY DEF Init
<1>2. \A a \in Agents, t \in Tools : rows[a][t].run = NoRun
  BY DEF Init, NoRow
<1>3. QED BY <1>1, <1>2 DEF AllowInv

LEMMA StepAllowInv ==
  ASSUME TypeInv, AllowInv, [Next]_vars
  PROVE  AllowInv'
<1>1. RunsKept
  BY StepRuns
<1>2. asks \subseteq LiveAsk /\ dec \in {[step |-> "idle"]} \cup [step : {"mint"}, ask : LiveAsk]
  BY DEF TypeInv
<1>3. filed \subseteq filed'
  BY StepAsks DEF Filing
<1>4. \A q \in asks' : <<q.run, q.tool>> \in filed'
  BY <1>3, StepAsks DEF Filing, AllowInv
<1>5. /\ approved \subseteq approved' /\ approved' \subseteq filed'
      /\ dec'.step = "mint" => <<dec'.ask.run, dec'.ask.tool>> \in approved'
  <2>1. CASE UNCHANGED <<dec, approved>>
    BY <1>3, <2>1 DEF AllowInv
  <2>2. CASE dec' = [step |-> "idle"] /\ UNCHANGED approved
    <3>1. dec'.step = "idle"
      BY <2>2
    <3>2. QED BY <1>3, <2>2, <3>1 DEF AllowInv
  <2>3. ASSUME NEW q \in asks, dec' = [step |-> "mint", ask |-> q],
               approved' = approved \cup {<<q.run, q.tool>>}
        PROVE  /\ approved \subseteq approved' /\ approved' \subseteq filed'
               /\ dec'.step = "mint" => <<dec'.ask.run, dec'.ask.tool>> \in approved'
    <3>1. dec'.ask = q
      BY <2>3
    <3>2. <<q.run, q.tool>> \in filed
      BY DEF AllowInv
    <3>3. QED BY <1>3, <2>3, <3>1, <3>2 DEF AllowInv
  <2>4. QED BY <2>1, <2>2, <2>3, StepDecision
<1>6. ASSUME NEW a \in Agents, NEW t \in Tools, rows'[a][t].run # NoRun
      PROVE  LET r == rows'[a][t].run IN
               r \in Runs' /\ runs'[r].agent = a /\ <<r, t>> \in approved'
  <2>1. PICK r : r = rows'[a][t].run
    OBVIOUS
  <2>2. r \in Runs /\ runs[r].agent = a /\ <<r, t>> \in approved
    <3>1. CASE r = rows[a][t].run
      BY <1>6, <2>1, <3>1 DEF AllowInv
    <3>2. CASE /\ dec.step = "mint" /\ r = dec.ask.run
               /\ a = runs[dec.ask.run].agent /\ t = dec.ask.tool
      <4>1. PICK q \in LiveAsk : dec.ask = q
        BY <1>2, <3>2
      <4>2. QED BY <3>2, <4>1 DEF AllowInv, LiveAsk
    <3>3. RowStep(a, t)
      BY StepRows
    <3>4. QED BY <1>6, <2>1, <3>1, <3>2, <3>3 DEF RowStep
  <2>3. QED BY <1>1, <1>5, <2>1, <2>2 DEF RunsKept
<1>7. QED BY <1>4, <1>5, <1>6 DEF AllowInv

\* A person who allows an ask widens the run that was refused, never its parent nor
\* another child of the parent that joined the ask.
THEOREM ApprovalsReachFilers == Spec => []ApprovalReachesFiler
<1>1. Init => AllowInv
  BY InitAllowInv
<1>2. TypeInv /\ AllowInv /\ [Next]_vars => AllowInv'
  BY StepAllowInv
<1>3. AllowInv => ApprovalReachesFiler
  BY DEF AllowInv, ApprovalReachesFiler
<1>4. QED BY <1>1, <1>2, <1>3, TypeInvariance, PTL DEF Spec

\* A call that ran on the run-only row of a run was that run's or another run's of
\* the same agent, and a person had allowed the row's run the tool.
BorrowInv ==
  \A x \in ran : x[3] \notin {NoRun, x[1]} =>
    /\ x[3] \in Runs /\ runs[x[3]].agent = runs[x[1]].agent
    /\ <<x[3], x[2]>> \in approved

LEMMA StepBorrowInv ==
  ASSUME TypeInv, AllowInv, BorrowInv, [Next]_vars
  PROVE  BorrowInv'
<1>1. RunsKept /\ approved \subseteq approved'
  BY StepRuns, StepDecision
<1>2. ran \subseteq Runs \X Tools \X ({NoRun} \cup RunIds)
  BY DEF TypeInv
<1>3. ASSUME NEW x \in ran, x[3] \notin {NoRun, x[1]}
      PROVE  /\ x[3] \in Runs' /\ runs'[x[3]].agent = runs'[x[1]].agent
             /\ <<x[3], x[2]>> \in approved'
  <2>1. x[1] \in Runs
    BY <1>2
  <2>2. QED BY <1>1, <1>3, <2>1 DEF BorrowInv, RunsKept
<1>4. CASE UNCHANGED ran
  BY <1>3, <1>4 DEF BorrowInv
<1>5. ASSUME NEW c \in Callers, op[c] \in CommitRec, NEW n,
             n = IF op[c].row = "run" THEN rows[op[c].agent][op[c].tool].run ELSE NoRun,
             ran' = ran \cup {<<op[c].run, op[c].tool, n>>}
      PROVE  BorrowInv'
  <2>1. /\ op[c].run \in Runs /\ op[c].tool \in Tools /\ op[c].agent \in Agents
        /\ op[c].agent = runs[op[c].run].agent
    BY <1>5 DEF CommitRec
  <2>2. ASSUME n # NoRun
        PROVE  n \in Runs /\ runs[n].agent = op[c].agent /\ <<n, op[c].tool>> \in approved
    BY <1>5, <2>1, <2>2 DEF AllowInv
  <2>3. PICK x : x = <<op[c].run, op[c].tool, n>>
    OBVIOUS
  <2>4. x[1] = op[c].run /\ x[2] = op[c].tool /\ x[3] = n
    BY <2>3
  <2>5. x[3] \notin {NoRun, x[1]} =>
          /\ x[3] \in Runs' /\ runs'[x[3]].agent = runs'[x[1]].agent
          /\ <<x[3], x[2]>> \in approved'
    BY <1>1, <2>1, <2>2, <2>4 DEF RunsKept
  <2>6. QED BY <1>3, <1>5, <2>3, <2>5 DEF BorrowInv
<1>6. QED BY <1>4, <1>5, StepRan

\* A run-only row serves another run than its own only across a finish: never while
\* both are active, never for another agent, never without a person's word.
THEOREM BorrowingIsAcrossFinish == Spec => []BorrowedAcrossFinish
<1>1. Init => AllowInv /\ BorrowInv
  BY InitAllowInv DEF Init, BorrowInv
<1>2. TypeInv /\ AllowInv /\ BorrowInv /\ [Next]_vars => AllowInv' /\ BorrowInv'
  BY StepAllowInv, StepBorrowInv
<1>3. ASSUME TypeInv, BorrowInv, OneRunAtATime PROVE BorrowedAcrossFinish
  <2>1. ran \subseteq Runs \X Tools \X ({NoRun} \cup RunIds)
    BY <1>3 DEF TypeInv
  <2>2. ASSUME NEW x \in ran, x[3] \notin {NoRun, x[1]}
        PROVE  /\ ~(runs[x[1]].active /\ runs[x[3]].active)
               /\ runs[x[3]].agent = runs[x[1]].agent /\ <<x[3], x[2]>> \in approved
    <3>1. /\ x[1] \in Runs /\ x[3] \in Runs /\ x[1] # x[3]
          /\ runs[x[3]].agent = runs[x[1]].agent /\ <<x[3], x[2]>> \in approved
      BY <1>3, <2>1, <2>2 DEF BorrowInv
    <3>2. QED BY <1>3, <3>1 DEF OneRunAtATime
  <2>3. QED BY <2>2 DEF BorrowedAcrossFinish
<1>4. QED BY <1>1, <1>2, <1>3, TypeInvariance, RunsAreExclusive, PTL DEF Spec

-------------------------------------------------------------------------------
(* What a request holds.                                                      *)

\* How a request comes to check a call, to add a run or to write a card: it went on
\* with what it had, or it has just looked at the run, the card or the subset.
OpMove(d) ==
  \/ op'[d] = op[d]
  \/ op'[d].pc \notin {"admit", "commit", "issue", "write"}
  \/ /\ op[d].pc \in {"admit", "commit"} /\ op'[d].pc = "commit"
     /\ op'[d].run = op[d].run /\ op'[d].tool = op[d].tool
  \/ /\ op'[d].pc = "admit"
     /\ op'[d].run \in Runs /\ op'[d].tool \in Tools /\ InScope(op'[d].run, op'[d].tool)
  \/ /\ op'[d].pc = "issue"
     /\ op'[d].agent \in Agents /\ op'[d].scope = card[op'[d].agent].scope
  \/ /\ op'[d].pc = "write" /\ Uncovered(op'[d].held, op'[d].want) = {}

LEMMA StepMoves ==
  ASSUME TypeInv, [Next]_vars, NEW d \in Callers
  PROVE  OpMove(d)
<1>1. op \in [Callers -> Op]
  BY DEF TypeInv
<1>2. ASSUME NEW a, NEW t, NEW slots, op'[d] = Dropped(op[d], a, t, slots)
      PROVE  OpMove(d)
  <2>1. CASE op[d].pc = "commit"
    <3>1. op[d] \in CommitRec
      BY <1>1, <2>1, OpByPc
    <3>2. [op[d] EXCEPT !.row = "gone"].pc = "commit"
          /\ [op[d] EXCEPT !.row = "gone"].run = op[d].run
          /\ [op[d] EXCEPT !.row = "gone"].tool = op[d].tool
      BY <2>1, <3>1 DEF CommitRec
    <3>3. QED BY <1>2, <2>1, <3>2 DEF Dropped, OpMove
  <2>2. CASE op[d].pc # "commit"
    BY <1>2, <2>2 DEF Dropped, OpMove
  <2>3. QED BY <2>1, <2>2
<1>3. ASSUME NEW c \in Callers, NEW o, Step(c, o), c # d
      PROVE  OpMove(d)
  BY <1>1, <1>3 DEF Step, OpMove
<1>4. ASSUME NEW o, Step(d, o)
      PROVE  op'[d] = o
  BY <1>1, <1>4 DEF Step
<1>5. Done(d) => OpMove(d)
  <2>1. Idle.pc = "idle"
    BY DEF Idle
  <2>2. QED BY <1>4, <2>1 DEF Done, OpMove
<1>6. ASSUME op[d] \in CreateRec, Leave(d)
      PROVE  OpMove(d)
  <2>1. [op[d] EXCEPT !.pc = "consume"].pc = "consume"
    BY <1>6 DEF CreateRec
  <2>2. QED BY <1>4, <1>5, <1>6, <2>1 DEF Leave, OpMove
<1>7. ASSUME StartCreate(d) \/ StartDelegate(d)
      PROVE  OpMove(d)
  <2>1. PICK a, want, held, run, then, by, tool : Step(d, Create(a, want, held, run, then, by, tool))
    BY <1>7 DEF StartCreate, StartDelegate
  <2>2. Create(a, want, held, run, then, by, tool).pc = "exists"
    BY DEF Create
  <2>3. QED BY <1>4, <2>1, <2>2 DEF OpMove
<1>8. ASSUME RefuseCreate(d) \/ TakeExisting(d) \/ WriteCard(d)
      PROVE  OpMove(d)
  <2>1. op[d] \in CreateRec
    BY <1>1, <1>8, OpByPc DEF RefuseCreate, TakeExisting, WriteCard
  <2>2. /\ [op[d] EXCEPT !.pc = "find"].pc = "find"
        /\ [op[d] EXCEPT !.pc = "rows", !.todo = {t \in Tools : Allows(op[d].want[t])}].pc = "rows"
    BY <2>1 DEF CreateRec
  <2>3. QED BY <1>4, <1>6, <1>8, <2>1, <2>2 DEF RefuseCreate, TakeExisting, WriteCard, OpMove
<1>9. ASSUME NoneExists(d)
      PROVE  OpMove(d)
  <2>1. op[d] \in CreateRec
    BY <1>1, <1>9, OpByPc DEF NoneExists
  <2>2. op'[d] = [op[d] EXCEPT !.pc = "write"]
    BY <1>4, <1>9 DEF NoneExists
  <2>3. op'[d].pc = "write" /\ op'[d].held = op[d].held /\ op'[d].want = op[d].want
    BY <2>1, <2>2 DEF CreateRec
  <2>4. QED BY <1>9, <2>3 DEF NoneExists, OpMove
<1>10. ASSUME RecordScope(d)
       PROVE  OpMove(d)
  <2>1. op[d] \in CreateRec
    BY <1>1, <1>10, OpByPc DEF RecordScope
  <2>2. CASE op[d].todo = {}
    <3>1. [op[d] EXCEPT !.pc = op[d].then].pc \in {"done", "find", "consume"}
      BY <2>1 DEF CreateRec
    <3>2. QED BY <1>4, <1>5, <1>10, <2>2, <3>1 DEF RecordScope, OpMove
  <2>3. CASE op[d].todo # {}
    <3>1. \E t : op'[d] = [op[d] EXCEPT !.todo = @ \ {t}]
      BY <1>10, <2>3 DEF RecordScope
    <3>2. op'[d].pc = "rows"
      BY <1>10, <2>1, <3>1 DEF RecordScope, CreateRec
    <3>3. QED BY <3>2 DEF OpMove
  <2>4. QED BY <2>2, <2>3
<1>11. ASSUME StartSpawn(d)
       PROVE  OpMove(d)
  <2>1. PICK a \in Agents, adm \in Admissions : op'[d] = [pc |-> "issue", agent |-> a, run |-> NoRun, adm |-> adm,
                                           scope |-> card[a].scope]
    BY <1>4, <1>11 DEF StartSpawn
  <2>2. op'[d].pc = "issue" /\ op'[d].agent = a /\ op'[d].scope = card[a].scope
    BY <2>1
  <2>3. QED BY <2>2 DEF OpMove
<1>12. ASSUME FindChild(d)
       PROVE  OpMove(d)
  <2>1. op[d] \in CreateRec
    BY <1>1, <1>12, OpByPc DEF FindChild
  <2>2. op'[d] = [pc |-> "issue", agent |-> op[d].agent, run |-> op[d].run,
                  adm |-> <<op[d].run, op[d].agent>>, scope |-> card[op[d].agent].scope]
    BY <1>4, <1>12 DEF FindChild
  <2>3. op'[d].pc = "issue" /\ op'[d].agent = op[d].agent /\ op'[d].scope = card[op[d].agent].scope
    BY <2>2
  <2>4. QED BY <2>1, <2>3 DEF OpMove, CreateRec
<1>13. ASSUME StartFinish(d) \/ Issue(d) \/ Consume(d) \/ RevokeRows(d)
       PROVE  OpMove(d)
  <2>1. CASE StartFinish(d)
    <3>1. PICK r : op'[d] = [pc |-> "revoke", run |-> r]
      BY <1>4, <2>1 DEF StartFinish
    <3>2. op'[d].pc = "revoke"
      BY <3>1
    <3>3. QED BY <3>2 DEF OpMove
  <2>2. CASE RevokeRows(d)
    <3>1. op'[d] = Idle /\ Idle.pc = "idle"
      BY <2>2 DEF RevokeRows, Idle
    <3>2. QED BY <3>1 DEF OpMove
  <2>3. QED BY <1>5, <1>13, <2>1, <2>2 DEF Issue, Consume
<1>14. ASSUME StartCall(d)
       PROVE  OpMove(d)
  <2>1. CASE Done(d)
    BY <1>5, <2>1
  <2>2. CASE ~Done(d)
    <3>1. PICK r \in Runs, t \in Tools :
            /\ InScope(r, t)
            /\ Step(d, [pc |-> "admit", agent |-> runs[r].agent, run |-> r, tool |-> t,
                        scope |-> runs[r].scope])
      BY <1>14, <2>2 DEF StartCall
    <3>2. op'[d].pc = "admit" /\ op'[d].run = r /\ op'[d].tool = t
      BY <1>4, <3>1
    <3>3. QED BY <3>1, <3>2 DEF OpMove
  <2>3. QED BY <2>1, <2>2
<1>15. ASSUME Admit(d)
       PROVE  OpMove(d)
  <2>1. CASE Done(d)
    BY <1>5, <2>1
  <2>2. CASE ~Done(d)
    <3>1. PICK s : Step(d, [pc |-> "commit", agent |-> op[d].agent, run |-> op[d].run,
                            tool |-> op[d].tool, scope |-> op[d].scope, row |-> s])
      BY <1>15, <2>2 DEF Admit
    <3>2. op'[d].pc = "commit" /\ op'[d].run = op[d].run /\ op'[d].tool = op[d].tool
      BY <1>4, <3>1
    <3>3. QED BY <1>15, <3>2 DEF Admit, OpMove
  <2>3. QED BY <2>1, <2>2
<1>16. ASSUME Commit(d)
       PROVE  OpMove(d)
  <2>1. CASE Done(d)
    BY <1>5, <2>1
  <2>2. ASSUME NEW a, NEW want,
               Step(d, [Create(a, want, op[d].scope, op[d].run, "consume", "nobody", op[d].tool)
                        EXCEPT !.row = op[d].row])
        PROVE  OpMove(d)
    <3>1. [Create(a, want, op[d].scope, op[d].run, "consume", "nobody", op[d].tool)
           EXCEPT !.row = op[d].row].pc = "exists"
      BY DEF Create
    <3>2. QED BY <1>4, <2>2, <3>1 DEF OpMove
  <2>3. CASE Step(d, [pc |-> "consume", run |-> op[d].run, tool |-> op[d].tool, row |-> op[d].row])
    <3>1. op'[d].pc = "consume"
      BY <1>4, <2>3
    <3>2. QED BY <3>1 DEF OpMove
  <2>4. QED BY <1>16, <2>1, <2>2, <2>3 DEF Commit
<1>17. ASSUME NEW c \in Callers, Request(c), c # d
       PROVE  OpMove(d)
  <2>1. CASE \E o : Step(c, o)
    BY <1>3, <1>17, <2>1
  <2>2. CASE RecordScope(c)
    <3>1. CASE op[c].todo = {}
      BY <1>3, <1>17, <2>2, <3>1 DEF RecordScope, Done
    <3>2. CASE op[c].todo # {}
      <4>1. PICK t \in op[c].todo :
              op' = [x \in Callers |->
                 IF x = c THEN [op[c] EXCEPT !.todo = @ \ {t}]
                 ELSE Dropped(op[x], op[c].agent, t,
                        {"scope"} \cup (IF rows[op[c].agent][t].once = "fresh" THEN {"once"} ELSE {}))]
        BY <2>2, <3>2 DEF RecordScope
      <4>2. \E a, u, slots : op'[d] = Dropped(op[d], a, u, slots)
        BY <1>17, <4>1
      <4>3. QED BY <1>2, <4>2
    <3>3. QED BY <3>1, <3>2
  <2>3. CASE RevokeRows(c)
    <3>1. op'[d] = op[d] \/ \E a, t, slots : op'[d] = Dropped(op[d], a, t, slots)
      BY <1>17, <2>3 DEF RevokeRows
    <3>2. QED BY <1>2, <3>1 DEF OpMove
  <2>4. QED
    BY <1>17, <2>1, <2>2, <2>3
       DEF Request, StartCreate, RefuseCreate, TakeExisting, NoneExists, WriteCard, StartSpawn,
         StartDelegate, FindChild, Issue, StartFinish, StartCall, Admit, Commit, Consume, Leave, Done
<1>18. CASE Person
  <2>1. CASE UNCHANGED op
    BY <2>1 DEF OpMove
  <2>2. ASSUME NEW w \in pend, AllowCall(w[1], w[2])
        PROVE  OpMove(d)
    <3>1. \E a, t, slots : op'[d] = Dropped(op[d], a, t, slots)
      BY <2>2 DEF AllowCall
    <3>2. QED BY <1>2, <3>1
  <2>3. CASE MintRunOnly
    <3>1. \E a, t, slots : op'[d] = Dropped(op[d], a, t, slots)
      BY <2>3 DEF MintRunOnly
    <3>2. QED BY <1>2, <3>1
  <2>4. ASSUME NEW w \in pend, DenyCall(w[1], w[2])
        PROVE  UNCHANGED op
    BY <2>4 DEF DenyCall
  <2>5. ASSUME NEW q \in asks, DenyAsk(q) \/ AllowAsk(q)
        PROVE  UNCHANGED op
    BY <2>5 DEF DenyAsk, AllowAsk
  <2>6. QED BY <1>18, <2>1, <2>2, <2>3, <2>4, <2>5 DEF Person
<1>19. CASE Clock \/ UNCHANGED vars
  BY <1>19 DEF Clock, Lapse, Expire, ReadCard, SyncCard, SyncRuns, vars, OpMove
<1>20. QED
  BY <1>7, <1>8, <1>9, <1>10, <1>11, <1>12, <1>13, <1>14, <1>15, <1>16, <1>17, <1>18, <1>19
     DEF Next, Request

-------------------------------------------------------------------------------
(* A run executes what it started with or what a person allowed it.           *)

\* The run started with the tool, or a person allowed it that tool.
Justified(r, t) == Rank(issued[r][t]) >= 2 \/ <<r, t>> \in approved
JustifiedNext(r, t) == Rank(issued'[r][t]) >= 2 \/ <<r, t>> \in approved'

ScopeInv ==
  /\ \A r \in Runs, t \in Tools : runs[r].scope[t] \notin {"none", "deny"} => Justified(r, t)
  /\ \A c \in Callers : op[c].pc \in {"admit", "commit"} => Justified(op[c].run, op[c].tool)
  /\ \A x \in ran : Justified(x[1], x[2])

LEMMA InitScopeInv == ASSUME Init PROVE ScopeInv
<1>1. DOMAIN << >> = {}
  OBVIOUS
<1>2. Runs = {} /\ ran = {}
  BY <1>1 DEF Init, Runs
<1>3. \A c \in Callers : op[c].pc = "idle"
  BY DEF Init, Idle
<1>4. QED BY <1>2, <1>3 DEF ScopeInv

\* What justifies a call stays: the start of a run is not rewritten and approvals
\* are not taken back.
LEMMA JustifiedKept ==
  ASSUME TypeInv, [Next]_vars, NEW r \in Runs, NEW t \in Tools, Justified(r, t)
  PROVE  JustifiedNext(r, t)
<1>1. issued'[r] = issued[r] /\ approved \subseteq approved'
  BY StepRuns, StepDecision DEF RunsKept
<1>2. QED BY <1>1 DEF Justified, JustifiedNext

LEMMA StepRunScopes ==
  ASSUME TypeInv, ScopeInv, [Next]_vars,
         NEW r \in Runs', NEW t \in Tools, runs'[r].scope[t] \notin {"none", "deny"}
  PROVE  JustifiedNext(r, t)
<1>1. ASSUME r \in Runs, runs[r].scope[t] \notin {"none", "deny"}
      PROVE  JustifiedNext(r, t)
  BY <1>1, JustifiedKept DEF ScopeInv
<1>2. CASE UNCHANGED <<runs, issued, ever>>
  BY <1>1, <1>2 DEF Runs
<1>3. ASSUME NEW c \in Callers, Added(c)
      PROVE  JustifiedNext(r, t)
  <2>1. op[c].scope \in Scopes
    BY <1>3, AddedEffect DEF IssueRec
  <2>2. PICK n \in RunIds :
          /\ Runs' = Runs \cup {n}
          /\ \A s \in Runs : runs'[s] = runs[s] /\ issued'[s] = issued[s]
          /\ runs'[n] = [agent |-> op[c].agent, parent |-> op[c].run, adm |-> op[c].adm,
                         active |-> TRUE, scope |-> op[c].scope]
          /\ issued'[n] = op[c].scope
    BY <1>3, AddedEffect
  <2>3. CASE r \in Runs
    BY <1>1, <2>2, <2>3
  <2>4. CASE r = n
    <3>1. issued'[r] = op[c].scope /\ runs'[r].scope = op[c].scope
      BY <2>2, <2>4
    <3>2. op[c].scope[t] \in Specs /\ op[c].scope[t] \notin {"none", "deny"}
      BY <2>1, <3>1 DEF Scopes
    <3>3. Rank(op[c].scope[t]) >= 2
      BY <3>2 DEF Rank, Specs
    <3>4. QED BY <3>1, <3>3 DEF JustifiedNext
  <2>5. QED BY <2>2, <2>3, <2>4
<1>4. ASSUME NEW q \in Runs, Finished(q)
      PROVE  JustifiedNext(r, t)
  <2>1. r \in Runs /\ (runs'[r] = runs[r] \/ runs'[r] = [runs[r] EXCEPT !.active = FALSE])
    BY <1>4, FinishedEffect
  <2>2. [runs[r] EXCEPT !.active = FALSE].scope = runs[r].scope
    BY <2>1, RunIsRun DEF Run
  <2>3. QED BY <1>1, <2>1, <2>2
<1>5. ASSUME NEW q \in Runs, NEW u \in Tools, Widened(q, u)
      PROVE  JustifiedNext(r, t)
  <2>1. /\ r \in Runs /\ <<q, u>> \in approved'
        /\ runs'[r] = IF r = q THEN [runs[r] EXCEPT !.scope[u] = "hard"] ELSE runs[r]
    BY <1>5, WidenedEffect DEF Widened
  <2>2. CASE r = q /\ t = u
    BY <2>1, <2>2 DEF JustifiedNext
  <2>3. CASE r # q \/ t # u
    <3>1. [runs[r] EXCEPT !.scope[u] = "hard"].scope = [runs[r].scope EXCEPT ![u] = "hard"]
          /\ runs[r].scope \in Scopes
      BY <2>1, RunIsRun DEF Run
    <3>2. t # u => [runs[r].scope EXCEPT ![u] = "hard"][t] = runs[r].scope[t]
      BY <3>1 DEF Scopes
    <3>3. QED BY <1>1, <2>1, <2>3, <3>1, <3>2
  <2>4. QED BY <2>2, <2>3
<1>6. ASSUME NEW a \in Agents, NEW u \in Tools, Synced(a, u)
      PROVE  JustifiedNext(r, t)
  <2>1. r \in Runs /\ (\/ runs'[r] = runs[r]
                       \/ runs'[r] = [runs[r] EXCEPT !.scope = SoftToAsk(@, u)])
    BY <1>6, SyncedEffect
  <2>2. [runs[r] EXCEPT !.scope = SoftToAsk(@, u)].scope = SoftToAsk(runs[r].scope, u)
        /\ runs[r].scope \in Scopes
    BY <2>1, RunIsRun DEF Run
  <2>3. runs[r].scope[t] \in {"none", "deny"} => SoftToAsk(runs[r].scope, u)[t] = runs[r].scope[t]
    BY <2>2 DEF SoftToAsk, Scopes
  <2>4. QED BY <1>1, <2>1, <2>2, <2>3
<1>7. QED BY <1>2, <1>3, <1>4, <1>5, <1>6, RunsStep

LEMMA StepScopeInv ==
  ASSUME TypeInv, ScopeInv, [Next]_vars
  PROVE  ScopeInv'
<1>1. op \in [Callers -> Op] /\ ran \subseteq Runs \X Tools \X ({NoRun} \cup RunIds)
  BY DEF TypeInv
<1>2. \A r \in Runs, t \in Tools : Justified(r, t) => JustifiedNext(r, t)
  BY JustifiedKept
<1>3. ASSUME NEW c \in Callers, op[c].pc \in {"admit", "commit"}
      PROVE  JustifiedNext(op[c].run, op[c].tool)
  <2>1. op[c].run \in Runs /\ op[c].tool \in Tools
    BY <1>1, <1>3, OpByPc DEF AdmitRec, CommitRec
  <2>2. QED BY <1>2, <1>3, <2>1 DEF ScopeInv
<1>4. ASSUME NEW c \in Callers, op'[c].pc \in {"admit", "commit"}
      PROVE  JustifiedNext(op'[c].run, op'[c].tool)
  <2>1. CASE op'[c] = op[c] \/ (/\ op[c].pc \in {"admit", "commit"}
                                /\ op'[c].run = op[c].run /\ op'[c].tool = op[c].tool)
    <3>1. JustifiedNext(op[c].run, op[c].tool)
      BY <1>3, <1>4, <2>1
    <3>2. QED BY <2>1, <3>1
  <2>2. CASE op'[c].run \in Runs /\ op'[c].tool \in Tools /\ InScope(op'[c].run, op'[c].tool)
    <3>1. Justified(op'[c].run, op'[c].tool)
      BY <2>2 DEF InScope, ScopeInv
    <3>2. QED BY <1>2, <2>2, <3>1
  <2>3. OpMove(c)
    BY StepMoves
  <2>4. QED BY <1>4, <2>1, <2>2, <2>3 DEF OpMove
<1>5. \A x \in ran' : JustifiedNext(x[1], x[2])
  <2>1. ASSUME NEW x \in ran
        PROVE  JustifiedNext(x[1], x[2])
    BY <1>1, <1>2 DEF ScopeInv
  <2>2. ASSUME NEW c \in Callers, op[c] \in CommitRec, NEW n,
               ran' = ran \cup {<<op[c].run, op[c].tool, n>>}
        PROVE  \A x \in ran' : JustifiedNext(x[1], x[2])
    <3>1. JustifiedNext(op[c].run, op[c].tool)
      BY <1>3, <2>2 DEF CommitRec
    <3>2. ASSUME NEW x, x = <<op[c].run, op[c].tool, n>>
          PROVE  JustifiedNext(x[1], x[2])
      <4>1. x[1] = op[c].run /\ x[2] = op[c].tool
        BY <3>2
      <4>2. QED BY <3>1, <4>1
    <3>3. QED BY <2>1, <2>2, <3>2
  <2>3. QED BY <2>1, <2>2, StepRan
<1>6. \A r \in Runs', t \in Tools :
        runs'[r].scope[t] \notin {"none", "deny"} => JustifiedNext(r, t)
  BY StepRunScopes
<1>7. QED BY <1>4, <1>5, <1>6 DEF ScopeInv, Justified, JustifiedNext

\* A run executes a tool only if it started with that tool or a person allowed that
\* tool for that very run, whatever was decided between the two looks at its scope.
THEOREM ScopesHold == Spec => []ScopeHolds
<1>1. Init => ScopeInv
  BY InitScopeInv
<1>2. TypeInv /\ ScopeInv /\ [Next]_vars => ScopeInv'
  BY StepScopeInv
<1>3. ScopeInv => ScopeHolds
  BY DEF ScopeInv, ScopeHolds, Justified
<1>4. QED BY <1>1, <1>2, <1>3, TypeInvariance, PTL DEF Spec

-------------------------------------------------------------------------------
(* No authority out of nothing.                                               *)

\* Some creator of the agent held all of that scope when it passed the check.
Within(scope, ranks) == \A t \in Tools : \E g \in Covering(t) : Rank(scope[t]) <= ranks[g]
Sourced(a, scope, from) ==
  scope # NoScope => \E x \in from : x[1] = a /\ Within(scope, x[2])

\* Every copy of a card a request or a run still has came from such a creator.
SourceInv ==
  /\ sources \subseteq Agents \X [Tools -> Nat]
  /\ \A a \in Agents : Sourced(a, card[a].scope, sources)
  /\ \A c \in Callers : op[c].pc = "issue" => Sourced(op[c].agent, op[c].scope, sources)
  /\ \A c \in Callers : op[c].pc = "write" => Uncovered(op[c].held, op[c].want) = {}
  /\ \A r \in Runs : Sourced(runs[r].agent, issued[r], sources)
  /\ \A e \in expiring : e.step = "write" => Sourced(e.agent, e.seen.scope, sources)

LEMMA SourcedKept ==
  ASSUME NEW a, NEW scope, NEW from, NEW more, from \subseteq more, Sourced(a, scope, from)
  PROVE  Sourced(a, scope, more)
  BY DEF Sourced

\* A soft grant that became an ask is less than it was, and nothing stays nothing.
LEMMA AskIsLess ==
  ASSUME NEW a, NEW t \in Tools, NEW scope \in Scopes,
         NEW from \in SUBSET (Agents \X [Tools -> Nat]), Sourced(a, scope, from)
  PROVE  Sourced(a, SoftToAsk(scope, t), from)
<1>1. SoftToAsk(scope, t) # NoScope => scope # NoScope
  BY DEF SoftToAsk, NoScope
<1>2. ASSUME NEW ranks \in [Tools -> Nat], Within(scope, ranks)
      PROVE  Within(SoftToAsk(scope, t), ranks)
  <2>1. ASSUME NEW u \in Tools
        PROVE  \E g \in Covering(u) : Rank(SoftToAsk(scope, t)[u]) <= ranks[g]
    <3>1. SoftToAsk(scope, t)[u] = scope[u] \/ (scope[u] = "soft" /\ SoftToAsk(scope, t)[u] = "ask")
      BY DEF SoftToAsk, Scopes
    <3>2. Rank("soft") = 3 /\ Rank("ask") = 2
      BY DEF Rank
    <3>3. PICK g \in Covering(u) : Rank(scope[u]) <= ranks[g] /\ ranks[g] \in Nat
      BY <1>2 DEF Within, Covering
    <3>4. Rank(SoftToAsk(scope, t)[u]) <= ranks[g]
      BY <3>1, <3>2, <3>3
    <3>5. QED BY <3>4
  <2>2. QED BY <2>1 DEF Within
<1>3. QED BY <1>1, <1>2 DEF Sourced

LEMMA InitSourceInv == ASSUME Init PROVE SourceInv
<1>1. DOMAIN << >> = {}
  OBVIOUS
<1>2. Runs = {} /\ \A c \in Callers : op[c].pc = "idle"
  BY <1>1 DEF Init, Runs, Idle
<1>3. Cards \in [Agents -> Scopes]
  BY AgentsAssumption DEF AgentsAssumption
<1>4. \A s \in Scopes : Within(s, Ranks(s)) /\ Ranks(s) \in [Tools -> Nat]
  <2>1. \A t \in Tools : t \in Covering(t)
    BY DEF Covering
  <2>2. QED BY <2>1, ScopeTypes DEF Within, Ranks, Rank
<1>5. sources \subseteq Agents \X [Tools -> Nat]
  BY <1>3, <1>4 DEF Init
<1>6. ASSUME NEW a \in Agents
      PROVE  Sourced(a, card[a].scope, sources)
  <2>1. card[a].scope = Cards[a]
    BY <1>3 DEF Init, NoCard, CardOf
  <2>2. ASSUME Cards[a] # NoScope
        PROVE  \E x \in sources : x[1] = a /\ Within(Cards[a], x[2])
    <3>1. <<a, Ranks(Cards[a])>> \in sources
      BY <2>2 DEF Init
    <3>2. QED BY <1>3, <1>4, <3>1
  <2>3. QED BY <2>1, <2>2 DEF Sourced
<1>7. expiring = {}
  BY DEF Init
<1>8. QED BY <1>2, <1>5, <1>6, <1>7 DEF SourceInv

\* A card is written by a creator that passed the check, loses a soft grant, or stays.
LEMMA CardsSourced ==
  ASSUME TypeInv, SourceInv, [Next]_vars
  PROVE  /\ sources \subseteq sources' /\ sources' \subseteq Agents \X [Tools -> Nat]
         /\ \A a \in Agents : Sourced(a, card'[a].scope, sources')
<1>1. /\ sources \in SUBSET (Agents \X [Tools -> Nat]) /\ card \in [Agents -> Card]
      /\ \A a \in Agents : card[a].scope \in Scopes /\ Sourced(a, card[a].scope, sources)
  BY DEF SourceInv, TypeInv, Card
<1>2. CASE UNCHANGED <<card, sources>>
  BY <1>1, <1>2
<1>3. ASSUME NEW c \in Callers, WriteCard(c), ~UNCHANGED <<card, sources>>
      PROVE  /\ sources \subseteq sources' /\ sources' \subseteq Agents \X [Tools -> Nat]
             /\ \A a \in Agents : Sourced(a, card'[a].scope, sources')
  <2>1. /\ op[c] \in CreateRec /\ op[c].pc = "write"
        /\ Uncovered(op[c].held, op[c].want) = {}
    BY <1>3, OpByPc DEF WriteCard, TypeInv, SourceInv
  <2>2. PICK b \in Agents, want \in Scopes, held \in Scopes :
          b = op[c].agent /\ want = op[c].want /\ held = op[c].held
    BY <2>1 DEF CreateRec
  <2>3. /\ card' = [card EXCEPT ![b] = CardOf(want, op[c].by)]
        /\ sources' = sources \cup {<<b, Ranks(held)>>}
    BY <1>3, <2>2 DEF WriteCard
  <2>4. Ranks(held) \in [Tools -> Nat]
    BY ScopeTypes
  <2>5. Within(want, Ranks(held))
    <3>1. \A t \in Tools : \E g \in Covering(t) : ~(Rank(want[t]) > Rank(held[g]))
      BY <2>1, <2>2 DEF Uncovered
    <3>2. \A x : Rank(x) \in Nat
      BY DEF Rank
    <3>3. \A t \in Tools : \A g \in Covering(t) : Ranks(held)[g] = Rank(held[g])
      BY DEF Covering, Ranks
    <3>4. QED BY <3>1, <3>2, <3>3 DEF Within
  <2>6. card'[b].scope = want
    BY <1>1, <2>3 DEF CardOf
  <2>7. Sourced(b, want, sources')
    <3>1. PICK x \in sources' : x = <<b, Ranks(held)>>
      BY <2>3
    <3>2. x[1] = b /\ x[2] = Ranks(held)
      BY <3>1
    <3>3. QED BY <2>5, <3>2 DEF Sourced
  <2>8. ASSUME NEW a \in Agents, a # b
        PROVE  Sourced(a, card'[a].scope, sources')
    <3>1. card'[a] = card[a]
      BY <1>1, <2>3, <2>8
    <3>2. QED BY <1>1, <2>3, <3>1, SourcedKept
  <2>9. \A a \in Agents : Sourced(a, card'[a].scope, sources')
    BY <2>6, <2>7, <2>8
  <2>10. sources \subseteq sources' /\ sources' \subseteq Agents \X [Tools -> Nat]
    BY <1>1, <2>3, <2>4
  <2>11. QED BY <2>9, <2>10
<1>4. ASSUME NEW e \in expiring, SyncCard(e)
      PROVE  /\ sources' = sources
             /\ \A a \in Agents : Sourced(a, card'[a].scope, sources)
  <2>1. sources' = sources
    BY <1>4 DEF SyncCard, history
  <2>2. CASE card' = card
    BY <1>1, <2>1, <2>2
  <2>3. PICK b \in Agents, t \in Tools, seen \in Card : b = e.agent /\ t = e.tool /\ seen = e.seen
    BY DEF TypeInv, Syncing
  <2>4. seen.scope \in Scopes /\ Sourced(b, seen.scope, sources)
    BY <1>4, <2>3 DEF SourceInv, SyncCard, Card
  <2>5. CASE card' = [card EXCEPT ![b] = [seen EXCEPT !.scope = SoftToAsk(@, t)]]
    <3>1. card'[b].scope = SoftToAsk(seen.scope, t)
          /\ \A a \in Agents : a # b => card'[a] = card[a]
      BY <1>1, <2>5 DEF Card
    <3>2. Sourced(b, SoftToAsk(seen.scope, t), sources)
      BY <1>1, <2>4, AskIsLess
    <3>3. QED BY <1>1, <2>1, <3>1, <3>2
  <2>6. QED BY <1>4, <2>1, <2>2, <2>3, <2>5 DEF SyncCard
<1>5. ASSUME NEW c \in Callers, Request(c), ~WriteCard(c)
      PROVE  UNCHANGED <<card, sources>>
  BY <1>5 DEF Request, StartCreate, RefuseCreate, TakeExisting, NoneExists, RecordScope,
       StartSpawn, StartDelegate, FindChild, Issue, StartFinish, RevokeRows, StartCall, Admit,
       Commit, Consume, world, history
<1>6. ASSUME NEW a \in Agents, NEW t \in Tools, Lapse(a, t) \/ Expire(a, t)
      PROVE  UNCHANGED <<card, sources>>
  BY <1>6 DEF Lapse, Expire, history
<1>7. ASSUME NEW e \in expiring, ReadCard(e) \/ SyncRuns(e)
      PROVE  UNCHANGED <<card, sources>>
  BY <1>7 DEF ReadCard, SyncRuns, history
<1>8. CASE Person \/ UNCHANGED vars
  <2>1. UNCHANGED <<card, sources>>
    BY <1>8 DEF Person, DenyAsk, AllowAsk, AllowCall, DenyCall, MintRunOnly, vars, world, history
  <2>2. QED BY <1>2, <2>1
<1>9. QED BY <1>1, <1>2, <1>3, <1>4, <1>5, <1>6, <1>7, <1>8 DEF Next, Clock

\* A copy of a card comes from the card.
LEMMA CopiesSourced ==
  ASSUME TypeInv, SourceInv, [Next]_vars, NEW d \in expiring', d.step = "write"
  PROVE  Sourced(d.agent, d.seen.scope, sources')
<1>1. sources \subseteq sources'
  BY CardsSourced
<1>2. CASE d \in expiring
  BY <1>1, <1>2, SourcedKept DEF SourceInv
<1>3. ASSUME NEW a, NEW t, d \in expiring \cup {Sync(a, t, "card", NoCard)} PROVE d \in expiring
  <2>1. Sync(a, t, "card", NoCard).step # "write"
    BY DEF Sync
  <2>2. QED BY <1>3, <2>1
<1>4. ASSUME NEW e \in expiring, ReadCard(e), d \notin expiring
      PROVE  Sourced(d.agent, d.seen.scope, sources')
  <2>1. \/ d = Sync(e.agent, e.tool, "write", card[e.agent])
        \/ d = Sync(e.agent, e.tool, "runs", NoCard)
    BY <1>4 DEF ReadCard
  <2>2. d.agent = e.agent /\ d.seen = card[e.agent]
    BY <2>1 DEF Sync
  <2>3. e.agent \in Agents
    BY DEF TypeInv, Syncing
  <2>4. Sourced(e.agent, card[e.agent].scope, sources)
    BY <2>3 DEF SourceInv
  <2>5. QED BY <1>1, <2>2, <2>4, SourcedKept
<1>5. ASSUME NEW e \in expiring, SyncCard(e) \/ SyncRuns(e) PROVE d \in expiring
  <2>1. Sync(e.agent, e.tool, "runs", NoCard).step # "write"
    BY DEF Sync
  <2>2. QED BY <1>5, <2>1 DEF SyncCard, SyncRuns
<1>6. ASSUME NEW a \in Agents, NEW t \in Tools, Lapse(a, t) \/ Expire(a, t) PROVE d \in expiring
  BY <1>3, <1>6 DEF Lapse, Expire
<1>7. ASSUME NEW c \in Callers, Request(c)
      PROVE  d \in expiring
  BY <1>7 DEF Request, StartCreate, RefuseCreate, TakeExisting, NoneExists, WriteCard, RecordScope,
       StartSpawn, StartDelegate, FindChild, Issue, StartFinish, RevokeRows, StartCall, Admit,
       Commit, Consume, world
<1>8. CASE Person \/ UNCHANGED vars
  <2>1. d \in expiring
    BY <1>8 DEF Person, DenyAsk, AllowAsk, AllowCall, DenyCall, MintRunOnly, vars, world
  <2>2. QED BY <1>2, <2>1
<1>9. QED BY <1>2, <1>4, <1>5, <1>6, <1>7, <1>8 DEF Next, Clock

LEMMA StepSourceInv ==
  ASSUME TypeInv, SourceInv, [Next]_vars
  PROVE  SourceInv'
<1>1. /\ sources \subseteq sources' /\ sources' \subseteq Agents \X [Tools -> Nat]
      /\ \A a \in Agents : Sourced(a, card'[a].scope, sources')
  BY CardsSourced
<1>2. \A a \in Agents : Sourced(a, card[a].scope, sources')
  BY <1>1, SourcedKept DEF SourceInv
<1>3. \A c \in Callers : op[c].pc = "issue" => Sourced(op[c].agent, op[c].scope, sources')
  BY <1>1, SourcedKept DEF SourceInv
<1>4. ASSUME NEW c \in Callers
      PROVE  /\ op'[c].pc = "issue" => Sourced(op'[c].agent, op'[c].scope, sources')
             /\ op'[c].pc = "write" => Uncovered(op'[c].held, op'[c].want) = {}
  <2>1. OpMove(c)
    BY StepMoves
  <2>2. CASE op'[c] = op[c]
    BY <1>3, <2>2 DEF SourceInv
  <2>3. CASE /\ op'[c].pc = "issue"
             /\ op'[c].agent \in Agents /\ op'[c].scope = card[op'[c].agent].scope
    BY <1>2, <2>3
  <2>4. QED BY <2>1, <2>2, <2>3 DEF OpMove
<1>5. ASSUME NEW r \in Runs'
      PROVE  Sourced(runs'[r].agent, issued'[r], sources')
  <2>1. ASSUME r \in Runs
        PROVE  Sourced(runs'[r].agent, issued'[r], sources')
    <3>1. runs'[r].agent = runs[r].agent /\ issued'[r] = issued[r]
      BY <2>1, StepRuns DEF RunsKept
    <3>2. QED BY <1>1, <2>1, <3>1, SourcedKept DEF SourceInv
  <2>2. ASSUME NEW c \in Callers, Added(c)
        PROVE  Sourced(runs'[r].agent, issued'[r], sources')
    <3>1. PICK n \in RunIds :
            /\ Runs' = Runs \cup {n}
            /\ runs'[n] = [agent |-> op[c].agent, parent |-> op[c].run, adm |-> op[c].adm,
                           active |-> TRUE, scope |-> op[c].scope]
            /\ issued'[n] = op[c].scope
      BY <2>2, AddedEffect
    <3>2. runs'[n].agent = op[c].agent
      BY <3>1
    <3>3. Sourced(op[c].agent, op[c].scope, sources')
      BY <1>3, <2>2 DEF Added
    <3>4. QED BY <2>1, <3>1, <3>2, <3>3
  <2>3. UNCHANGED runs => Runs' = Runs
    BY DEF Runs
  <2>4. QED BY <2>1, <2>2, <2>3, RunsStep, FinishedEffect, WidenedEffect, SyncedEffect
<1>6. \A d \in expiring' : d.step = "write" => Sourced(d.agent, d.seen.scope, sources')
  BY CopiesSourced
<1>7. QED BY <1>1, <1>4, <1>5, <1>6 DEF SourceInv

\* What an agent's run starts with, some creator of the agent held when it passed the
\* subset check: creators that race for one name, cards rewritten under a request
\* that has read them and grants that expire in between included.
THEOREM AuthorityComesFromCreators == Spec => []AuthorityHasSource
<1>1. Init => SourceInv
  BY InitSourceInv
<1>2. TypeInv /\ SourceInv /\ [Next]_vars => SourceInv'
  BY StepSourceInv
<1>3. SourceInv => AuthorityHasSource
  BY DEF SourceInv, AuthorityHasSource, Sourced, Within
<1>4. QED BY <1>1, <1>2, <1>3, TypeInvariance, PTL DEF Spec
===============================================================================
