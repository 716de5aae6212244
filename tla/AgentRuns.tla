------------------------------ MODULE AgentRuns ------------------------------
(***************************************************************************)
(* The Agents API of src/agent/runs.rs with the run-only grants of         *)
(* src/broker/gate.rs.  Requests come from the frame loop and from one     *)
(* thread per MCP connection: create an agent, spawn or finish a run,      *)
(* delegate part of a run's grants to a child, call a tool.  A request     *)
(* that is refused files an ask; a person who allows it widens that run.   *)
(*                                                                         *)
(* A step is what one thread does under one lock or with one file: the     *)
(* journal of runs has a lock of its own, an agent's card has none, and    *)
(* the grant rows live behind the locks of the gate.  Between two steps a   *)
(* request only has the copies it took.  Any write may fail.  One workspace, *)
(* one host session; calls of one agent and tool have the same arguments.  *)
(***************************************************************************)
EXTENDS Naturals, Sequences, FiniteSets

CONSTANTS
  Callers,      \* threads that serve requests
  Agents, Tools,
  Star,         \* the name "*", which no tool has but a run may be given
  Creators,     \* tools that create an agent when they run (agents.create)
  Identities,   \* agents that can be found without a card
  Cards,        \* the cards there are at first: agent -> scope, NoScope for none
  Wants,        \* the scopes that requests ask for
  Admissions,   \* admission ids that callers of spawn_run use
  Quota,        \* how many requests of each kind are made
  MaxRuns

Specs == {"none", "deny", "ask", "soft", "hard"}
Scopes == [Tools -> Specs]

NoScope == [t \in Tools |-> "none"]
Everything == [t \in Tools |-> "hard"]
Kinds == {"create", "spawn", "delegate", "call", "finish"}
Nobody == "nobody"
NoCard == [scope |-> NoScope, by |-> Nobody, exists |-> FALSE]
CardOf(s, by) == [scope |-> s, by |-> by, exists |-> TRUE]

ASSUME AgentsAssumption ==
  /\ Creators \subseteq Tools
  /\ Wants \subseteq Scopes
  /\ \A w \in Wants : Star \in Tools => w[Star] = "none"   \* parse_grant_spec
  /\ Cards \in [Agents -> Scopes]
  /\ Quota \in [Kinds -> Nat]
  /\ MaxRuns \in Nat

VARIABLES
  card,         \* agent.json of each agent
  runs,         \* runs.jsonl, the last record of each run
  rows,         \* the grant rows of each agent and tool
  asks,         \* open permission requests
  pend,         \* calls that wait for a person: agent and tool
  dec,          \* the decision a person is taking on an ask
  expiring,     \* soft rows that fell back to ask, with how far card and runs are synced
  op,           \* the request each caller serves
  started,      \* how many requests of each kind were started
  issued,       \* history: the scope each run started with
  ever,         \* history: the most each run was ever recorded to hold
  sources,      \* history: what the creators of an agent held when they passed the check
  filed,        \* history: run and tool of every refusal that filed or joined an ask
  approved,     \* history: run and tool of every ask that was allowed
  ran           \* history: run and tool of executed calls, with the run of the row

world   == <<card, runs, rows, asks, pend, dec, expiring>>
history == <<issued, ever, sources, filed, approved, ran>>
vars == <<world, op, started, history>>

Runs == DOMAIN runs
RunIds == 1 .. MaxRuns
NoRun == 0

\* The rows of one agent and tool that a call can match: the scope row that a
\* card made, the run-only row, and the one-shot row of a call a person allowed.
Row == [scope : {"none", "soft", "hard", "lapsed", "ask"},
        run : {NoRun} \cup RunIds, once : {"none", "fresh", "used"}]
NoRow == [scope |-> "none", run |-> NoRun, once |-> "none"]
Slots == {"scope", "run", "once"}

Ask == [tag : RunIds, run : RunIds, tool : Tools]

Idle == [pc |-> "idle"]

-----------------------------------------------------------------------------
(* Grants: decision_rank, covers, same_grant_specs.                          *)

Rank(spec) ==
  CASE spec = "none" -> 0 [] spec = "deny" -> 1 [] spec = "ask" -> 2 [] OTHER -> 3

Ranks(scope) == [t \in Tools |-> Rank(scope[t])]

\* Mutant: a grant of the tool covers whatever is asked of it.
UncoveredNames(held, want) ==
  {t \in Tools : want[t] # "none" /\ held[t] = "none"}

\* A grant of a tool is covered by one of the same tool or of "*".
Covering(t) == {t, Star} \cap Tools

Uncovered(held, want) ==
  {t \in Tools : \A g \in Covering(t) : Rank(want[t]) > Rank(held[g])}

Allows(spec) == spec \in {"soft", "hard"}

\* What find_agent returns: a card, or an identity without authority.
Found(a) == card[a].exists \/ a \in Identities

-----------------------------------------------------------------------------
Init ==
  /\ card = [a \in Agents |-> IF Cards[a] = NoScope THEN NoCard ELSE CardOf(Cards[a], Nobody)]
  /\ runs = << >>
  /\ rows = [a \in Agents |-> [t \in Tools |->
       [NoRow EXCEPT !.scope = IF Allows(Cards[a][t]) THEN Cards[a][t] ELSE "none"]]]
  /\ asks = {}
  /\ pend = {}
  /\ dec = [step |-> "idle"]
  /\ expiring = {}
  /\ op = [c \in Callers |-> Idle]
  /\ started = [k \in Kinds |-> 0]
  /\ issued = << >>
  /\ ever = << >>
  /\ sources = {<<a, Ranks(Cards[a])>> : a \in {b \in Agents : Cards[b] # NoScope}}
  /\ filed = {} /\ approved = {} /\ ran = {}

-----------------------------------------------------------------------------
(* Requests and their grant rows.                                            *)

Step(c, o) == op' = [op EXCEPT ![c] = o]
Done(c) == Step(c, Idle)

Start(kind) == /\ started[kind] < Quota[kind]
               /\ started' = [started EXCEPT ![kind] = @ + 1]

\* A row was replaced or removed: who holds its grant id holds nothing.
Dropped(o, a, t, slots) ==
  IF o.pc = "commit" /\ o.agent = a /\ o.tool = t /\ o.row \in slots
  THEN [o EXCEPT !.row = "gone"] ELSE o

\* deny_with_request: an open ask of the same tag and tool is joined.  A child
\* files under its parent's tag.
File(r, t) ==
  LET tag == IF runs[r].parent = NoRun THEN r ELSE runs[r].parent IN
    /\ asks' = IF \E q \in asks : q.tag = tag /\ q.tool = t THEN asks
               ELSE asks \cup {[tag |-> tag, run |-> r, tool |-> t]}
    /\ filed' = filed \cup {<<r, t>>}

\* A refusal of the parent's own delegation is tagged with the parent.
FileOwn(r, t) ==
  /\ asks' = IF \E q \in asks : q.tag = r /\ q.tool = t THEN asks
             ELSE asks \cup {[tag |-> r, run |-> r, tool |-> t]}
  /\ filed' = filed \cup {<<r, t>>}

-----------------------------------------------------------------------------
(* create_agent, also inside delegate and inside agents.create.              *)

\* `then` is where the request goes after the agent is there.
Create(a, want, held, run, then, by, tool) ==
  [pc |-> "exists", agent |-> a, want |-> want, held |-> held, run |-> run,
   then |-> then, by |-> by, tool |-> tool, row |-> "gone", todo |-> {}]

\* The creation failed; one inside a call goes back to the call.
Leave(c) == IF op[c].then = "consume" THEN Step(c, [op[c] EXCEPT !.pc = "consume"]) ELSE Done(c)

\* Without a parent run: the operator or a human pane, who may give anything,
\* or an agent pane, which holds the grants of its card.  Each names whom the
\* agent reports to as it likes.
StartCreate(c) ==
  /\ op[c] = Idle
  /\ Start("create")
  /\ \E a \in Agents, want \in Wants, by \in Agents \cup {Nobody} :
       \E held \in {Everything} \cup {card[b].scope : b \in {d \in Agents : Found(d)}} :
         Step(c, Create(a, want, held, NoRun, "done", by, "none"))
  /\ UNCHANGED <<world, history>>

\* The subset check, then the look at the directory.
RefuseCreate(c) ==
  /\ op[c].pc = "exists"
  /\ \E t \in Uncovered(op[c].held, op[c].want) :
       IF op[c].run = NoRun THEN UNCHANGED <<asks, filed>> ELSE FileOwn(op[c].run, t)
  /\ Leave(c)
  /\ UNCHANGED <<card, runs, rows, pend, dec, expiring, started, issued,
                 ever, sources, approved, ran>>

\* An agent that exists is taken over by a delegation only if its grants are the
\* ones asked for and it reports to the same agent.  The ask of that refusal is
\* for a tool of the agent's name, which no call can use.
TakeExisting(c) ==
  /\ op[c].pc = "exists"
  /\ Uncovered(op[c].held, op[c].want) = {}
  /\ card[op[c].agent].exists
  /\ IF /\ op[c].then = "find"
        /\ card[op[c].agent].scope = op[c].want
        /\ card[op[c].agent].by = op[c].by
     THEN Step(c, [op[c] EXCEPT !.pc = "find"])
     ELSE Leave(c)
  /\ UNCHANGED <<world, started, history>>

NoneExists(c) ==
  /\ op[c].pc = "exists"
  /\ Uncovered(op[c].held, op[c].want) = {}
  /\ ~card[op[c].agent].exists
  /\ Step(c, [op[c] EXCEPT !.pc = "write"])
  /\ UNCHANGED <<world, started, history>>

\* write_definition: agent.json is the last file written.
WriteCard(c) ==
  /\ op[c].pc = "write"
  /\ \/ /\ card' = [card EXCEPT ![op[c].agent] =
                      CardOf(op[c].want, op[c].by)]
        /\ sources' = sources \cup {<<op[c].agent, Ranks(op[c].held)>>}
        /\ Step(c, [op[c] EXCEPT !.pc = "rows",
                      !.todo = {t \in Tools : Allows(op[c].want[t])}])
     \/ /\ UNCHANGED <<card, sources>>
        /\ Leave(c)
  /\ UNCHANGED <<runs, rows, asks, pend, dec, expiring, started, issued,
                 ever, filed, approved, ran>>

\* record_scope_allow replaces every row of the agent and tool that is bound to
\* no run: also one-shot rows that were not used yet.
RecordScope(c) ==
  /\ op[c].pc = "rows"
  /\ IF op[c].todo = {}
     THEN /\ IF op[c].then = "done" THEN Done(c)
             ELSE Step(c, [op[c] EXCEPT !.pc = op[c].then])
          /\ UNCHANGED rows
     ELSE \E t \in op[c].todo :
          LET a == op[c].agent IN
            /\ rows' = [rows EXCEPT ![a][t].scope = op[c].want[t],
                          ![a][t].once = IF @ = "fresh" THEN "none" ELSE @]
            /\ op' = [d \in Callers |->
                 IF d = c THEN [op[c] EXCEPT !.todo = @ \ {t}]
                 ELSE Dropped(op[d], a, t,
                        {"scope"} \cup (IF rows[a][t].once = "fresh" THEN {"once"} ELSE {}))]
  /\ UNCHANGED <<card, runs, asks, pend, dec, expiring, started, history>>

-----------------------------------------------------------------------------
(* spawn_run, delegate and issue_run.                                        *)

StartSpawn(c) ==
  /\ op[c] = Idle
  /\ Start("spawn")
  /\ \E a \in Agents, adm \in Admissions :
       /\ Found(a)
       /\ Step(c, [pc |-> "issue", agent |-> a, run |-> NoRun, adm |-> adm,
                   scope |-> card[a].scope])
  /\ UNCHANGED <<world, history>>

\* The parent is read without the journal lock.
StartDelegate(c) ==
  /\ op[c] = Idle
  /\ Start("delegate")
  /\ \E p \in Runs, a \in Agents, want \in Wants :
       /\ runs[p].active
       /\ Step(c, Create(a, want, runs[p].scope, p, "find", runs[p].agent, "none"))
  /\ UNCHANGED <<world, history>>

\* find_agent reads the card again: whatever it says now is what the child gets.
FindChild(c) ==
  /\ op[c].pc = "find"
  /\ Step(c, [pc |-> "issue", agent |-> op[c].agent, run |-> op[c].run,
              adm |-> <<op[c].run, op[c].agent>>, scope |-> card[op[c].agent].scope])
  /\ UNCHANGED <<world, started, history>>

\* Mutant: only a run of the same admission is looked for.
AnyAgent(a) == TRUE

FreeAgent(a) == \A r \in Runs : runs[r].agent = a => ~runs[r].active

AdmittedBefore(a, adm) == \E r \in Runs : runs[r].agent = a /\ runs[r].adm = adm

\* issue_run, under the journal lock to the end.  The row it then adds to the AI
\* ledger may fail, which the caller is told; the run stands all the same.
Issue(c) ==
  /\ op[c].pc = "issue"
  /\ \/ \* the same admission again, a conflict, or the journal cannot be written
        UNCHANGED <<runs, issued, ever>>
     \/ /\ ~AdmittedBefore(op[c].agent, op[c].adm)
        /\ FreeAgent(op[c].agent)
        /\ Len(runs) < MaxRuns
        /\ runs' = Append(runs, [agent |-> op[c].agent, parent |-> op[c].run,
                     adm |-> op[c].adm, active |-> TRUE, scope |-> op[c].scope])
        /\ issued' = Append(issued, op[c].scope)
        /\ ever' = Append(ever, Ranks(op[c].scope))
  /\ Done(c)
  /\ UNCHANGED <<card, rows, asks, pend, dec, expiring, started, sources, filed,
                 approved, ran>>

-----------------------------------------------------------------------------
(* finish_run.                                                               *)

StartFinish(c) ==
  /\ op[c] = Idle
  /\ Start("finish")
  /\ \E r \in Runs :
       /\ runs' = [runs EXCEPT ![r].active = FALSE]
       /\ Step(c, [pc |-> "revoke", run |-> r])
  /\ UNCHANGED <<card, rows, asks, pend, dec, expiring, history>>

\* The rows bound to the run go after the journal lock was released.
RevokeRows(c) ==
  /\ op[c].pc = "revoke"
  /\ LET a == runs[op[c].run].agent
         bound == {t \in Tools : rows[a][t].run = op[c].run} IN
       /\ rows' = [rows EXCEPT ![a] = [t \in Tools |->
            IF t \in bound THEN [rows[a][t] EXCEPT !.run = NoRun] ELSE rows[a][t]]]
       /\ op' = [d \in Callers |->
            IF d = c THEN Idle
            ELSE IF op[d].pc = "commit" /\ op[d].tool \in bound
            THEN Dropped(op[d], a, op[d].tool, {"run"}) ELSE op[d]]
  /\ UNCHANGED <<card, runs, asks, pend, dec, expiring, started, history>>

-----------------------------------------------------------------------------
(* invoke.                                                                   *)

\* Mutant: a tool outside the run's grants goes on to the gate.
InScopeAlways(r, t) == runs[r].active /\ runs[r].scope[t] # "deny"

InScope(r, t) == runs[r].active /\ runs[r].scope[t] \notin {"none", "deny"}

StartCall(c) ==
  /\ op[c] = Idle
  /\ Start("call")
  /\ \E r \in Runs, t \in Tools :
       IF InScope(r, t)
       THEN /\ Step(c, [pc |-> "admit", agent |-> runs[r].agent, run |-> r, tool |-> t,
                        scope |-> runs[r].scope])
            /\ UNCHANGED <<asks, filed>>
       ELSE File(r, t) /\ Done(c)
  /\ UNCHANGED <<card, runs, rows, pend, dec, expiring, issued, ever,
                 sources, approved, ran>>

\* The rows that answer a call; an ask row outranks every allowance.
Answering(a, t) ==
  {s \in Slots : CASE s = "scope" -> rows[a][t].scope \in {"soft", "hard"}
                   [] s = "run"   -> rows[a][t].run # NoRun
                   [] s = "once"  -> rows[a][t].once = "fresh"}

\* admit.  A soft row whose time is over answers nothing, also in the moment
\* before it is turned to ask.  A lasting denial, which is no row here, or
\* arguments that are not valid file a permission request.
Admit(c) ==
  /\ op[c].pc = "admit"
  /\ LET a == op[c].agent
         t == op[c].tool
         allowed == rows[a][t].scope # "ask" /\ Answering(a, t) # {} IN
       \/ /\ allowed
          /\ \E s \in Answering(a, t) :
               Step(c, [pc |-> "commit", agent |-> a, run |-> op[c].run, tool |-> t,
                        scope |-> op[c].scope, row |-> s])
          /\ UNCHANGED <<asks, pend, filed>>
       \/ /\ ~allowed
          /\ pend' = pend \cup {<<a, t>>}
          /\ Done(c)
          /\ UNCHANGED <<asks, filed>>
       \/ /\ File(op[c].run, t)
          /\ Done(c)
          /\ UNCHANGED pend
  /\ UNCHANGED <<card, runs, rows, dec, expiring, started, issued, ever,
                 sources, approved, ran>>

Alive(o) ==
  CASE o.row = "scope" -> rows[o.agent][o.tool].scope \in {"soft", "hard", "lapsed"}
    [] o.row = "run"   -> rows[o.agent][o.tool].run # NoRun
    [] o.row = "once"  -> rows[o.agent][o.tool].once # "none"
    [] OTHER           -> FALSE

\* note_use, then the tool runs.
Commit(c) ==
  /\ op[c].pc = "commit"
  /\ LET o == op[c] IN
       \/ /\ Alive(o)
          /\ ran' = ran \cup {<<o.run, o.tool,
                        IF o.row = "run" THEN rows[o.agent][o.tool].run ELSE NoRun>>}
          /\ \/ /\ o.tool \in Creators
                /\ \E a \in Agents, want \in Wants :
                     Step(c, [Create(a, want, o.scope, o.run, "consume", "nobody", o.tool)
                              EXCEPT !.row = o.row])
             \/ Step(c, [pc |-> "consume", run |-> o.run, tool |-> o.tool, row |-> o.row])
          /\ UNCHANGED <<asks, filed>>
       \/ \* the row is gone, or the audit failed
          File(o.run, o.tool) /\ Done(c) /\ UNCHANGED ran
  /\ UNCHANGED <<card, runs, rows, pend, dec, expiring, started, issued,
                 ever, sources, approved>>

Consume(c) ==
  /\ op[c].pc = "consume"
  /\ LET a == runs[op[c].run].agent IN
       rows' = IF op[c].row = "once" /\ rows[a][op[c].tool].once = "fresh"
               THEN [rows EXCEPT ![a][op[c].tool].once = "used"] ELSE rows
  /\ Done(c)
  /\ UNCHANGED <<card, runs, asks, pend, dec, expiring, started, history>>

-----------------------------------------------------------------------------
(* A person.                                                                 *)

\* A call that waits is allowed once; gate.rs has the steps of this decision.
AllowCall(a, t) ==
  /\ <<a, t>> \in pend
  /\ pend' = pend \ {<<a, t>>}
  /\ rows' = [rows EXCEPT ![a][t].once = "fresh"]
  /\ op' = [d \in Callers |-> Dropped(op[d], a, t, {"once"})]
  /\ UNCHANGED <<card, runs, asks, dec, expiring, started, history>>

DenyCall(a, t) ==
  /\ <<a, t>> \in pend
  /\ pend' = pend \ {<<a, t>>}
  /\ UNCHANGED <<card, runs, rows, asks, dec, expiring, op, started, history>>

DenyAsk(q) ==
  /\ dec.step = "idle"
  /\ asks' = asks \ {q}
  /\ UNCHANGED <<card, runs, rows, pend, dec, expiring, op, started, history>>

\* Mutant: the tag of the ask says whom it is for.
TargetByTag(q) == q.tag

Target(q) == q.run

\* Mutant: the run is written back as the ask found it.
WidenReviving(r, t) ==
  [runs EXCEPT ![r].scope[t] = "hard", ![r].active = TRUE]

\* grant_tool_for_run, under the journal lock.
Widen(r, t) == [runs EXCEPT ![r].scope[t] = "hard"]

AllowAsk(q) ==
  /\ dec.step = "idle"
  /\ dec' = [step |-> "mint", ask |-> q]
  /\ approved' = approved \cup {<<Target(q), q.tool>>}
  /\ \/ /\ runs' = Widen(Target(q), q.tool)
        /\ ever' = [ever EXCEPT ![Target(q)][q.tool] = 3]
     \/ UNCHANGED <<runs, ever>>       \* the journal could not be written
  /\ UNCHANGED <<card, rows, asks, pend, expiring, op, started, issued,
                 sources, filed, ran>>

\* record_run_only_grant replaces the run-only row of any run of this agent;
\* when an audit fails the row stays and the ask stays open.
MintRunOnly ==
  /\ dec.step = "mint"
  /\ LET r == Target(dec.ask)
         a == runs[r].agent
         t == dec.ask.tool IN
       /\ rows' = [rows EXCEPT ![a][t].run = r]
       /\ op' = [d \in Callers |-> Dropped(op[d], a, t, {"run"})]
  /\ asks' \in {asks, asks \ {dec.ask}}
  /\ dec' = [step |-> "idle"]
  /\ UNCHANGED <<card, runs, pend, expiring, started, history>>

-----------------------------------------------------------------------------
(* Soft grants.                                                              *)

Sync(a, t, step, seen) == [agent |-> a, tool |-> t, step |-> step, seen |-> seen]

Lapse(a, t) ==
  /\ rows[a][t].scope = "soft"
  /\ rows' = [rows EXCEPT ![a][t].scope = "lapsed"]
  /\ UNCHANGED <<card, runs, asks, pend, dec, expiring, op, started, history>>

\* expire_soft_grants turns the row to ask under the store lock, ...
Expire(a, t) ==
  /\ rows[a][t].scope = "lapsed"
  /\ rows' = [rows EXCEPT ![a][t].scope = "ask"]
  /\ expiring' = expiring \cup {Sync(a, t, "card", NoCard)}
  /\ UNCHANGED <<card, runs, asks, pend, dec, op, started, history>>

\* Mutant: the card and the runs take over the state of the row.
SoftToLapsed(scope, t) == IF scope[t] = "soft" THEN [scope EXCEPT ![t] = "lapsed"] ELSE scope

SoftToAsk(scope, t) == IF scope[t] = "soft" THEN [scope EXCEPT ![t] = "ask"] ELSE scope

\* ... then the card is read and written back, without a lock, ...
ReadCard(e) ==
  /\ e.step = "card"
  /\ expiring' = (expiring \ {e}) \cup
       {IF card[e.agent].scope[e.tool] = "soft"
        THEN Sync(e.agent, e.tool, "write", card[e.agent])
        ELSE Sync(e.agent, e.tool, "runs", NoCard)}
  /\ UNCHANGED <<card, runs, rows, asks, pend, dec, op, started, history>>

SyncCard(e) ==
  /\ e.step = "write"
  /\ card' \in {card, [card EXCEPT ![e.agent] =
                         [e.seen EXCEPT !.scope = SoftToAsk(@, e.tool)]]}
  /\ expiring' = (expiring \ {e}) \cup {Sync(e.agent, e.tool, "runs", NoCard)}
  /\ UNCHANGED <<runs, rows, asks, pend, dec, op, started, history>>

\* ... and the active runs, under their lock.
SyncRuns(e) ==
  /\ e.step = "runs"
  /\ runs' \in {runs, [r \in Runs |->
       IF runs[r].active /\ runs[r].agent = e.agent
       THEN [runs[r] EXCEPT !.scope = SoftToAsk(@, e.tool)] ELSE runs[r]]}
  /\ expiring' = expiring \ {e}
  /\ UNCHANGED <<card, rows, asks, pend, dec, op, started, history>>

-----------------------------------------------------------------------------
Request(c) ==
  \/ StartCreate(c) \/ RefuseCreate(c) \/ TakeExisting(c) \/ NoneExists(c)
  \/ WriteCard(c) \/ RecordScope(c)
  \/ StartSpawn(c) \/ StartDelegate(c) \/ FindChild(c) \/ Issue(c)
  \/ StartFinish(c) \/ RevokeRows(c)
  \/ StartCall(c) \/ Admit(c) \/ Commit(c) \/ Consume(c)

Person ==
  \/ \E q \in asks : DenyAsk(q) \/ AllowAsk(q)
  \/ \E w \in pend : AllowCall(w[1], w[2]) \/ DenyCall(w[1], w[2])
  \/ MintRunOnly

Clock ==
  \/ \E a \in Agents, t \in Tools : Lapse(a, t) \/ Expire(a, t)
  \/ \E e \in expiring : ReadCard(e) \/ SyncCard(e) \/ SyncRuns(e)

Next == (\E c \in Callers : Request(c)) \/ Person \/ Clock

Spec == Init /\ [][Next]_vars

-----------------------------------------------------------------------------
(* What the Agents API promises.                                             *)

\* Every variable keeps its shape; runs refer to runs that exist.
TypeOK ==
  /\ \A a \in Agents : card[a].scope \in Scopes /\ card[a].exists \in BOOLEAN
  /\ Len(runs) <= MaxRuns
  /\ \A r \in Runs : /\ runs[r].agent \in Agents /\ runs[r].scope \in Scopes
                     /\ runs[r].parent < r
  /\ rows \in [Agents -> [Tools -> Row]]
  /\ asks \subseteq Ask
  /\ pend \subseteq Agents \X Tools
  /\ Len(issued) = Len(runs) /\ Len(ever) = Len(runs)

\* "agent already has an active run": although requests read agents and parents
\* outside the journal lock, an agent has at most one active run, and an
\* admission of it stands for one run however often it is retried.
OneRunAtATime ==
  \A r, s \in Runs : runs[r].agent = runs[s].agent =>
    /\ runs[r].active /\ runs[s].active => r = s
    /\ runs[r].adm = runs[s].adm => r = s

\* The journal is folded last-record-wins: no later record of a run (a grant
\* given to it, a soft grant that expires) brings a finished run back.
FinishedStaysFinished ==
  [][\A r \in Runs : ~runs[r].active => ~runs'[r].active]_vars

\* No authority out of nothing: the scope an agent's run starts with was within
\* what some creator of the agent held when it passed the subset check, also
\* when creators race for one name and when grants expire in between.
AuthorityHasSource ==
  \A r \in Runs : issued[r] # NoScope =>
    \E s \in sources :
      /\ s[1] = runs[r].agent
      /\ \A t \in Tools : \E g \in Covering(t) : Rank(issued[r][t]) <= s[2][g]

\* "Delegation copies a subset of the parent run's grants onto a temporary
\* child" (runs.rs:8).
ChildWithinParent ==
  \A r \in Runs : runs[r].parent # NoRun =>
    \A t \in Tools : \E g \in Covering(t) : Rank(issued[r][t]) <= ever[runs[r].parent][g]

\* A run executes a tool only if it started with that tool or a person allowed
\* that tool for that very run: rows of other runs, races and expiry included.
ScopeHolds ==
  \A x \in ran : Rank(issued[x[1]][x[2]]) >= 2 \/ <<x[1], x[2]>> \in approved

\* An ask that a person allows widens a run that was itself refused this tool,
\* never its parent or another child of the same parent that joined the ask.
ApprovalReachesFiler == approved \subseteq filed

\* A run-only row can serve another run of its agent (an ask decided late, a
\* call that outlives its run), but never while both runs are active, never a
\* run of another agent, and only for a tool a person allowed to its own run.
BorrowedAcrossFinish ==
  \A x \in ran : x[3] \notin {NoRun, x[1]} =>
    /\ ~(runs[x[1]].active /\ runs[x[3]].active)
    /\ runs[x[3]].agent = runs[x[1]].agent
    /\ <<x[3], x[2]>> \in approved
=============================================================================
