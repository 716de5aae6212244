---------------------------- MODULE PermissionGate ----------------------------
(***************************************************************************)
(* The permission monitor of src/broker/gate.rs as tool dispatch uses it   *)
(* (src/plexi_ai/tool_dispatch.rs).  Worker threads dispatch calls, people *)
(* decide the asks those calls file, rows are revoked, reset and allowed   *)
(* from the permissions list, and a caller that waits for a decision may   *)
(* give up.  Every step below is one critical section of one thread: the   *)
(* locks taken (store, pending, resolutions, admission) are released       *)
(* between steps, decision_lock is held while dec.step is not "idle".      *)
(*                                                                         *)
(* Any audit write and any file write may fail.  A row is known by the     *)
(* position at which it was minted; the order of rows in the store vector, *)
(* which save_durable shuffles, is not kept: find may return any match.    *)
(***************************************************************************)
EXTENDS Naturals, Sequences, FiniteSets

CONSTANTS
  Calls,        \* tool calls in flight, one worker thread each
  Waiters,      \* the calls whose dispatcher has a waiting presenter
  Bindings,     \* exact bindings: actor, tool, resource, arguments, ...
  Tools,        \* what is left of a binding when arguments are ignored
  BindingOf,    \* the binding of each call
  ToolOf,       \* the tool of each binding
  AppTools,     \* tools served by an app connector
  Keyed,        \* bindings whose arguments name an operation id
  Posture,      \* per binding: "open", "deny" (listed), "closed" (default deny)
  Offered,      \* the choices people make in a behaviour
  MaxAsks,      \* bound on the asks a behaviour files
  MaxGrants     \* rows after which no new decision or edit starts

ASSUME GateAssumption ==
  /\ Waiters \subseteq Calls
  /\ AppTools \subseteq Tools
  /\ Keyed \subseteq Bindings
  /\ BindingOf \in [Calls -> Bindings]
  /\ ToolOf \in [Bindings -> Tools]
  /\ Posture \in [Bindings -> {"open", "deny", "closed"}]
  /\ Offered \subseteq {"once", "session", "allow_tool", "always", "deny", "deny_always"}
  /\ MaxAsks \in Nat
  /\ MaxGrants \in Nat

VARIABLES
  pc,           \* where each call's worker stands
  asked,        \* the ask a call filed or joined, 0 before
  holds,        \* the row the last admission named, 0 for none
  minted,       \* every row ever built, in order of creation
  store,        \* the rows the grant store holds
  consumed,     \* the one-shot rows whose consumed flag is set
  lapsed,       \* the rows whose expiry has passed
  filed,        \* the binding of every ask ever filed
  pending,      \* asks waiting for a decision
  resolutions,  \* what was decided of each ask
  needsYou,     \* the needs-you item of each ask
  dec,          \* the approve_pending that holds decision_lock
  edit,         \* the allow_entry in progress
  audited,      \* rows whose decision reached the audit file
  revoked       \* rows removed by revoke or reset

callVars  == <<pc, asked, holds>>
grantVars == <<minted, store, consumed, lapsed>>
askVars   == <<filed, pending, resolutions, needsYou>>
vars == <<callVars, grantVars, askVars, dec, edit, audited, revoked>>

Asks     == 1 .. MaxAsks
GrantIds == DOMAIN minted

\* "cancel" is the Deny a waiter submits when it gives up.
AllowChoices  == {"once", "session", "allow_tool", "always"}
RefuseChoices == {"deny", "deny_always", "cancel"}
Choices       == AllowChoices \cup RefuseChoices
Unstored      == {"deny", "cancel"}          \* choices that mint no row
Durable       == {"always", "deny_always"}   \* choices saved before they stand

Grant == [binding : Bindings, effect : {"allow", "deny"},
          life : {"once", "session", "always"}, wide : BOOLEAN,
          source : {"session", "user"}, ask : Nat]

Committed == {"exec", "consume", "done", "failed"}
Answered  == {"required", "denied", "timedout", "done", "failed"}
PcStates  == {"idle", "file", "waiting", "cancelling", "readmit", "refile",
              "found", "commit"} \cup Committed \cup Answered

NoDecision == [step |-> "idle", ask |-> 0, choice |-> "deny", grant |-> 0]
NoEdit     == [step |-> "idle", old |-> 0, new |-> 0]

-----------------------------------------------------------------------------
(* Evaluation: GrantRecord::matches and GrantStore::evaluate_at.             *)

Covers(r, b) == /\ ToolOf[r.binding] = ToolOf[b]
                /\ r.wide \/ r.binding = b

Matches(g, b) ==
  /\ g \notin lapsed
  /\ Covers(minted[g], b)
  /\ minted[g].life = "once" /\ g \in consumed => b \in Keyed

Matching(b) == {g \in store : Matches(g, b)}

Matched(b, effect) == \E g \in Matching(b) : minted[g].effect = effect

Evaluate(b) ==
  IF Matched(b, "deny") \/ Posture[b] = "deny" THEN "deny"
  ELSE IF Matched(b, "allow") THEN "allow"
  ELSE IF Posture[b] = "closed" THEN "deny"
  ELSE "ask"

\* GrantStore::record replaces the rows of the same binding and source.
Superseded(r) == {g \in store : /\ minted[g].binding = r.binding
                                /\ minted[g].source = r.source}

\* The row approve_pending builds for a choice.
RowFor(p, choice) ==
  [binding |-> filed[p],
   effect  |-> IF choice = "deny_always" THEN "deny" ELSE "allow",
   life    |-> CASE choice = "once" -> "once"
                 [] choice \in {"session", "allow_tool"} -> "session"
                 [] OTHER -> "always",
   wide    |-> choice \in {"allow_tool", "deny_always"},
   source  |-> IF choice \in Durable THEN "user" ELSE "session",
   ask     |-> p]

-----------------------------------------------------------------------------
Init ==
  /\ pc = [c \in Calls |-> "idle"]
  /\ asked = [c \in Calls |-> 0]
  /\ holds = [c \in Calls |-> 0]
  /\ minted = << >>
  /\ store = {}
  /\ consumed = {}
  /\ lapsed = {}
  /\ filed = << >>
  /\ pending = {}
  /\ resolutions = [p \in Asks |-> "none"]
  /\ needsYou = [p \in Asks |-> "absent"]
  /\ dec = NoDecision
  /\ edit = NoEdit
  /\ audited = {}
  /\ revoked = {}

-----------------------------------------------------------------------------
(* A call: dispatch_call_admitted, one step per critical section.            *)

Goto(c, s) == pc' = [pc EXCEPT ![c] = s]

Admit(c, onAsk) ==
  /\ Goto(c, CASE Evaluate(BindingOf[c]) = "deny"  -> "denied"
               [] Evaluate(BindingOf[c]) = "allow" -> "found"
               [] Evaluate(BindingOf[c]) = "ask"   -> onAsk)
  /\ UNCHANGED <<asked, holds, grantVars, askVars, dec, edit, audited, revoked>>

Dispatch(c) == pc[c] = "idle" /\ Admit(c, "file")

\* After an allowing decision the call is admitted again from scratch.
Readmit(c) == pc[c] = "readmit" /\ Admit(c, "refile")

\* Mutant: every admission files an ask of its own.
SamePendingNever(b) == {p \in pending : FALSE}

SamePending(b) == {p \in pending : filed[p] = b}

JoinAsk(c) ==
  /\ \E p \in SamePending(BindingOf[c]) : asked' = [asked EXCEPT ![c] = p]
  /\ UNCHANGED askVars

\* Mutant: the identifier handed back is taken after the row was pushed.
NewAskOffByOne(c) ==
  /\ SamePending(BindingOf[c]) = {}
  /\ Len(filed) < MaxAsks
  /\ filed' = Append(filed, BindingOf[c])
  /\ pending' = pending \cup {Len(filed) + 1}
  /\ needsYou' = [needsYou EXCEPT ![Len(filed) + 1] = "open"]
  /\ asked' = [asked EXCEPT ![c] = Len(filed') + 1]
  /\ UNCHANGED resolutions

NewAsk(c) ==
  /\ SamePending(BindingOf[c]) = {}
  /\ Len(filed) < MaxAsks
  /\ filed' = Append(filed, BindingOf[c])
  /\ pending' = pending \cup {Len(filed) + 1}
  /\ needsYou' = [needsYou EXCEPT ![Len(filed) + 1] = "open"]
  /\ asked' = [asked EXCEPT ![c] = Len(filed) + 1]
  /\ UNCHANGED resolutions

\* persist_pending, under the pending lock.  A call that already waited once,
\* or that has no presenter, is answered permission_required.
FileAsk(c) ==
  /\ pc[c] \in {"file", "refile"}
  /\ JoinAsk(c) \/ NewAsk(c)
  /\ Goto(c, IF pc[c] = "file" /\ c \in Waiters THEN "waiting" ELSE "required")
  /\ UNCHANGED <<holds, grantVars, dec, edit, audited, revoked>>

\* The grant id is looked up after evaluation, under a second store lock.
FindGrant(c) ==
  /\ pc[c] = "found"
  /\ IF Matching(BindingOf[c]) = {}
     THEN holds' = [holds EXCEPT ![c] = 0]
     ELSE \E g \in Matching(BindingOf[c]) : holds' = [holds EXCEPT ![c] = g]
  /\ Goto(c, "commit")
  /\ UNCHANGED <<asked, grantVars, askVars, dec, edit, audited, revoked>>

\* Mutants: note_use trusts the admission and does not look the row up again;
\* note_use looks the row up and forgets what it decides.
AliveOnceMinted(g) == g \in GrantIds /\ minted[g].effect = "allow"
AliveAnyEffect(g) == g \in store

Alive(g) == g \in store /\ minted[g].effect = "allow"

\* note_use: the commit point, under the admission lock.  Its audit may fail.
NoteUse(c) ==
  /\ pc[c] = "commit"
  /\ \E auditOk \in BOOLEAN :
        Goto(c, IF Alive(holds[c]) /\ auditOk THEN "exec" ELSE "denied")
  /\ UNCHANGED <<asked, holds, grantVars, askVars, dec, edit, audited, revoked>>

\* The handler ran and note_outcome was tried; only success goes on to consume.
Execute(c) ==
  /\ pc[c] = "exec"
  /\ \E ok \in BOOLEAN : Goto(c, IF ok THEN "consume" ELSE "failed")
  /\ UNCHANGED <<asked, holds, grantVars, askVars, dec, edit, audited, revoked>>

Consume(c) ==
  /\ pc[c] = "consume"
  /\ consumed' = consumed \cup
       {g \in store : g = holds[c] /\ minted[g].life = "once"}
  /\ Goto(c, "done")
  /\ UNCHANGED <<asked, holds, minted, store, lapsed, askVars, dec, edit,
                 audited, revoked>>

-----------------------------------------------------------------------------
(* A waiting caller: WaitingApproval::present of src/app/app_call.rs.        *)

SeeDecision(c) ==
  /\ pc[c] = "waiting"
  /\ resolutions[asked[c]] # "none"
  /\ Goto(c, IF resolutions[asked[c]] \in AllowChoices THEN "readmit" ELSE "denied")
  /\ UNCHANGED <<asked, holds, grantVars, askVars, dec, edit, audited, revoked>>

\* Mutant: the poll looks at its deadline only after it has seen a decision.
GiveUpWhenDecided(c) ==
  /\ pc[c] = "waiting"
  /\ resolutions[asked[c]] # "none"
  /\ Goto(c, "cancelling")
  /\ UNCHANGED <<asked, holds, grantVars, askVars, dec, edit, audited, revoked>>

\* The deadline passed or the calling process died.
GiveUp(c) ==
  /\ pc[c] = "waiting"
  /\ Goto(c, "cancelling")
  /\ UNCHANGED <<asked, holds, grantVars, askVars, dec, edit, audited, revoked>>

Undecided(p) == p \in pending /\ resolutions[p] = "none"

Begin(p, choice) ==
  /\ dec.step = "idle"
  /\ Undecided(p)
  /\ dec' = [step |-> IF choice \in Unstored THEN "drop" ELSE "record",
             ask |-> p, choice |-> choice, grant |-> 0]
  /\ UNCHANGED <<callVars, grantVars, askVars, edit, audited, revoked>>

CancelAsk(c) == pc[c] = "cancelling" /\ Begin(asked[c], "cancel")

\* Its own cancellation is over, or someone decided first; that error is
\* dropped and the caller is told the request was not executed.
TimedOut(c) ==
  /\ pc[c] = "cancelling"
  /\ dec.step = "idle"
  /\ ~Undecided(asked[c])
  /\ Goto(c, "timedout")
  /\ UNCHANGED <<asked, holds, grantVars, askVars, dec, edit, audited, revoked>>

-----------------------------------------------------------------------------
(* A decision: approve_pending, under decision_lock.                         *)

Decide(p, choice) ==
  /\ choice = "allow_tool" => ToolOf[filed[p]] \in AppTools
  /\ choice \in Unstored \/ Len(minted) < MaxGrants
  /\ Begin(p, choice)

RecordRow ==
  /\ dec.step = "record"
  /\ LET r == RowFor(dec.ask, dec.choice) IN
       /\ minted' = Append(minted, r)
       /\ store' = (store \ Superseded(r)) \cup {Len(minted) + 1}
  /\ dec' = [dec EXCEPT !.grant = Len(minted) + 1,
                        !.step = IF dec.choice \in Durable THEN "save" ELSE "audit"]
  /\ UNCHANGED <<callVars, consumed, lapsed, askVars, edit, audited, revoked>>

\* Mutant: a failed write is reported and the row stays.
RollbackKeepsRow == UNCHANGED store /\ dec' = NoDecision

Rollback ==
  /\ store' = store \ {dec.grant}
  /\ dec' = NoDecision

SaveRow ==
  /\ dec.step = "save"
  /\ \/ /\ dec' = [dec EXCEPT !.step =
                     IF dec.choice = "always" THEN "audit" ELSE "drop"]
        /\ UNCHANGED store
     \/ Rollback
  /\ UNCHANGED <<callVars, minted, consumed, lapsed, askVars, edit, audited, revoked>>

AuditRow ==
  /\ dec.step = "audit"
  /\ \/ /\ audited' = audited \cup {dec.grant}
        /\ dec' = [dec EXCEPT !.step = "drop"]
        /\ UNCHANGED store
     \/ Rollback /\ UNCHANGED audited
  /\ UNCHANGED <<callVars, minted, consumed, lapsed, askVars, edit, revoked>>

\* Mutant: the ask is dropped and the decision is never published.
DropPendingOnly ==
  /\ dec.step = "drop"
  /\ pending' = pending \ {dec.ask}
  /\ dec' = NoDecision
  /\ UNCHANGED <<callVars, grantVars, filed, resolutions, needsYou, edit,
                 audited, revoked>>

DropPending ==
  /\ dec.step = "drop"
  /\ pending' = pending \ {dec.ask}
  /\ dec' = [dec EXCEPT !.step = "publish"]
  /\ UNCHANGED <<callVars, grantVars, filed, resolutions, needsYou, edit,
                 audited, revoked>>

Publish ==
  /\ dec.step = "publish"
  /\ resolutions' = [resolutions EXCEPT ![dec.ask] = dec.choice]
  /\ dec' = [dec EXCEPT !.step = "close"]
  /\ UNCHANGED <<callVars, grantVars, filed, pending, needsYou, edit, audited, revoked>>

\* Mutant: only a plain denial closes the item as denied.
CloseItemByDenyOnly ==
  /\ dec.step = "close"
  /\ \/ needsYou' = [needsYou EXCEPT ![dec.ask] =
                       IF dec.choice = "deny" THEN "denied" ELSE "approved"]
     \/ UNCHANGED needsYou
  /\ dec' = NoDecision
  /\ UNCHANGED <<callVars, grantVars, filed, pending, resolutions, edit,
                 audited, revoked>>

\* close_needs_you: when its audit fails the item stays open; the decision
\* stands either way because the caller drops the result.
CloseItem ==
  /\ dec.step = "close"
  /\ \/ needsYou' = [needsYou EXCEPT ![dec.ask] =
                       IF dec.choice \in AllowChoices THEN "approved" ELSE "denied"]
     \/ UNCHANGED needsYou
  /\ dec' = NoDecision
  /\ UNCHANGED <<callVars, grantVars, filed, pending, resolutions, edit,
                 audited, revoked>>

-----------------------------------------------------------------------------
(* The permissions list: revoke_entry, reset_entry, allow_entry; expiry.     *)

Revoke(g) ==
  /\ g \in store
  /\ store' = store \ {g}
  /\ revoked' = revoked \cup {g}
  /\ UNCHANGED <<callVars, minted, consumed, lapsed, askVars, dec, edit, audited>>

\* allow_entry copies the denial under one store lock ...
AllowEntry(g) ==
  /\ edit.step = "idle"
  /\ g \in store
  /\ minted[g].effect = "deny"
  /\ Len(minted) < MaxGrants
  /\ edit' = [step |-> "swap", old |-> g, new |-> 0]
  /\ UNCHANGED <<callVars, grantVars, askVars, dec, audited, revoked>>

\* ... and swaps it for an allowance under the next one.
SwapEntry ==
  /\ edit.step = "swap"
  /\ LET r == [minted[edit.old] EXCEPT !.effect = "allow", !.life = "always",
                 !.wide = TRUE, !.source = "user", !.ask = 0] IN
       /\ minted' = Append(minted, r)
       /\ store' = (store \ ({edit.old} \cup Superseded(r))) \cup {Len(minted) + 1}
  /\ edit' = [edit EXCEPT !.step = "save", !.new = Len(minted) + 1]
  /\ UNCHANGED <<callVars, consumed, lapsed, askVars, dec, audited, revoked>>

SaveEntry ==
  /\ edit.step = "save"
  /\ \/ edit' = NoEdit /\ UNCHANGED store
     \/ /\ edit' = [edit EXCEPT !.step = "restore"]
        /\ store' = store \ {edit.new}
  /\ UNCHANGED <<callVars, minted, consumed, lapsed, askVars, dec, audited, revoked>>

RestoreEntry ==
  /\ edit.step = "restore"
  /\ store' = (store \ Superseded(minted[edit.old])) \cup {edit.old}
  /\ edit' = NoEdit
  /\ UNCHANGED <<callVars, minted, consumed, lapsed, askVars, dec, audited, revoked>>

\* The thirty days of an allow-until row are over.
Lapse(g) ==
  /\ g \in store \ lapsed
  /\ minted[g].effect = "allow" /\ minted[g].life = "always"
  /\ lapsed' = lapsed \cup {g}
  /\ UNCHANGED <<callVars, minted, store, consumed, askVars, dec, edit, audited, revoked>>

-----------------------------------------------------------------------------
CallStep(c) ==
  \/ Dispatch(c) \/ Readmit(c) \/ FileAsk(c) \/ FindGrant(c) \/ NoteUse(c)
  \/ Execute(c) \/ Consume(c)
  \/ SeeDecision(c) \/ GiveUp(c) \/ CancelAsk(c) \/ TimedOut(c)

DecisionStep ==
  RecordRow \/ SaveRow \/ AuditRow \/ DropPending \/ Publish \/ CloseItem

EntryStep == SwapEntry \/ SaveEntry \/ RestoreEntry

Person ==
  \/ \E p \in pending, choice \in Offered : Decide(p, choice)
  \/ \E g \in store : Revoke(g) \/ AllowEntry(g) \/ Lapse(g)

Next == (\E c \in Calls : CallStep(c)) \/ DecisionStep \/ EntryStep \/ Person

\* Threads that are inside the monitor finish; people need never act.
Fairness == /\ \A c \in Calls : WF_vars(CallStep(c))
            /\ WF_vars(DecisionStep)
            /\ WF_vars(EntryStep)

Spec == Init /\ [][Next]_vars /\ Fairness

-----------------------------------------------------------------------------
(* What the monitor promises.                                                *)

\* Every variable keeps its shape: row and ask identifiers name rows and asks
\* that exist, and the lock holders are in one of their steps.
TypeOK ==
  /\ pc \in [Calls -> PcStates]
  /\ asked \in [Calls -> 0 .. Len(filed)]
  /\ holds \in [Calls -> {0} \cup GrantIds]
  /\ minted \in Seq(Grant)
  /\ store \subseteq GrantIds
  /\ consumed \subseteq GrantIds
  /\ lapsed \subseteq GrantIds
  /\ filed \in Seq(Bindings)
  /\ Len(filed) <= MaxAsks
  /\ pending \subseteq DOMAIN filed
  /\ resolutions \in [Asks -> Choices \cup {"none"}]
  /\ needsYou \in [Asks -> {"absent", "open", "approved", "denied"}]
  /\ dec \in [step : {"idle", "record", "save", "audit", "drop", "publish", "close"},
              ask : Nat, choice : Choices, grant : Nat]
  /\ edit \in [step : {"idle", "swap", "save", "restore"}, old : Nat, new : Nat]
  /\ audited \subseteq GrantIds
  /\ revoked \subseteq GrantIds

\* Whatever happens between evaluation, lookup and commit, a call that commits
\* does so under an allowing row whose scope covers its own binding: a row
\* found after a denial was recorded never carries the call past note_use.
CommitMatchesGrant ==
  \A c \in Calls : pc[c] \in Committed =>
    /\ holds[c] \in GrantIds
    /\ minted[holds[c]].effect = "allow"
    /\ Covers(minted[holds[c]], BindingOf[c])

Commits(c) == pc[c] = "commit" /\ pc'[c] = "exec"

\* Revoke and commit share one admission lock (gate.rs module comment): once a
\* revoke is over no call commits under the row it removed, in particular
\* not a call admitted before it, nor after a failed allow_entry puts rows back.
RevokeBoundary ==
  [][\A c \in Calls : Commits(c) => holds[c] \notin revoked]_vars

InFlight(p) == dec.step # "idle" /\ dec.ask = p

AllowedFor(p) == {g \in GrantIds : minted[g].ask = p /\ minted[g].effect = "allow"}

\* One decision per ask, all or nothing, although approve_pending works in six
\* critical sections that may fail: when it is over, an allowed ask produced
\* exactly one audited row, and an ask that was refused, or whose decision
\* failed, left no row that could authorize a call and no audited row.
DecisionAtomic ==
  \A p \in DOMAIN filed : ~InFlight(p) =>
    IF resolutions[p] \in AllowChoices
    THEN \E g \in AllowedFor(p) : AllowedFor(p) \cap audited = {g}
    ELSE AllowedFor(p) \cap (store \cup audited) = {}

\* persist_pending joins an existing ask: two calls never have two asks open
\* for one binding, and an ask that waits for a decision is always listed to
\* the person who has to take it.
AskQueueConsistent ==
  /\ \A p, q \in pending : filed[p] = filed[q] => p = q
  /\ \A p \in pending : needsYou[p] = "open"

\* The item a person sees closed says what was decided: an item is approved
\* only if the ask was allowed, denied only if it was refused.
ItemMatchesDecision ==
  \A p \in DOMAIN filed :
    /\ needsYou[p] = "approved" => resolutions[p] \in AllowChoices
    /\ needsYou[p] = "denied" => resolutions[p] \in RefuseChoices

\* A caller is never left waiting on an ask nobody can answer any more: it is
\* still pending, being decided, or decided.
WaitersAskIsLive ==
  \A c \in Calls : pc[c] \in {"waiting", "cancelling"} =>
    asked[c] \in pending \/ InFlight(asked[c]) \/ resolutions[asked[c]] # "none"

\* Every dispatched call is answered, whatever people do or fail to do and
\* whichever writes fail: the presenter's deadline ends the only open wait.
EveryCallAnswered ==
  \A c \in Calls : pc[c] # "idle" ~> pc[c] \in Answered
=============================================================================
