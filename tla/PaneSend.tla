------------------------------- MODULE PaneSend -------------------------------
(***************************************************************************)
(* `plexi pane send` by an agent: one operation id names one exact send,   *)
(* however often it is retried.  The send is admitted by the permission    *)
(* monitor, may wait for a person, is journalled before its effect and     *)
(* settled after it (src/app/lifecycle.rs, src/app/pane_wait.rs and the    *)
(* continuations of src/broker/gate.rs).                                   *)
(*                                                                         *)
(* The frame loop runs one handler at a time: ui names the one in          *)
(* progress, split where the host may die or the thread of the phone relay *)
(* may deny an ask.  Every write may fail.  One caller pane sends to one   *)
(* target pane, so an exact request is an operation id and a text.         *)
(***************************************************************************)
EXTENDS Naturals, Sequences, FiniteSets

CONSTANTS
  Requests,     \* the SendToPane commands issued, each at most once
  Ops, Texts,   \* operation ids, and what is to be sent
  OpOf, TextOf, \* the operation id and the text of each request
  Submits,      \* the operations sent with --submit
  Rank,         \* the order of the journal's keys: operation ids and asks
  Offered,      \* the choices people make in a behaviour
  MaxAsks,        \* bound on the asks filed
  MaxRevocations, \* bound on the grants people take back
  MaxRestarts     \* bound on the times the host dies

Asks == 1 .. MaxAsks
Keys == Ops \cup Asks

ASSUME SendAssumption ==
  /\ OpOf \in [Requests -> Ops]
  /\ TextOf \in [Requests -> Texts]
  /\ Submits \subseteq Ops
  /\ Offered \subseteq {"once", "always", "deny", "never"}
  /\ MaxAsks \in Nat /\ MaxRevocations \in Nat /\ MaxRestarts \in Nat
  /\ Ops \cap Asks = {}
  /\ Rank \in [Keys -> Nat]
  /\ \A j, k \in Keys : Rank[j] = Rank[k] => j = k

VARIABLES
  answer,       \* per request: "none", "open" or the reply it was given
  parked,       \* pending_send_approvals: the ask a request waits for, or 0
  submitting,   \* pending_submits: requests that wait for Enter to be confirmed
  ui,           \* the send handler in progress
  conts,        \* continuations, by run id
  filed,        \* the exact request of each ask ever filed
  pending,      \* asks waiting for a decision
  open,         \* asks whose needs-you item is unresolved
  fresh,        \* asks filed since the host started
  resolutions,  \* decisions taken since the host started
  denying,      \* the ask the relay thread is denying, or 0
  rows,         \* the grant store
  disk,         \* what survives: continuations, queue and grant rows
  delivered,    \* the texts the target pane received, per operation
  rewound,      \* history: operations that a departing waiter or a new ask
                \* offered again after a claim
  revocations, restarts

sendVars == <<answer, parked, submitting, ui>>
askVars  == <<filed, pending, open, fresh, resolutions, denying>>
bounds   == <<revocations, restarts>>
vars == <<sendVars, askVars, conts, rows, disk, delivered, rewound, bounds>>

Binding == [op : Ops, text : Texts]
BindingOf(r) == [op |-> OpOf[r], text |-> TextOf[r]]

Row == [binding : Binding, kind : {"once", "always", "never"}]

States == {"waiting_user", "running", "paused", "completed", "failed",
           "canceled", "outcome_unknown"}
InFlight == {"running", "waiting_user", "paused"}
Outcomes == {"none", "unblocked", "retry_required", "retry_check", "canceled",
             "completed", "failed", "outcome_unknown"}

Record == [op : Ops, text : Texts, ask : Nat, state : States,
           resolution : {"none", "approved", "denied"}, outcome : Outcomes,
           receipt : BOOLEAN]

NoRecord == [state |-> "absent"]

Refusals == {"conflict", "duplicate", "unknown", "terminal", "waiting",
             "unrecorded", "denied", "replaced", "detached"}
Replies  == Refusals \cup {"ok", "failed", "lost"}

Idle == [step |-> "idle"]

-----------------------------------------------------------------------------
(* The journal.                                                              *)

First(S) == CHOOSE k \in S : \A j \in S : Rank[k] <= Rank[j]

RecordsIn(c, o) == {k \in Keys : c[k] # NoRecord /\ c[k].op = o}

Present      == {k \in Keys : conts[k] # NoRecord}
RecordsOf(o) == RecordsIn(conts, o)
AskedBy(a)   == {k \in Present : conts[k].ask = a}

\* get_continuation and complete_continuation look under the id itself first.
KeyOf(o) == IF o \in Present THEN o ELSE First(RecordsOf(o))

Save(c) == disk' = [disk EXCEPT !.conts = c]

\* The record a claim consults, the first one of the operation, refuses it.
Spent(c, o) == /\ RecordsIn(c, o) # {}
               /\ c[First(RecordsIn(c, o))].state \notin InFlight

Reopen == rewound' = rewound \cup {o \in Ops : Spent(conts, o) /\ ~Spent(conts', o)}

\* persist_continuations and persist_queue log a failed write and go on.
Persist(c, open_, pending_) ==
  \E saveConts, saveQueue \in BOOLEAN :
    disk' = [disk EXCEPT !.conts = IF saveConts THEN c ELSE @,
                         !.queue = IF saveQueue THEN open_ \cap pending_ ELSE @]

\* upsert_continuation of the waiting record of ask a.
Renewed(b) == /\ b.op \in Present
              /\ conts[b.op].outcome = "retry_check"
              /\ conts[b.op].text = b.text

RunId(b, a) ==
  IF b.op \in Present /\ ~Renewed(b) /\ conts[b.op].ask \notin {0, a} THEN a ELSE b.op

Upserted(b, a) ==
  LET new  == [op |-> b.op, text |-> b.text, ask |-> a, state |-> "waiting_user",
               resolution |-> "none", outcome |-> "none", receipt |-> FALSE]
      was  == conts[RunId(b, a)]
      kept == IF Renewed(b)
              THEN [was EXCEPT !.resolution = "none", !.outcome = "none", !.receipt = FALSE]
              ELSE was
  IN [conts EXCEPT ![RunId(b, a)] =
        IF was = NoRecord THEN new
        ELSE IF was.state \in {"completed", "outcome_unknown"} THEN kept
        ELSE [kept EXCEPT !.ask = a, !.state = "waiting_user"]]

\* Mutant: a failed effect is recorded like one that succeeded.
CompletedAlways(o, state, receipt) ==
  [conts EXCEPT ![KeyOf(o)] = [@ EXCEPT !.state = "completed", !.outcome = "completed",
                                        !.receipt = receipt \/ conts[KeyOf(o)].receipt]]

\* complete_continuation.
Completed(o, state, receipt) ==
  [conts EXCEPT ![KeyOf(o)] = [@ EXCEPT !.state = state, !.outcome = state,
                                        !.receipt = receipt \/ conts[KeyOf(o)].receipt]]

\* update_continuation_on_needs_you, with the outcome of decision_run_outcome.
RunOutcome(a, rec, resolution) ==
  IF resolution = "denied" THEN "canceled"
  ELSE IF rec.outcome = "retry_required" THEN "retry_required"
  ELSE IF a \in fresh THEN "unblocked" ELSE "outcome_unknown"

NextState(rec, resolution, outcome) ==
  IF resolution = "denied"
  THEN IF rec.state \in InFlight THEN "canceled" ELSE rec.state
  ELSE IF outcome = "retry_required" THEN "paused"
  ELSE IF outcome = "outcome_unknown" /\ ~rec.receipt THEN "outcome_unknown"
  ELSE IF rec.state = "waiting_user" THEN "running" ELSE rec.state

Decided(a, resolution) ==
  [k \in Keys |->
    IF k \notin AskedBy(a) THEN conts[k]
    ELSE LET out == RunOutcome(a, conts[First(AskedBy(a))], resolution) IN
         [conts[k] EXCEPT !.resolution = resolution, !.outcome = out,
                          !.state = NextState(conts[k], resolution, out)]]

-----------------------------------------------------------------------------
(* Admission, as PermissionGate models it, of one caller and one target.      *)

Covers(g, b) == g.kind # "once" \/ g.binding = b
Allows(g, b) == g.kind # "never" /\ Covers(g, b)

Admission(b) ==
  IF \E g \in rows : g.kind = "never" THEN "deny"
  ELSE IF \E g \in rows : Allows(g, b) THEN "allow" ELSE "ask"

SamePending(b) == {a \in pending : filed[a] = b}

\* GrantStore::record: rows of the same binding and source are replaced.
Recorded(g) ==
  {h \in rows : h.binding # g.binding \/ (h.kind = "once") # (g.kind = "once")} \cup {g}

-----------------------------------------------------------------------------
Init ==
  /\ answer = [r \in Requests |-> "none"]
  /\ parked = [r \in Requests |-> 0]
  /\ submitting = {}
  /\ ui = Idle
  /\ conts = [k \in Keys |-> NoRecord]
  /\ filed = << >>
  /\ pending = {} /\ open = {} /\ fresh = {}
  /\ resolutions = [a \in Asks |-> "none"]
  /\ denying = 0
  /\ rows = {}
  /\ disk = [conts |-> [k \in Keys |-> NoRecord], queue |-> {}, rows |-> {}]
  /\ delivered = [o \in Ops |-> << >>]
  /\ rewound = {}
  /\ revocations = 0 /\ restarts = 0

-----------------------------------------------------------------------------
(* The SendToPane handler, from its arrival to its reply.                     *)

Reply(r, what) == answer' = [answer EXCEPT ![r] = what]
Finish(r, what) == Reply(r, what) /\ ui' = Idle

Arrive(r) ==
  /\ ui = Idle /\ answer[r] = "none"
  /\ Reply(r, "open")
  /\ ui' = [step |-> "send", req |-> r]
  /\ UNCHANGED <<parked, submitting, askVars, conts, rows, disk, delivered,
                 rewound, bounds>>

\* What the operation's record says about running it (again).
Verdict(rec, r) ==
  IF rec.text # TextOf[r] THEN "conflict"
  ELSE CASE rec.state = "completed" -> "duplicate"
         [] rec.state = "outcome_unknown" -> "unknown"
         [] rec.state \in {"failed", "canceled"} -> "terminal"
         [] OTHER -> "go"

\* The check of operation identity before admission.
PreCheck(r) ==
  IF RecordsOf(OpOf[r]) = {} THEN "go" ELSE Verdict(conts[KeyOf(OpOf[r])], r)

Refuse(r) ==
  /\ ui = [step |-> "send", req |-> r]
  /\ \/ PreCheck(r) # "go" /\ Finish(r, PreCheck(r))
     \/ PreCheck(r) = "go" /\ Admission(BindingOf(r)) = "deny" /\ Finish(r, "denied")
  /\ UNCHANGED <<parked, submitting, askVars, conts, rows, disk, delivered,
                 rewound, bounds>>

\* Mutant: the earlier waiter is dropped without a reply.
ParkSilently(r, a) ==
  /\ parked' = [q \in Requests |-> IF q = r THEN a
                                   ELSE IF parked[q] = a THEN 0 ELSE parked[q]]
  /\ UNCHANGED answer

\* Parking a waiter answers an earlier waiter of the same ask.
Park(r, a) ==
  /\ parked' = [q \in Requests |-> IF q = r THEN a
                                   ELSE IF parked[q] = a THEN 0 ELSE parked[q]]
  /\ answer' = [q \in Requests |-> IF q # r /\ parked[q] = a THEN "replaced"
                                   ELSE answer[q]]

\* persist_pending and its continuation; a restored ask is joined as it is.
AskPerson(r) ==
  /\ ui = [step |-> "send", req |-> r]
  /\ PreCheck(r) = "go"
  /\ Admission(BindingOf(r)) = "ask"
  /\ IF SamePending(BindingOf(r)) # {}
     THEN /\ \E a \in SamePending(BindingOf(r)) : Park(r, a)
          /\ \E saved \in BOOLEAN :
               disk' = [disk EXCEPT !.queue = IF saved THEN open \cap pending ELSE @]
          /\ UNCHANGED <<conts, filed, pending, open, fresh, rewound>>
     ELSE LET a == Len(filed) + 1 IN
          /\ a \in Asks
          /\ filed' = Append(filed, BindingOf(r))
          /\ pending' = pending \cup {a}
          /\ open' = open \cup {a}
          /\ fresh' = fresh \cup {a}
          /\ conts' = Upserted(BindingOf(r), a)
          /\ Park(r, a)
          /\ Persist(conts', open', pending')
          /\ Reopen
  /\ ui' = Idle
  /\ UNCHANGED <<submitting, resolutions, denying, rows, delivered, bounds>>

\* Admission allows; claim_pane_send follows at once.
Admitted(r) ==
  /\ ui = [step |-> "send", req |-> r]
  /\ PreCheck(r) = "go"
  /\ Admission(BindingOf(r)) = "allow"
  /\ ui' = [step |-> "claim", req |-> r]
  /\ UNCHANGED <<answer, parked, submitting, askVars, conts, rows, disk,
                 delivered, rewound, bounds>>

ClaimKey(o) == IF RecordsOf(o) = {} THEN o ELSE First(RecordsOf(o))

ClaimVerdict(r) ==
  IF RecordsOf(OpOf[r]) = {} THEN "go"
  ELSE LET rec == conts[ClaimKey(OpOf[r])] IN
       IF rec.text = TextOf[r] /\ rec.state = "waiting_user" /\ rec.resolution = "none"
       THEN "waiting" ELSE Verdict(rec, r)

Claimed(r) ==
  [conts EXCEPT ![ClaimKey(OpOf[r])] =
     IF @ = NoRecord
     THEN [op |-> OpOf[r], text |-> TextOf[r], ask |-> 0, state |-> "outcome_unknown",
           resolution |-> "none", outcome |-> "outcome_unknown", receipt |-> FALSE]
     ELSE [@ EXCEPT !.state = "outcome_unknown", !.outcome = "outcome_unknown"]]

\* Mutant: the claim stays in memory.
WriteClaimMutant(r) == conts' = Claimed(r) /\ UNCHANGED disk

WriteClaim(r) == conts' = Claimed(r) /\ Save(Claimed(r))

\* claim_pane_send: the unknown marker is on disk before the first effect.
Claim(r) ==
  /\ ui = [step |-> "claim", req |-> r]
  /\ \/ /\ ClaimVerdict(r) # "go"
        /\ Finish(r, ClaimVerdict(r))
        /\ UNCHANGED <<conts, disk>>
     \/ /\ ClaimVerdict(r) = "go"
        /\ Finish(r, "unrecorded")
        /\ UNCHANGED <<conts, disk>>
     \/ /\ ClaimVerdict(r) = "go"
        /\ WriteClaim(r)
        /\ ui' = [step |-> "deliver", req |-> r]
        /\ UNCHANGED answer
  /\ UNCHANGED <<parked, submitting, askVars, rows, delivered, rewound, bounds>>

\* The text reaches the pane, or the pane is gone, busy or of another kind.
Deliver(r) ==
  /\ ui = [step |-> "deliver", req |-> r]
  /\ \/ /\ OpOf[r] \in Submits => submitting = {}
        /\ delivered' = [delivered EXCEPT ![OpOf[r]] = Append(@, TextOf[r])]
        /\ submitting' = IF OpOf[r] \in Submits THEN {r} ELSE submitting
        /\ ui' = [step |-> "settle", req |-> r, sent |-> TRUE]
     \/ /\ ui' = [step |-> "settle", req |-> r, sent |-> FALSE]
        /\ UNCHANGED <<delivered, submitting>>
  /\ UNCHANGED <<answer, parked, askVars, conts, rows, disk, rewound, bounds>>

\* note_use and note_outcome.  Of a submit that was typed the outcome comes later.
\* consume_once ties a one-shot row to the operation its binding names already:
\* it goes on admitting that operation's retries, so rows keep no consumed flag.
Settle(r) ==
  /\ ui.step = "settle" /\ ui.req = r
  /\ LET b     == BindingOf(r)
         alive == \E g \in rows : Allows(g, b)
         state == IF ui.sent THEN "completed" ELSE "failed" IN
     \E used, noted \in BOOLEAN :
       /\ used => alive
       /\ IF ui.sent /\ b.op \in Submits
          THEN UNCHANGED <<answer, conts, disk>>
          ELSE /\ IF noted
                  THEN conts' = Completed(b.op, state, TRUE) /\ Save(conts')
                  ELSE UNCHANGED <<conts, disk>>
               /\ Reply(r, CASE ~(used /\ noted) -> "unknown"
                             [] used /\ noted /\ ui.sent -> "ok"
                             [] OTHER -> "failed")
  /\ ui' = Idle
  /\ UNCHANGED <<parked, submitting, askVars, rows, delivered, rewound, bounds>>

\* service_pending_submits: Enter was pressed and confirmed, or it was not.
SubmitDone(r) ==
  /\ ui = Idle /\ r \in submitting
  /\ \E confirmed, saved \in BOOLEAN :
       /\ IF saved
          THEN /\ conts' = Completed(OpOf[r],
                             IF confirmed THEN "completed" ELSE "outcome_unknown", FALSE)
               /\ Save(conts')
          ELSE UNCHANGED <<conts, disk>>
       /\ Reply(r, CASE ~saved -> "unknown"
                     [] saved /\ confirmed -> "ok"
                     [] OTHER -> "failed")
  /\ submitting' = submitting \ {r}
  /\ UNCHANGED <<parked, ui, askVars, rows, delivered, rewound, bounds>>

-----------------------------------------------------------------------------
(* service_pending_send_approvals, once per frame.                            *)

\* The caller is gone or its wait is over: looked at before the decision.
\* detach_pane_send_waiter reopens whatever record asked for this decision.
Detach(r) ==
  /\ ui = Idle /\ denying = 0
  /\ parked[r] # 0
  /\ Reply(r, "detached")
  /\ parked' = [parked EXCEPT ![r] = 0]
  /\ IF AskedBy(parked[r]) = {}
     THEN UNCHANGED <<conts, disk, rewound>>
     ELSE LET k == First(AskedBy(parked[r])) IN
          /\ conts' = [conts EXCEPT ![k] = [@ EXCEPT !.state = "paused",
                                                    !.outcome = "retry_required"]]
          /\ Save(conts') \/ UNCHANGED disk
          /\ Reopen
  /\ UNCHANGED <<submitting, ui, askVars, rows, delivered, bounds>>

\* An approved waiter is dispatched again as if it had just arrived.
WakeApproved(r) ==
  /\ ui = Idle
  /\ parked[r] # 0 /\ resolutions[parked[r]] = "approved"
  /\ parked' = [parked EXCEPT ![r] = 0]
  /\ ui' = [step |-> "send", req |-> r]
  /\ UNCHANGED <<answer, submitting, askVars, conts, rows, disk, delivered,
                 rewound, bounds>>

WakeDenied(r) ==
  /\ ui = Idle
  /\ parked[r] # 0 /\ resolutions[parked[r]] = "denied"
  /\ parked' = [parked EXCEPT ![r] = 0]
  /\ Reply(r, "denied")
  /\ UNCHANGED <<submitting, ui, askVars, conts, rows, disk, delivered,
                 rewound, bounds>>

-----------------------------------------------------------------------------
(* Decisions.  Only the desktop, that is the frame loop, may approve.         *)

\* Mutant: the decision is published and the ask stays in the list.
PublishKeepsAsk(a, resolution) ==
  resolutions' = [resolutions EXCEPT ![a] = resolution] /\ UNCHANGED pending

Publish(a, resolution) ==
  /\ pending' = pending \ {a}
  /\ resolutions' = [resolutions EXCEPT ![a] = resolution]

Chosen(a, choice) == [binding |-> filed[a], kind |-> choice]

\* approve_pending with a choice that allows; try_save writes every row.  When
\* the item cannot be closed it stays open and the continuation as it was.
Approve(a, choice) ==
  /\ ui = Idle /\ denying = 0
  /\ a \in pending
  /\ rows' = Recorded(Chosen(a, choice))
  /\ Publish(a, "approved")
  /\ LET saved == IF choice = "always" THEN rows' ELSE disk.rows IN
     \/ /\ open' = open \ {a}
        /\ conts' = Decided(a, "approved")
        /\ \E saveConts, saveQueue \in BOOLEAN :
             disk' = [conts |-> IF saveConts THEN conts' ELSE disk.conts,
                      queue |-> IF saveQueue THEN open' \cap pending' ELSE disk.queue,
                      rows  |-> saved]
     \/ /\ disk' = [disk EXCEPT !.rows = saved]
        /\ UNCHANGED <<open, conts>>
  /\ UNCHANGED <<sendVars, filed, fresh, denying, delivered, rewound, bounds>>

\* The row could not be saved or audited: it is taken back, the rows it replaced
\* are gone.  After a failed audit an "always" row may be left in the file.
DecisionFails(a, choice) ==
  /\ denying = 0 /\ (choice # "never" => ui = Idle)
  /\ a \in pending
  /\ LET tried == Recorded(Chosen(a, choice)) IN
     /\ rows' = tried \ {Chosen(a, choice)}
     /\ \/ UNCHANGED disk
        \/ /\ choice = "always"
           /\ \E rs \in {tried, rows'} : disk' = [disk EXCEPT !.rows = rs]
  /\ UNCHANGED <<sendVars, askVars, conts, delivered, rewound, bounds>>

\* save_durable leaves one-shot rows out of the file.
Durable(rs) == {g \in rs : g.kind # "once"}

\* A denial, from any surface: the decision is published first ...
Deny(a, choice) ==
  /\ denying = 0
  /\ a \in pending
  /\ IF choice = "never"
     THEN /\ rows' = Recorded(Chosen(a, "never"))
          /\ disk' = [disk EXCEPT !.rows = Durable(rows')]
     ELSE UNCHANGED <<rows, disk>>
  /\ Publish(a, "denied")
  /\ denying' = a
  /\ UNCHANGED <<sendVars, filed, open, fresh, conts, delivered, rewound, bounds>>

\* ... then the item is closed and the continuation canceled.
DenyClose ==
  /\ denying # 0
  /\ \/ /\ open' = open \ {denying}
        /\ conts' = Decided(denying, "denied")
        /\ Persist(conts', open', pending)
     \/ UNCHANGED <<open, conts, disk>>
  /\ denying' = 0
  /\ UNCHANGED <<sendVars, filed, pending, fresh, resolutions, rows, delivered,
                 rewound, bounds>>

Revoke(g) ==
  /\ revocations < MaxRevocations
  /\ revocations' = revocations + 1
  /\ rows' = rows \ {g}
  /\ disk' = [disk EXCEPT !.rows = Durable(rows')] \/ UNCHANGED disk
  /\ UNCHANGED <<sendVars, askVars, conts, delivered, rewound, restarts>>

-----------------------------------------------------------------------------
(* The host dies and starts again: restore_queue and restore_continuations.   *)

\* Mutant: an interrupted operation is offered for another try.
RestoredForRetry(rec, queue) ==
  IF rec = NoRecord THEN rec
  ELSE [rec EXCEPT !.state = "paused", !.outcome = "retry_required"]

Restored(rec, queue) ==
  IF rec = NoRecord \/ rec.receipt THEN rec
  ELSE IF rec.ask \in queue /\ rec.state = "waiting_user"
  THEN [rec EXCEPT !.state = "paused", !.outcome = "retry_required"]
  ELSE IF /\ rec.state = "paused"
          /\ rec.outcome \in {"retry_required", "retry_check"}
          /\ rec.resolution = "approved"
  THEN [rec EXCEPT !.outcome = "retry_check"]
  ELSE IF rec.state \in InFlight /\ rec.ask \notin queue
  THEN [rec EXCEPT !.state = "outcome_unknown", !.outcome = "outcome_unknown"]
  ELSE IF rec.ask \in queue /\ rec.outcome # "retry_required"
  THEN [rec EXCEPT !.outcome = "outcome_unknown"]
  ELSE rec

Restart ==
  /\ restarts < MaxRestarts
  /\ restarts' = restarts + 1
  /\ answer' = [r \in Requests |-> IF answer[r] = "open" THEN "lost" ELSE answer[r]]
  /\ parked' = [r \in Requests |-> 0]
  /\ submitting' = {}
  /\ ui' = Idle
  /\ pending' = disk.queue /\ open' = disk.queue /\ fresh' = {}
  /\ resolutions' = [a \in Asks |-> "none"]
  /\ denying' = 0
  /\ rows' = disk.rows
  /\ conts' = [k \in Keys |-> Restored(disk.conts[k], disk.queue)]
  /\ Save(conts') \/ UNCHANGED disk
  /\ UNCHANGED <<filed, delivered, rewound, revocations>>

-----------------------------------------------------------------------------
SendStep == \E r \in Requests :
  Refuse(r) \/ AskPerson(r) \/ Admitted(r) \/ Claim(r) \/ Deliver(r) \/ Settle(r)

Waiter(r) == Detach(r) \/ WakeApproved(r) \/ WakeDenied(r)

Person ==
  \/ \E a \in pending : \/ \E choice \in Offered \ {"deny", "never"} : Approve(a, choice)
                        \/ \E choice \in Offered \cap {"deny", "never"} : Deny(a, choice)
                        \/ \E choice \in Offered \ {"deny"} : DecisionFails(a, choice)
  \/ \E g \in rows : Revoke(g)

Next == \/ \E r \in Requests : Arrive(r) \/ SubmitDone(r) \/ Waiter(r)
        \/ SendStep \/ DenyClose \/ Person \/ Restart

\* The frame loop services every waiter and finishes what it started.
Fairness == /\ WF_vars(SendStep) /\ WF_vars(DenyClose)
            /\ \A r \in Requests : SF_vars(SubmitDone(r)) /\ SF_vars(Waiter(r))

Spec == Init /\ [][Next]_vars /\ Fairness

-----------------------------------------------------------------------------
(* What a sender may rely on.                                                 *)

\* Every variable keeps its shape, in memory and on disk.
TypeOK ==
  /\ answer \in [Requests -> Replies \cup {"none", "open"}]
  /\ parked \in [Requests -> 0 .. Len(filed)]
  /\ submitting \subseteq Requests /\ Cardinality(submitting) <= 1
  /\ ui \in {Idle} \cup [step : {"send", "claim", "deliver"}, req : Requests]
              \cup [step : {"settle"}, req : Requests, sent : BOOLEAN]
  /\ conts \in [Keys -> Record \cup {NoRecord}]
  /\ filed \in Seq(Binding) /\ Len(filed) <= MaxAsks
  /\ pending \subseteq open /\ open \subseteq DOMAIN filed /\ fresh \subseteq DOMAIN filed
  /\ resolutions \in [Asks -> {"none", "approved", "denied"}]
  /\ denying \in 0 .. Len(filed)
  /\ rows \subseteq Row
  /\ disk.conts \in [Keys -> Record \cup {NoRecord}]
  /\ disk.queue \subseteq DOMAIN filed /\ disk.rows \subseteq Row
  /\ delivered \in [Ops -> Seq(Texts)]

Sent(o) == {delivered[o][i] : i \in DOMAIN delivered[o]}

\* "Prevents a crash or a lost reply from turning a retry into a replay"
\* (gate.rs:2258): whichever writes fail and wherever the host dies, retries of
\* an operation deliver it at most once, except after a departing waiter or a new
\* ask put a record before the claimed one (AtMostOnce is the promise without
\* the exception).
ReplayOnlyAfterRewind ==
  \A o \in Ops : Len(delivered[o]) > 1 => o \in rewound

AtMostOnce == \A o \in Ops : Len(delivered[o]) <= 1

\* An operation id stands for one exact request: a second text under a used id
\* is never delivered, whatever was granted meanwhile.
OneTextPerOperation == \A o \in Ops : Cardinality(Sent(o)) <= 1

\* A caller that is told ok or duplicate is right: its text was delivered.
SuccessIsDelivery ==
  \A r \in Requests : answer[r] \in {"ok", "duplicate"} => TextOf[r] \in Sent(OpOf[r])

\* "An unclaimed waiting record therefore proves no effect ran" (gate.rs:2571):
\* when the record that a claim after a restart will consult is one that is
\* offered for another try, the operation was not delivered.
WaitingProvesNoEffect ==
  \A o \in Ops \ rewound :
    LET onDisk == RecordsIn(disk.conts, o) IN
    onDisk # {} /\ disk.conts[First(onDisk)].state \in {"waiting_user", "paused"}
    => delivered[o] = << >>

\* Every request is answered, or lost with the host: a waiter by the decision,
\* by the request that replaced it or by its deadline.
EverySendAnswered == \A r \in Requests : answer[r] = "open" ~> answer[r] # "open"
===============================================================================
