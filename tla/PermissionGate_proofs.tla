------------------------- MODULE PermissionGate_proofs -------------------------
(***************************************************************************)
(* Proofs about the permission monitor.  The inductive invariant IInv is    *)
(* TypeOK with what the identifiers in flight refer to (References), what a *)
(* decision in progress has achieved so far (DecisionProgress), and the     *)
(* properties themselves.                                                   *)
(***************************************************************************)
EXTENDS PermissionGate, TLAPS

\* An identifier that a step is about to use names something that exists.
References ==
  /\ \A c \in Calls : pc[c] \in {"waiting", "cancelling"} => asked[c] \in DOMAIN filed
  /\ \A g \in GrantIds : minted[g].ask \in 0 .. Len(filed)
  /\ dec.step # "idle" => dec.ask \in DOMAIN filed
  /\ dec.step \in {"save", "audit"} => dec.grant \in GrantIds
  /\ edit.step # "idle" => edit.old \in GrantIds /\ minted[edit.old].effect = "deny"
  /\ edit.step = "save" => edit.new \in GrantIds

TypeInv == TypeOK /\ References

\* The monitor starts empty, with every shape right.
LEMMA InitTypeInv == ASSUME GateAssumption, Init PROVE TypeInv
  BY DEF GateAssumption, Init, TypeInv, TypeOK, References, GrantIds, Asks, PcStates,
         Choices, AllowChoices, RefuseChoices, NoDecision, NoEdit

\* The rows a decision and an edit build are rows.
LEMMA RowForType ==
  ASSUME TypeOK, NEW p \in DOMAIN filed, NEW choice \in Choices
  PROVE  RowFor(p, choice) \in Grant
  BY DEF TypeOK, RowFor, Grant, Choices, AllowChoices, RefuseChoices, Durable

\* Evaluation has three answers: Admit handles each of them.
LEMMA EvaluateType == ASSUME NEW b PROVE Evaluate(b) \in {"deny", "allow", "ask"}
  BY DEF Evaluate

\* A worker that only moves on keeps every shape.
LEMMA MoveTypeInv ==
  ASSUME TypeInv, NEW c \in Calls, NEW s \in PcStates, Goto(c, s),
         s \in {"waiting", "cancelling"} => asked[c] \in DOMAIN filed,
         UNCHANGED <<asked, holds, grantVars, askVars, dec, edit, audited, revoked>>
  PROVE  TypeInv'
<1>1. /\ pc' \in [Calls -> PcStates]
      /\ \A d \in Calls : pc'[d] = IF d = c THEN s ELSE pc[d]
  BY DEF Goto, TypeInv, TypeOK
<1>2. UNCHANGED <<asked, holds, minted, store, consumed, lapsed, filed, pending,
                  resolutions, needsYou, dec, edit, audited, revoked, GrantIds>>
  BY DEF grantVars, askVars, GrantIds
<1>3. TypeOK'
  BY <1>1, <1>2 DEF TypeInv, TypeOK
<1>4. References'
  BY <1>1, <1>2 DEF TypeInv, References
<1>5. QED BY <1>3, <1>4 DEF TypeInv

\* Minting a row for an ask, by a decision or by an edit, keeps every shape.
LEMMA MintTypeInv ==
  ASSUME TypeInv, NEW r \in Grant, r.ask \in 0 .. Len(filed),
         minted' = Append(minted, r), store' \subseteq store \cup {Len(minted) + 1},
         UNCHANGED <<pc, asked, holds, consumed, lapsed, filed, pending, resolutions,
                     needsYou, audited, revoked>>,
         \/ /\ dec' = [step |-> dec'.step, ask |-> dec.ask, choice |-> dec.choice,
                       grant |-> Len(minted) + 1]
            /\ dec'.step \in {"save", "audit"}
            /\ dec.ask \in DOMAIN filed
            /\ UNCHANGED edit
         \/ /\ edit' = [step |-> "save", old |-> edit.old, new |-> Len(minted) + 1]
            /\ edit.step # "idle"
            /\ UNCHANGED dec
  PROVE  TypeInv'
<1> USE DEF TypeInv, GrantIds
<1>1. /\ minted' \in Seq(Grant)
      /\ DOMAIN minted' = DOMAIN minted \cup {Len(minted) + 1}
      /\ Len(minted) + 1 \in Nat
      /\ \A g \in DOMAIN minted : minted'[g] = minted[g]
      /\ minted'[Len(minted) + 1] = r
  BY DEF TypeOK
<1>2. dec' \in [step : {"idle", "record", "save", "audit", "drop", "publish", "close"},
                ask : Nat, choice : Choices, grant : Nat]
  BY <1>1 DEF TypeOK
<1>3. edit' \in [step : {"idle", "swap", "save", "restore"}, old : Nat, new : Nat]
  BY <1>1 DEF TypeOK
<1>4. store' \subseteq DOMAIN minted'
  BY <1>1 DEF TypeOK
<1>5. /\ consumed' \subseteq DOMAIN minted' /\ lapsed' \subseteq DOMAIN minted'
      /\ audited' \subseteq DOMAIN minted' /\ revoked' \subseteq DOMAIN minted'
      /\ holds' \in [Calls -> {0} \cup DOMAIN minted']
  BY <1>1 DEF TypeOK
<1>6. TypeOK'
  BY <1>1, <1>2, <1>3, <1>4, <1>5 DEF TypeOK
<1>7. \A g \in DOMAIN minted' : minted'[g].ask \in 0 .. Len(filed')
  BY <1>1 DEF References
<1>8. /\ dec'.step # "idle" => dec'.ask \in DOMAIN filed'
      /\ dec'.step \in {"save", "audit"} => dec'.grant \in DOMAIN minted'
      /\ edit'.step # "idle" => edit'.old \in DOMAIN minted' /\ minted'[edit'.old].effect = "deny"
      /\ edit'.step = "save" => edit'.new \in DOMAIN minted'
  BY <1>1 DEF TypeOK, References
<1>9. References'
  BY <1>7, <1>8 DEF References
<1>10. QED BY <1>6, <1>9

\* A decision that only moves on, drops its row or its ask, keeps every shape.
LEMMA DecisionTypeInv ==
  ASSUME TypeInv,
         \/ dec' = NoDecision
         \/ \E s \in {"audit", "drop", "publish", "close"} :
              /\ dec' = [dec EXCEPT !.step = s]
              /\ dec.step # "idle"
              /\ s = "audit" => dec.step = "save",
         store' \subseteq store, pending' \subseteq pending,
         audited' \subseteq GrantIds,
         resolutions' \in [Asks -> Choices \cup {"none"}],
         needsYou' \in [Asks -> {"absent", "open", "approved", "denied"}],
         UNCHANGED <<pc, asked, holds, minted, consumed, lapsed, filed, edit, revoked>>
  PROVE  TypeInv'
<1>1. dec' \in [step : {"idle", "record", "save", "audit", "drop", "publish", "close"},
                ask : Nat, choice : Choices, grant : Nat]
  <2>1. "deny" \in Choices
    BY DEF Choices, RefuseChoices
  <2>2. CASE dec' = NoDecision
    BY <2>1, <2>2 DEF NoDecision
  <2>3. CASE dec' # NoDecision
    BY <2>3 DEF TypeInv, TypeOK
  <2>4. QED BY <2>2, <2>3
<1>2. TypeOK'
  BY <1>1 DEF TypeInv, TypeOK, GrantIds
<1>3. dec'.step # "idle" =>
        dec'.ask = dec.ask /\ dec.step # "idle" /\ dec'.grant = dec.grant
        /\ (dec'.step \in {"save", "audit"} => dec.step = "save")
  BY DEF TypeInv, TypeOK, NoDecision
<1>4. References'
  BY <1>3 DEF TypeInv, TypeOK, References, GrantIds
<1>5. QED BY <1>2, <1>4 DEF TypeInv

\* Every step keeps every shape and every reference; one step per operation.
LEMMA StepTypeInv ==
  ASSUME GateAssumption, TypeInv, [Next]_vars
  PROVE  TypeInv'
<1> USE DEF TypeInv, GrantIds
<1>1. CASE UNCHANGED vars
  BY <1>1 DEF TypeOK, References, vars, callVars, grantVars, askVars
<1>2. ASSUME NEW c \in Calls, Dispatch(c) \/ Readmit(c)
      PROVE  TypeInv'
  <2>1. PICK s \in {"denied", "found", "file", "refile"} : Goto(c, s)
    BY <1>2, EvaluateType DEF Dispatch, Readmit, Admit
  <2>2. s \in PcStates /\ s \notin {"waiting", "cancelling"}
    BY DEF PcStates, Answered
  <2>3. QED BY <1>2, <2>1, <2>2, MoveTypeInv DEF Dispatch, Readmit, Admit
<1>3. ASSUME NEW c \in Calls, FileAsk(c)
      PROVE  TypeInv'
  <2>1. PICK s \in {"waiting", "required"} : Goto(c, s)
    BY <1>3 DEF FileAsk
  <2>2. pc' \in [Calls -> PcStates] /\ \A d \in Calls \ {c} : pc'[d] = pc[d]
    BY <2>1 DEF Goto, TypeOK, PcStates, Answered
  <2>3. UNCHANGED <<holds, minted, store, consumed, lapsed, dec, edit, audited, revoked>>
    BY <1>3 DEF FileAsk, grantVars
  <2>4. CASE JoinAsk(c)
    <3>1. PICK p \in pending : asked' = [asked EXCEPT ![c] = p]
      BY <2>4 DEF JoinAsk, SamePending
    <3>2. UNCHANGED <<filed, pending, resolutions, needsYou>>
      BY <2>4 DEF JoinAsk, askVars
    <3>3. TypeOK' BY <2>2, <2>3, <3>1, <3>2 DEF TypeOK
    <3>4. References' BY <2>2, <2>3, <3>1, <3>2 DEF TypeOK, References
    <3>5. QED BY <3>3, <3>4
  <2>5. CASE NewAsk(c)
    <3>1. /\ Len(filed) \in Nat /\ Len(filed) + 1 <= MaxAsks
          /\ Len(filed') = Len(filed) + 1 /\ DOMAIN filed' = 1 .. Len(filed) + 1
          /\ DOMAIN filed = 1 .. Len(filed)
          /\ filed' \in Seq(Bindings)
      BY <2>5, GateAssumption DEF NewAsk, TypeOK, GateAssumption
    <3>2. asked' = [asked EXCEPT ![c] = Len(filed) + 1]
      BY <2>5 DEF NewAsk
    <3>3. /\ pending' = pending \cup {Len(filed) + 1}
          /\ needsYou' = [needsYou EXCEPT ![Len(filed) + 1] = "open"]
          /\ resolutions' = resolutions
      BY <2>5 DEF NewAsk
    <3>4. asked' \in [Calls -> 0 .. Len(filed')]
      BY <3>1, <3>2 DEF TypeOK
    <3>5. needsYou' \in [Asks -> {"absent", "open", "approved", "denied"}]
      BY <3>3 DEF TypeOK
    <3>6. pending' \subseteq DOMAIN filed'
      BY <3>1, <3>3 DEF TypeOK
    <3>7. TypeOK' BY <2>2, <2>3, <3>1, <3>3, <3>4, <3>5, <3>6 DEF TypeOK
    <3>8. References' BY <2>2, <2>3, <3>1, <3>2 DEF TypeOK, References
    <3>9. QED BY <3>7, <3>8
  <2>6. QED BY <1>3, <2>4, <2>5 DEF FileAsk
<1>4. ASSUME NEW c \in Calls, FindGrant(c)
      PROVE  TypeInv'
  <2>1. PICK g \in {0} \cup GrantIds : holds' = [holds EXCEPT ![c] = g]
    BY <1>4 DEF FindGrant, Matching, TypeOK
  <2>2. pc' \in [Calls -> PcStates]
    BY <1>4 DEF FindGrant, Goto, TypeOK, PcStates
  <2>3. \A d \in Calls : pc'[d] \in {"waiting", "cancelling"} => pc'[d] = pc[d]
    BY <1>4 DEF FindGrant, Goto, TypeOK
  <2>4. UNCHANGED <<asked, minted, store, consumed, lapsed, filed, pending, resolutions,
                    needsYou, dec, edit, audited, revoked>>
    BY <1>4 DEF FindGrant, grantVars, askVars
  <2>5. TypeOK' BY <2>1, <2>2, <2>4 DEF TypeOK
  <2>6. References' BY <2>3, <2>4 DEF References
  <2>7. QED BY <2>5, <2>6
<1>5. ASSUME NEW c \in Calls, NoteUse(c) \/ Execute(c)
      PROVE  TypeInv'
  <2>1. PICK s \in {"exec", "denied", "consume", "failed"} : Goto(c, s)
    BY <1>5 DEF NoteUse, Execute
  <2>2. s \in PcStates /\ s \notin {"waiting", "cancelling"}
    BY DEF PcStates, Answered, Committed
  <2>3. QED BY <1>5, <2>1, <2>2, MoveTypeInv DEF NoteUse, Execute
<1>6. ASSUME NEW c \in Calls, Consume(c)
      PROVE  TypeInv'
  <2>1. pc' \in [Calls -> PcStates]
    BY <1>6 DEF Consume, Goto, TypeOK, PcStates, Answered
  <2>2. \A d \in Calls : pc'[d] \in {"waiting", "cancelling"} => pc'[d] = pc[d]
    BY <1>6 DEF Consume, Goto, TypeOK
  <2>3. UNCHANGED <<asked, holds, minted, store, lapsed, filed, pending, resolutions,
                    needsYou, dec, edit, audited, revoked>>
    BY <1>6 DEF Consume, askVars
  <2>4. consumed' \subseteq GrantIds
    BY <1>6 DEF Consume, TypeOK
  <2>5. TypeOK' BY <2>1, <2>3, <2>4 DEF TypeOK
  <2>6. References' BY <2>2, <2>3 DEF References
  <2>7. QED BY <2>5, <2>6
<1>7. ASSUME NEW c \in Calls, SeeDecision(c) \/ GiveUp(c) \/ TimedOut(c)
      PROVE  TypeInv'
  <2>1. PICK s \in {"readmit", "denied", "cancelling", "timedout"} : Goto(c, s)
    BY <1>7 DEF SeeDecision, GiveUp, TimedOut
  <2>2. s \in PcStates
    BY DEF PcStates, Answered
  <2>3. asked[c] \in DOMAIN filed
    BY <1>7 DEF SeeDecision, GiveUp, TimedOut, References
  <2>4. QED BY <1>7, <2>1, <2>2, <2>3, MoveTypeInv DEF SeeDecision, GiveUp, TimedOut
<1>8. ASSUME NEW p, NEW choice \in Choices, Begin(p, choice)
      PROVE  TypeInv'
  BY <1>8 DEF Begin, Undecided, TypeOK, References, callVars, grantVars, askVars
<1>9. CASE RecordRow
  <2> DEFINE r == RowFor(dec.ask, dec.choice)
  <2>1. dec.ask \in DOMAIN filed /\ dec.choice \in Choices
    BY <1>9 DEF RecordRow, TypeOK, References
  <2>2. r \in Grant /\ r.ask = dec.ask
    BY <2>1, RowForType DEF RowFor
  <2>3. minted' = Append(minted, r) /\ store' \subseteq store \cup {Len(minted) + 1}
    BY <1>9 DEF RecordRow
  <2> HIDE DEF r
  <2>4. UNCHANGED <<pc, asked, holds, consumed, lapsed, filed, pending, resolutions,
                    needsYou, edit, audited, revoked>>
    BY <1>9 DEF RecordRow, callVars, askVars
  <2>5. dec' = [step |-> dec'.step, ask |-> dec.ask, choice |-> dec.choice,
                grant |-> Len(minted) + 1] /\ dec'.step \in {"save", "audit"}
    BY <1>9 DEF RecordRow, TypeOK
  <2>6. r.ask \in 0 .. Len(filed)
    BY <2>1, <2>2 DEF TypeOK
  <2>7. QED BY <2>1, <2>2, <2>3, <2>4, <2>5, <2>6, MintTypeInv
<1>10. CASE SaveRow \/ AuditRow
  <2>1. UNCHANGED <<pc, asked, holds, minted, consumed, lapsed, filed, pending,
                    resolutions, needsYou, edit, revoked>>
    BY <1>10 DEF SaveRow, AuditRow, callVars, askVars
  <2>2. store' \subseteq store /\ audited' \subseteq GrantIds
    BY <1>10 DEF SaveRow, AuditRow, Rollback, TypeOK, References
  <2>3. \/ dec' = NoDecision
        \/ \E s \in {"audit", "drop", "publish", "close"} :
             /\ dec' = [dec EXCEPT !.step = s]
             /\ dec.step # "idle"
             /\ s = "audit" => dec.step = "save"
    BY <1>10 DEF SaveRow, AuditRow, Rollback, TypeOK
  <2>4. QED BY <2>1, <2>2, <2>3, DecisionTypeInv DEF TypeOK
<1>11. CASE DropPending \/ Publish \/ CloseItem
  <2>1. UNCHANGED <<pc, asked, holds, minted, store, consumed, lapsed, filed, edit,
                    audited, revoked>>
    BY <1>11 DEF DropPending, Publish, CloseItem, callVars, grantVars
  <2>2. /\ pending' \subseteq pending
        /\ resolutions' \in [Asks -> Choices \cup {"none"}]
        /\ needsYou' \in [Asks -> {"absent", "open", "approved", "denied"}]
    BY <1>11 DEF DropPending, Publish, CloseItem, TypeOK
  <2>3. \/ dec' = NoDecision
        \/ \E s \in {"audit", "drop", "publish", "close"} :
             /\ dec' = [dec EXCEPT !.step = s]
             /\ dec.step # "idle"
             /\ s = "audit" => dec.step = "save"
    BY <1>11 DEF DropPending, Publish, CloseItem, TypeOK
  <2>4. QED BY <2>1, <2>2, <2>3, DecisionTypeInv DEF TypeOK
<1>12. ASSUME NEW g \in store, Revoke(g) \/ AllowEntry(g) \/ Lapse(g)
       PROVE  TypeInv'
  BY <1>12 DEF Revoke, AllowEntry, Lapse, TypeOK, References, callVars, grantVars, askVars
<1>13. CASE SwapEntry
  <2> DEFINE r == [minted[edit.old] EXCEPT !.effect = "allow", !.life = "always",
                     !.wide = TRUE, !.source = "user", !.ask = 0]
  <2>1. minted[edit.old] \in Grant
    BY <1>13 DEF SwapEntry, TypeOK, References
  <2>2. r \in Grant /\ r.ask = 0
    BY <2>1 DEF Grant
  <2>3. minted' = Append(minted, r) /\ store' \subseteq store \cup {Len(minted) + 1}
    BY <1>13 DEF SwapEntry
  <2> HIDE DEF r
  <2>4. UNCHANGED <<pc, asked, holds, consumed, lapsed, filed, pending, resolutions,
                    needsYou, dec, audited, revoked>>
    BY <1>13 DEF SwapEntry, callVars, askVars
  <2>5. edit' = [step |-> "save", old |-> edit.old, new |-> Len(minted) + 1]
        /\ edit.step # "idle"
    BY <1>13 DEF SwapEntry, TypeOK
  <2>6. QED BY <2>2, <2>3, <2>4, <2>5, MintTypeInv DEF TypeOK
<1>14. CASE SaveEntry \/ RestoreEntry
  BY <1>14 DEF SaveEntry, RestoreEntry, NoEdit, TypeOK, References, callVars, askVars
<1>15. QED
  BY <1>1, <1>2, <1>3, <1>4, <1>5, <1>6, <1>7, <1>8, <1>9, <1>10, <1>11, <1>12,
     <1>13, <1>14
     DEF Next, CallStep, CancelAsk, DecisionStep, EntryStep, Person, Decide,
         GateAssumption, Choices, AllowChoices, RefuseChoices

\* TypeOK holds for every set of calls, bindings and tools and every bound.
THEOREM TypeCorrect == Spec => []TypeOK
<1>1. Init => TypeInv
  BY InitTypeInv, GateAssumption
<1>2. TypeInv /\ [Next]_vars => TypeInv'
  BY StepTypeInv, GateAssumption
<1>3. TypeInv => TypeOK
  BY DEF TypeInv
<1>4. QED
  BY <1>1, <1>2, <1>3, PTL DEF Spec

\* The list of steps, one name per operation.
LEMMA NextSteps ==
  ASSUME [Next]_vars
  PROVE  \/ UNCHANGED vars
         \/ \E c \in Calls : CallStep(c)
         \/ DecisionStep
         \/ EntryStep
         \/ \E p \in pending, choice \in Offered : Begin(p, choice)
         \/ \E g \in store : Revoke(g) \/ AllowEntry(g) \/ Lapse(g)
  BY DEF Next, Person, Decide

\* Nobody but a worker moves a worker.
LEMMA OthersLeaveCalls ==
  ASSUME [Next]_vars, ~ \E c \in Calls : CallStep(c)
  PROVE  UNCHANGED callVars
<1>1. CASE UNCHANGED vars
  BY <1>1 DEF vars
<1>2. CASE DecisionStep
  BY <1>2 DEF DecisionStep, RecordRow, SaveRow, AuditRow, DropPending, Publish, CloseItem
<1>3. CASE EntryStep
  BY <1>3 DEF EntryStep, SwapEntry, SaveEntry, RestoreEntry
<1>4. CASE \E p \in pending, choice \in Offered : Begin(p, choice)
  BY <1>4 DEF Begin
<1>5. CASE \E g \in store : Revoke(g) \/ AllowEntry(g) \/ Lapse(g)
  BY <1>5 DEF Revoke, AllowEntry, Lapse
<1>6. QED BY <1>1, <1>2, <1>3, <1>4, <1>5, NextSteps

\* Nothing a worker does mints, stores or revokes a row.
LEMMA CallsLeaveRows ==
  ASSUME NEW c \in Calls, CallStep(c)
  PROVE  UNCHANGED <<minted, store, lapsed, edit, audited, revoked>>
<1>1. CASE Dispatch(c) \/ Readmit(c)
  BY <1>1 DEF Dispatch, Readmit, Admit, grantVars
<1>2. CASE FileAsk(c) \/ FindGrant(c) \/ NoteUse(c) \/ Execute(c) \/ Consume(c)
  BY <1>2 DEF FileAsk, FindGrant, NoteUse, Execute, Consume, grantVars
<1>3. CASE SeeDecision(c) \/ GiveUp(c) \/ CancelAsk(c) \/ TimedOut(c)
  BY <1>3 DEF SeeDecision, GiveUp, CancelAsk, Begin, TimedOut, grantVars
<1>4. QED BY <1>1, <1>2, <1>3 DEF CallStep

\* The mint log only grows.
LEMMA MintedGrows ==
  ASSUME TypeInv, [Next]_vars
  PROVE  /\ GrantIds \subseteq GrantIds'
         /\ \A g \in GrantIds : minted'[g] = minted[g]
         /\ \/ UNCHANGED minted
            \/ (RecordRow \/ SwapEntry) /\ GrantIds' = GrantIds \cup {Len(minted) + 1}
         /\ Len(minted) + 1 \notin GrantIds
<1>1. UNCHANGED minted \/ RecordRow \/ SwapEntry
  <2>1. CASE UNCHANGED vars
    BY <2>1 DEF vars, grantVars
  <2>2. CASE DecisionStep
    BY <2>2 DEF DecisionStep, SaveRow, AuditRow, DropPending, Publish, CloseItem, grantVars
  <2>3. CASE EntryStep
    BY <2>3 DEF EntryStep, SaveEntry, RestoreEntry
  <2>4. CASE \E p \in pending, choice \in Offered : Begin(p, choice)
    BY <2>4 DEF Begin, grantVars
  <2>5. CASE \E g \in store : Revoke(g) \/ AllowEntry(g) \/ Lapse(g)
    BY <2>5 DEF Revoke, AllowEntry, Lapse, grantVars
  <2>6. QED BY <2>1, <2>2, <2>3, <2>4, <2>5, NextSteps, CallsLeaveRows
<1>2. minted \in Seq(Grant)
  BY DEF TypeInv, TypeOK
<1>3. CASE UNCHANGED minted
  BY <1>2, <1>3 DEF GrantIds
<1>4. ASSUME NEW r, minted' = Append(minted, r)
      PROVE  /\ GrantIds' = GrantIds \cup {Len(minted) + 1}
             /\ \A g \in GrantIds : minted'[g] = minted[g]
  BY <1>2, <1>4 DEF GrantIds
<1>5. CASE RecordRow
  BY <1>2, <1>4, <1>5 DEF RecordRow, GrantIds
<1>6. CASE SwapEntry
  BY <1>2, <1>4, <1>6 DEF SwapEntry, GrantIds
<1>7. QED BY <1>1, <1>3, <1>5, <1>6

-----------------------------------------------------------------------------
(* Commits: the row a call holds covers its binding, and a revoked allowance *)
(* is out of the store for good (a failed allow_entry only restores denials).*)

HeldCovers ==
  \A c \in Calls : pc[c] \in {"commit"} \cup Committed /\ holds[c] # 0 =>
    Covers(minted[holds[c]], BindingOf[c])

RevokedGone == \A g \in revoked : minted[g].effect = "allow" => g \notin store

CommitInv == HeldCovers /\ RevokedGone /\ CommitMatchesGrant

\* What a step can do to one worker.
LEMMA CallStepEffect ==
  ASSUME TypeInv, [Next]_vars, NEW c \in Calls
  PROVE  \/ holds'[c] = holds[c] /\ pc'[c] = pc[c]
         \/ holds'[c] = holds[c] /\ pc'[c] \notin {"commit"} \cup Committed
         \/ /\ pc[c] = "found" /\ pc'[c] = "commit"
            /\ holds'[c] # 0 => Covers(minted[holds'[c]], BindingOf[c])
         \/ holds'[c] = holds[c] /\ pc[c] = "commit" /\ pc'[c] = "exec" /\ Alive(holds[c])
         \/ holds'[c] = holds[c] /\ {pc[c], pc'[c]} \subseteq Committed
<1>1. CASE ~ \E d \in Calls : CallStep(d)
  BY <1>1, OthersLeaveCalls DEF callVars
<1>2. ASSUME NEW d \in Calls, CallStep(d), d # c
      PROVE  holds'[c] = holds[c] /\ pc'[c] = pc[c]
  <2>1. \/ UNCHANGED pc
        \/ \E s : Goto(d, s)
    BY <1>2 DEF CallStep, Dispatch, Readmit, Admit, FileAsk, FindGrant, NoteUse, Execute,
         Consume, SeeDecision, GiveUp, CancelAsk, Begin, TimedOut, callVars
  <2>2. UNCHANGED holds \/ \E g : holds' = [holds EXCEPT ![d] = g]
    BY <1>2 DEF CallStep, Dispatch, Readmit, Admit, FileAsk, FindGrant, NoteUse, Execute,
         Consume, SeeDecision, GiveUp, CancelAsk, Begin, TimedOut, callVars
  <2>3. QED BY <1>2, <2>1, <2>2 DEF Goto, TypeInv, TypeOK
<1>3. CASE Dispatch(c) \/ Readmit(c)
  <2>1. PICK s \in {"denied", "found", "file", "refile"} : Goto(c, s)
    BY <1>3, EvaluateType DEF Dispatch, Readmit, Admit
  <2>2. holds' = holds
    BY <1>3 DEF Dispatch, Readmit, Admit
  <2>3. QED BY <2>1, <2>2 DEF Goto, TypeInv, TypeOK, Committed
<1>4. CASE FileAsk(c)
  BY <1>4 DEF FileAsk, Goto, TypeInv, TypeOK, Committed
<1>5. CASE FindGrant(c)
  <2>1. pc[c] = "found" /\ pc'[c] = "commit"
    BY <1>5 DEF FindGrant, Goto, TypeInv, TypeOK
  <2>2. CASE Matching(BindingOf[c]) = {}
    BY <1>5, <2>1, <2>2 DEF FindGrant, TypeInv, TypeOK
  <2>3. CASE Matching(BindingOf[c]) # {}
    <3>1. PICK g \in Matching(BindingOf[c]) : holds' = [holds EXCEPT ![c] = g]
      BY <1>5, <2>3 DEF FindGrant
    <3>2. Covers(minted[g], BindingOf[c])
      BY <3>1 DEF Matching, Matches
    <3>3. QED BY <2>1, <3>1, <3>2 DEF TypeInv, TypeOK
  <2>4. QED BY <2>2, <2>3
<1>6. CASE NoteUse(c)
  BY <1>6 DEF NoteUse, Goto, TypeInv, TypeOK, Committed
<1>7. CASE Execute(c) \/ Consume(c)
  BY <1>7 DEF Execute, Consume, Goto, TypeInv, TypeOK, Committed
<1>8. CASE SeeDecision(c) \/ GiveUp(c) \/ CancelAsk(c) \/ TimedOut(c)
  BY <1>8 DEF SeeDecision, GiveUp, CancelAsk, Begin, TimedOut, Goto, callVars, TypeInv,
       TypeOK, Committed
<1>9. QED BY <1>1, <1>2, <1>3, <1>4, <1>5, <1>6, <1>7, <1>8 DEF CallStep

\* What a step can do to the store: a row enters it when it is minted, or when
\* allow_entry puts a denial back.
LEMMA StoreEffect ==
  ASSUME TypeInv, [Next]_vars
  PROVE  /\ \A g \in store' : g \in store \/ g \notin GrantIds \/ minted[g].effect = "deny"
         /\ \A g \in revoked' : g \in revoked \/ g \in store \ store'
<1> USE DEF GrantIds
<1>1. CASE UNCHANGED vars
  BY <1>1 DEF vars, grantVars
<1>2. CASE RecordRow
  BY <1>2, MintedGrows DEF RecordRow
<1>3. CASE SaveRow \/ AuditRow
  BY <1>3 DEF SaveRow, AuditRow, Rollback
<1>4. CASE DropPending \/ Publish \/ CloseItem
  BY <1>4 DEF DropPending, Publish, CloseItem, grantVars
<1>5. CASE SwapEntry
  BY <1>5, MintedGrows DEF SwapEntry
<1>6. CASE SaveEntry
  BY <1>6 DEF SaveEntry
<1>7. CASE RestoreEntry
  BY <1>7 DEF RestoreEntry, TypeInv, References
<1>8. CASE \E p \in pending, choice \in Offered : Begin(p, choice)
  BY <1>8 DEF Begin, grantVars
<1>9. CASE \E g \in store : Revoke(g) \/ AllowEntry(g) \/ Lapse(g)
  BY <1>9 DEF Revoke, AllowEntry, Lapse, grantVars
<1>10. QED
  BY <1>1, <1>2, <1>3, <1>4, <1>5, <1>6, <1>7, <1>8, <1>9, NextSteps, CallsLeaveRows
     DEF DecisionStep, EntryStep

\* No call holds a row in the initial state.
LEMMA InitCommitInv == ASSUME Init PROVE CommitInv
  BY DEF Init, CommitInv, HeldCovers, RevokedGone, CommitMatchesGrant, Committed

\* What a call holds stays a row that covers it, and a revoked row stays gone.
LEMMA StepCommitInv ==
  ASSUME TypeInv, CommitInv, [Next]_vars
  PROVE  CommitInv'
<1>1. \A c \in Calls : holds[c] # 0 => minted'[holds[c]] = minted[holds[c]]
  BY MintedGrows DEF TypeInv, TypeOK
<1>2. HeldCovers'
  <2> SUFFICES ASSUME NEW c \in Calls, pc'[c] \in {"commit"} \cup Committed, holds'[c] # 0
               PROVE  Covers(minted'[holds'[c]], BindingOf[c])
    BY DEF HeldCovers, Covers, GrantIds
  <2>1. CASE pc[c] = "found" /\ pc'[c] = "commit"
    <3>1. UNCHANGED minted
      BY <2>1, OthersLeaveCalls, CallsLeaveRows DEF callVars
    <3>2. QED BY <2>1, <3>1, CallStepEffect DEF Committed
  <2>2. CASE ~(pc[c] = "found" /\ pc'[c] = "commit")
    <3>1. holds'[c] = holds[c] /\ pc[c] \in {"commit"} \cup Committed
      BY <2>2, CallStepEffect DEF Committed
    <3>2. Covers(minted[holds[c]], BindingOf[c])
      BY <3>1 DEF CommitInv, HeldCovers
    <3>3. QED BY <1>1, <3>1, <3>2
  <2>3. QED BY <2>1, <2>2
<1>3. RevokedGone'
  <2> SUFFICES ASSUME NEW g \in revoked', minted'[g].effect = "allow", g \in store'
               PROVE  FALSE
    BY DEF RevokedGone
  <2>1. g \in revoked
    BY StoreEffect
  <2>2. g \in GrantIds /\ minted[g].effect = "allow"
    BY <2>1, MintedGrows DEF TypeInv, TypeOK
  <2>3. g \notin store
    BY <2>1, <2>2 DEF CommitInv, RevokedGone
  <2>4. QED BY <2>2, <2>3, StoreEffect
<1>4. CommitMatchesGrant'
  <2> SUFFICES ASSUME NEW c \in Calls, pc'[c] \in Committed
               PROVE  /\ holds'[c] \in GrantIds'
                      /\ minted'[holds'[c]].effect = "allow"
                      /\ Covers(minted'[holds'[c]], BindingOf[c])
    BY DEF CommitMatchesGrant, Covers, GrantIds
  <2>1. holds'[c] = holds[c] /\ (pc[c] \in Committed \/ (pc[c] = "commit" /\ Alive(holds[c])))
    BY CallStepEffect DEF Committed
  <2>2. holds[c] \in GrantIds /\ minted[holds[c]].effect = "allow"
    BY <2>1 DEF CommitInv, CommitMatchesGrant, Alive, TypeInv, TypeOK
  <2>3. holds'[c] # 0
    BY <2>1, <2>2 DEF TypeInv, TypeOK, GrantIds
  <2>4. Covers(minted'[holds'[c]], BindingOf[c])
    BY <1>2, <2>3 DEF HeldCovers, Covers
  <2>5. QED BY <2>1, <2>2, <2>4, MintedGrows
<1>5. QED BY <1>2, <1>3, <1>4 DEF CommitInv

\* Every commit is under an allowing row that covers the call, for any number of
\* calls, bindings and rows.
THEOREM CommitsMatch == Spec => []CommitMatchesGrant
<1>1. Init => TypeInv /\ CommitInv
  BY InitTypeInv, InitCommitInv, GateAssumption
<1>2. TypeInv /\ CommitInv /\ [Next]_vars => (TypeInv /\ CommitInv)'
  BY StepTypeInv, StepCommitInv, GateAssumption
<1>3. TypeInv /\ CommitInv => CommitMatchesGrant
  BY DEF CommitInv
<1>4. QED BY <1>1, <1>2, <1>3, PTL DEF Spec

\* No call commits under a row whose revocation is over.
THEOREM RevocationIsABoundary == Spec => RevokeBoundary
<1>1. Init => TypeInv /\ CommitInv
  BY InitTypeInv, InitCommitInv, GateAssumption
<1>2. TypeInv /\ CommitInv /\ [Next]_vars => (TypeInv /\ CommitInv)'
  BY StepTypeInv, StepCommitInv, GateAssumption
<1>3. TypeInv /\ CommitInv /\ [Next]_vars =>
        [\A c \in Calls : Commits(c) => holds[c] \notin revoked]_vars
  <2> SUFFICES ASSUME TypeInv, CommitInv, [Next]_vars, NEW c \in Calls, Commits(c)
               PROVE  holds[c] \notin revoked
    OBVIOUS
  <2>1. Alive(holds[c])
    BY CallStepEffect DEF Commits, Committed
  <2>2. QED BY <2>1 DEF Alive, CommitInv, RevokedGone
<1>4. QED BY <1>1, <1>2, <1>3, PTL DEF Spec, RevokeBoundary

-----------------------------------------------------------------------------
(* Asks: where an ask stands determines its row, its decision and its item.  *)

DecisionPlace ==
  /\ dec.step \in {"record", "save", "audit", "drop"} => dec.ask \in pending
  /\ dec.step \in {"publish", "close"} => dec.ask \notin pending
  /\ dec.step = "publish" => resolutions[dec.ask] = "none"
  /\ dec.step = "close" => resolutions[dec.ask] = dec.choice

AskPlace ==
  /\ \A p \in DOMAIN filed : p \in pending \/ InFlight(p) \/ resolutions[p] # "none"
  /\ \A p \in pending : resolutions[p] = "none"
  /\ \A p \in Asks \ DOMAIN filed : resolutions[p] = "none"

AskInv == DecisionPlace /\ AskPlace /\ AskQueueConsistent /\ ItemMatchesDecision

\* The steps that touch an ask or the decision in progress.
LEMMA AskSteps ==
  ASSUME [Next]_vars
  PROVE  \/ UNCHANGED <<askVars, dec>>
         \/ \E c \in Calls : NewAsk(c) /\ UNCHANGED dec
         \/ \E p \in pending, choice \in Choices : Begin(p, choice)
         \/ RecordRow \/ SaveRow \/ AuditRow \/ DropPending \/ Publish \/ CloseItem
<1>1. CASE UNCHANGED vars
  BY <1>1 DEF vars
<1>2. ASSUME NEW c \in Calls, CallStep(c)
      PROVE  \/ UNCHANGED <<askVars, dec>>
             \/ NewAsk(c) /\ UNCHANGED dec
             \/ \E p \in pending, choice \in Choices : Begin(p, choice)
  <2>1. CASE Dispatch(c) \/ Readmit(c) \/ FindGrant(c) \/ NoteUse(c) \/ Execute(c) \/ Consume(c)
    BY <2>1 DEF Dispatch, Readmit, Admit, FindGrant, NoteUse, Execute, Consume
  <2>2. CASE FileAsk(c)
    BY <2>2 DEF FileAsk, JoinAsk
  <2>3. CASE SeeDecision(c) \/ GiveUp(c) \/ TimedOut(c)
    BY <2>3 DEF SeeDecision, GiveUp, TimedOut
  <2>4. CASE CancelAsk(c)
    BY <2>4 DEF CancelAsk, Begin, Undecided, Choices, RefuseChoices
  <2>5. QED BY <1>2, <2>1, <2>2, <2>3, <2>4 DEF CallStep
<1>3. CASE EntryStep
  BY <1>3 DEF EntryStep, SwapEntry, SaveEntry, RestoreEntry
<1>4. CASE \E p \in pending, choice \in Offered : Begin(p, choice)
  BY <1>4, GateAssumption DEF GateAssumption, Choices, AllowChoices, RefuseChoices
<1>5. CASE \E g \in store : Revoke(g) \/ AllowEntry(g) \/ Lapse(g)
  BY <1>5 DEF Revoke, AllowEntry, Lapse
<1>6. QED BY <1>1, <1>2, <1>3, <1>4, <1>5, NextSteps DEF DecisionStep

\* Nothing is asked in the initial state.
LEMMA InitAskInv == ASSUME GateAssumption, Init PROVE AskInv
  BY DEF GateAssumption, Init, AskInv, DecisionPlace, AskPlace, AskQueueConsistent,
         ItemMatchesDecision, NoDecision

\* Asks, items and the decision in progress stay in step with each other.
LEMMA StepAskInv ==
  ASSUME TypeInv, AskInv, [Next]_vars
  PROVE  AskInv'
<1> USE DEF AskInv
<1>1. CASE UNCHANGED <<askVars, dec>>
  <2>1. UNCHANGED <<filed, pending, resolutions, needsYou, dec, Asks>>
    BY <1>1 DEF askVars, Asks
  <2>2. DecisionPlace' BY <2>1 DEF DecisionPlace
  <2>3. AskPlace' BY <2>1 DEF AskPlace, InFlight
  <2>4. AskQueueConsistent' /\ ItemMatchesDecision'
    BY <2>1 DEF AskQueueConsistent, ItemMatchesDecision
  <2>5. QED BY <2>2, <2>3, <2>4
<1>2. ASSUME NEW c \in Calls, NewAsk(c), UNCHANGED dec
      PROVE  AskInv'
  <2> DEFINE n == Len(filed) + 1
  <2>1. /\ n \in Asks /\ n \notin DOMAIN filed /\ n \notin pending
        /\ DOMAIN filed' = DOMAIN filed \cup {n}
        /\ \A p \in DOMAIN filed : filed'[p] = filed[p]
        /\ filed'[n] = BindingOf[c]
    BY <1>2, GateAssumption DEF NewAsk, Asks, TypeInv, TypeOK, GateAssumption
  <2>2. /\ pending' = pending \cup {n}
        /\ needsYou' = [needsYou EXCEPT ![n] = "open"]
        /\ UNCHANGED <<resolutions, dec>>
        /\ \A p \in pending : filed[p] # BindingOf[c]
    BY <1>2 DEF NewAsk, SamePending
  <2>3. pending \subseteq DOMAIN filed /\ needsYou' \in [Asks -> {"absent", "open", "approved", "denied"}]
        /\ DOMAIN needsYou = Asks
    BY <2>2 DEF TypeInv, TypeOK
  <2>4. dec.step # "idle" => dec.ask \in DOMAIN filed
    BY DEF TypeInv, References
  <2> HIDE DEF n
  <2>5. DecisionPlace' BY <2>1, <2>2, <2>3, <2>4 DEF DecisionPlace
  <2>6. resolutions[n] = "none" BY <2>1 DEF AskPlace
  <2>7. AskPlace' BY <2>1, <2>2, <2>6 DEF AskPlace, InFlight, Asks
  <2>8. AskQueueConsistent' BY <2>1, <2>2, <2>3 DEF AskQueueConsistent
  <2>9. ItemMatchesDecision' BY <2>1, <2>2, <2>3 DEF ItemMatchesDecision
  <2>10. QED BY <2>5, <2>7, <2>8, <2>9
<1>3. ASSUME NEW p \in pending, NEW choice \in Choices, Begin(p, choice)
      PROVE  AskInv'
  <2>1. UNCHANGED <<filed, pending, resolutions, needsYou, Asks>>
    BY <1>3 DEF Begin, askVars, Asks
  <2>2. /\ dec.step = "idle" /\ p \in pending /\ resolutions[p] = "none"
        /\ dec'.step \in {"drop", "record"} /\ dec'.ask = p
    BY <1>3 DEF Begin, Undecided
  <2>3. DecisionPlace' BY <2>1, <2>2 DEF DecisionPlace
  <2>4. AskPlace' BY <2>1, <2>2 DEF AskPlace, InFlight
  <2>5. AskQueueConsistent' /\ ItemMatchesDecision'
    BY <2>1 DEF AskQueueConsistent, ItemMatchesDecision
  <2>6. QED BY <2>3, <2>4, <2>5
<1>4. CASE RecordRow \/ SaveRow \/ AuditRow
  <2>1. UNCHANGED <<filed, pending, resolutions, needsYou, Asks>>
    BY <1>4 DEF RecordRow, SaveRow, AuditRow, askVars, Asks
  <2>2. /\ dec.step \in {"record", "save", "audit"}
        /\ \/ dec'.step = "idle"
           \/ dec'.step \in {"save", "audit", "drop"} /\ dec'.ask = dec.ask
    <3>1. CASE RecordRow
      BY <3>1 DEF RecordRow, TypeInv, TypeOK
    <3>2. CASE SaveRow
      BY <3>2 DEF SaveRow, Rollback, NoDecision, TypeInv, TypeOK
    <3>3. CASE AuditRow
      BY <3>3 DEF AuditRow, Rollback, NoDecision, TypeInv, TypeOK
    <3>4. QED BY <1>4, <3>1, <3>2, <3>3
  <2>3. DecisionPlace' BY <2>1, <2>2 DEF DecisionPlace
  <2>4. AskPlace' BY <2>1, <2>2 DEF AskPlace, InFlight, DecisionPlace
  <2>5. AskQueueConsistent' /\ ItemMatchesDecision'
    BY <2>1 DEF AskQueueConsistent, ItemMatchesDecision
  <2>6. QED BY <2>3, <2>4, <2>5
<1>5. CASE DropPending
  <2>1. /\ UNCHANGED <<filed, resolutions, needsYou, Asks>>
        /\ pending' = pending \ {dec.ask}
        /\ dec.step = "drop" /\ dec'.step = "publish" /\ dec'.ask = dec.ask
    BY <1>5 DEF DropPending, Asks, TypeInv, TypeOK
  <2>2. DecisionPlace' BY <2>1 DEF DecisionPlace, AskPlace
  <2>3. AskPlace' BY <2>1 DEF AskPlace, InFlight
  <2>4. AskQueueConsistent' /\ ItemMatchesDecision'
    BY <2>1 DEF AskQueueConsistent, ItemMatchesDecision
  <2>5. QED BY <2>2, <2>3, <2>4
<1>6. CASE Publish
  <2>1. /\ UNCHANGED <<filed, pending, needsYou, Asks>>
        /\ resolutions' = [resolutions EXCEPT ![dec.ask] = dec.choice]
        /\ dec.step = "publish" /\ dec'.step = "close"
        /\ dec'.ask = dec.ask /\ dec'.choice = dec.choice
    BY <1>6 DEF Publish, Asks, TypeInv, TypeOK
  <2>2. dec.ask \in DOMAIN filed /\ dec.ask \in Asks /\ DOMAIN resolutions = Asks
        /\ dec.choice \in Choices /\ "none" \notin Choices
    BY <2>1, GateAssumption DEF TypeInv, TypeOK, References, Asks, Choices, AllowChoices,
         RefuseChoices, GateAssumption
  <2>3. \A p \in Asks : resolutions'[p] = IF p = dec.ask THEN dec.choice ELSE resolutions[p]
    BY <2>1, <2>2
  <2>4. DecisionPlace' BY <2>1, <2>2, <2>3 DEF DecisionPlace
  <2>5. \A p \in DOMAIN filed : p \in Asks
    BY GateAssumption DEF TypeInv, TypeOK, Asks, GateAssumption
  <2>6. AskPlace'
    BY <2>1, <2>2, <2>3, <2>5 DEF AskPlace, InFlight, DecisionPlace, TypeInv, TypeOK
  <2>7. AskQueueConsistent' BY <2>1 DEF AskQueueConsistent
  <2>8. needsYou[dec.ask] \notin {"approved", "denied"}
    BY <2>1, <2>2 DEF ItemMatchesDecision, DecisionPlace, AllowChoices, RefuseChoices
  <2>9. ItemMatchesDecision' BY <2>1, <2>3, <2>5, <2>8 DEF ItemMatchesDecision
  <2>10. QED BY <2>4, <2>6, <2>7, <2>9
<1>7. CASE CloseItem
  <2>1. /\ UNCHANGED <<filed, pending, resolutions, Asks>>
        /\ \/ needsYou' = [needsYou EXCEPT ![dec.ask] =
                             IF dec.choice \in AllowChoices THEN "approved" ELSE "denied"]
           \/ UNCHANGED needsYou
        /\ dec.step = "close" /\ dec'.step = "idle"
    BY <1>7 DEF CloseItem, Asks, NoDecision
  <2>2. /\ resolutions[dec.ask] = dec.choice /\ dec.choice \in Choices /\ "none" \notin Choices
        /\ dec.ask \notin pending /\ pending \subseteq DOMAIN filed
    BY <2>1 DEF DecisionPlace, TypeInv, TypeOK, Choices, AllowChoices, RefuseChoices
  <2>3. needsYou \in [Asks -> {"absent", "open", "approved", "denied"}] /\ \A p \in DOMAIN filed : p \in Asks
    BY GateAssumption DEF TypeInv, TypeOK, Asks, GateAssumption
  <2>4. ASSUME NEW p \in DOMAIN filed
        PROVE  \/ needsYou'[p] = needsYou[p]
               \/ /\ p = dec.ask
                  /\ needsYou'[p] =
                       IF dec.choice \in AllowChoices THEN "approved" ELSE "denied"
    <3>1. CASE UNCHANGED needsYou BY <3>1
    <3>2. CASE ~UNCHANGED needsYou BY <2>1, <2>3, <3>2
    <3>3. QED BY <3>1, <3>2
  <2>5. DecisionPlace' BY <2>1 DEF DecisionPlace
  <2>6. AskPlace' BY <2>1, <2>2 DEF AskPlace, InFlight
  <2>7. AskQueueConsistent' BY <2>1, <2>2, <2>4 DEF AskQueueConsistent
  <2>8. ItemMatchesDecision'
    BY <2>1, <2>2, <2>4 DEF ItemMatchesDecision, Choices
  <2>9. QED BY <2>5, <2>6, <2>7, <2>8
<1>8. QED BY <1>1, <1>2, <1>3, <1>4, <1>5, <1>6, <1>7, AskSteps

LEMMA AskInvariance == Spec => [](TypeInv /\ AskInv)
<1>1. Init => TypeInv /\ AskInv
  BY InitTypeInv, InitAskInv, GateAssumption
<1>2. TypeInv /\ AskInv /\ [Next]_vars => (TypeInv /\ AskInv)'
  BY StepTypeInv, StepAskInv, GateAssumption
<1>3. QED BY <1>1, <1>2, PTL DEF Spec

\* persist_pending: no binding has two asks open, and an open ask is listed.
THEOREM AsksAreShared == Spec => []AskQueueConsistent
<1>1. TypeInv /\ AskInv => AskQueueConsistent
  BY DEF AskInv
<1>2. QED BY <1>1, AskInvariance, PTL

\* close_needs_you: an item is closed as what was decided of its ask, though the ask,
\* its resolution and the item are written in three critical sections.
THEOREM ItemsTellTheDecision == Spec => []ItemMatchesDecision
<1>1. TypeInv /\ AskInv => ItemMatchesDecision
  BY DEF AskInv
<1>2. QED BY <1>1, AskInvariance, PTL

\* Between the drop of an ask and its resolution the decision is still in progress:
\* no waiter is left on an ask nobody can answer.
THEOREM NoWaiterIsStranded == Spec => []WaitersAskIsLive
<1>1. TypeInv /\ AskInv => WaitersAskIsLive
  BY DEF TypeInv, References, AskInv, AskPlace, WaitersAskIsLive
<1>2. QED BY <1>1, AskInvariance, PTL

-----------------------------------------------------------------------------
(* Decisions: what approve_pending has produced when it stands at each step. *)

Allowed(p, m) == {g \in DOMAIN m : m[g].ask = p /\ m[g].effect = "allow"}

Made(p, choice, m, st, au) ==
  IF choice \in AllowChoices
  THEN \E g \in Allowed(p, m) : Allowed(p, m) \cap au = {g}
  ELSE Allowed(p, m) \cap (st \cup au) = {}


DecisionProgress ==
  /\ dec.step \in {"record", "save", "audit"} =>
       /\ Allowed(dec.ask, minted) \cap audited = {}
       /\ Allowed(dec.ask, minted) \cap store \subseteq {dec.grant}
  /\ dec.step = "record" => dec.grant = 0 /\ dec.choice \notin Unstored
  /\ dec.step \in {"save", "audit"} =>
       /\ minted[dec.grant].ask = dec.ask
       /\ minted[dec.grant].effect = "allow" <=> dec.choice \in AllowChoices
  /\ dec.step = "save" => dec.choice \in Durable
  /\ dec.step = "audit" => dec.choice \in AllowChoices
  /\ dec.step \in {"drop", "publish", "close"} => Made(dec.ask, dec.choice, minted, store, audited)

DecisionInv == DecisionProgress /\ DecisionAtomic

IInv == TypeInv /\ CommitInv /\ AskInv /\ DecisionInv

\* Nothing is decided in the initial state.
LEMMA InitDecisionInv == ASSUME Init PROVE DecisionInv
  BY DEF Init, DecisionInv, DecisionProgress, DecisionAtomic, NoDecision

\* Only RecordRow changes which rows an ask has been allowed, and no other step
\* brings such a row back into the store.
LEMMA AllowedEffect ==
  ASSUME TypeInv, [Next]_vars, ~RecordRow, NEW p \in DOMAIN filed
  PROVE  /\ Allowed(p, minted') = Allowed(p, minted)
         /\ Allowed(p, minted) \cap store' \subseteq store
<1>1. p # 0
  BY DEF TypeInv, TypeOK
<1>2. Allowed(p, minted') = Allowed(p, minted)
  <2>1. CASE UNCHANGED minted
    BY <2>1 DEF Allowed, GrantIds
  <2>2. CASE SwapEntry
    <3>1. minted'[Len(minted) + 1].ask = 0
      BY <2>2 DEF SwapEntry, TypeInv, TypeOK, References, Grant, GrantIds
    <3>2. DOMAIN minted' = DOMAIN minted \cup {Len(minted) + 1}
          /\ \A g \in DOMAIN minted : minted'[g] = minted[g]
      BY <2>2, MintedGrows DEF SwapEntry, GrantIds, TypeInv, TypeOK
    <3>3. QED BY <1>1, <3>1, <3>2 DEF Allowed
  <2>3. QED BY <2>1, <2>2, MintedGrows
<1>3. Allowed(p, minted) \cap store' \subseteq store
  BY StoreEffect DEF Allowed, GrantIds
<1>4. QED BY <1>2, <1>3

\* What a decision has produced stays produced while nothing is audited.
LEMMA MadeKept ==
  ASSUME TypeInv, [Next]_vars, ~RecordRow, UNCHANGED audited,
         NEW p \in DOMAIN filed, NEW choice, Made(p, choice, minted, store, audited)
  PROVE  Made(p, choice, minted', store', audited')
  BY AllowedEffect DEF Made

\* A decision in progress has produced what its step says, and nothing else.
LEMMA StepDecisionInv ==
  ASSUME TypeInv, AskInv, DecisionInv, [Next]_vars
  PROVE  DecisionInv'
<1> USE DEF DecisionInv
<1>1. \A p \in DOMAIN filed : ~InFlight(p) => Made(p, resolutions[p], minted, store, audited)
  BY DEF DecisionAtomic, Made, Allowed, AllowedFor, GrantIds
<1>2. DecisionAtomic' <=>
        \A p \in DOMAIN filed' : ~(dec'.step # "idle" /\ dec'.ask = p) => Made(p, resolutions'[p], minted', store', audited')
  BY DEF DecisionAtomic, Made, InFlight, Allowed, AllowedFor, GrantIds
<1>3. dec.step # "idle" => dec.ask \in DOMAIN filed
  BY DEF TypeInv, References
<1>4. CASE ~RecordRow /\ UNCHANGED <<dec, resolutions, audited>>
  <2>1. ASSUME NEW p \in DOMAIN filed' \ DOMAIN filed
        PROVE  Made(p, resolutions'[p], minted', store', audited')
    <3>1. PICK c \in Calls : NewAsk(c) /\ UNCHANGED dec
      BY <1>4, <2>1, AskSteps DEF askVars, Begin, RecordRow, SaveRow, AuditRow, DropPending,
           Publish, CloseItem
    <3>2. p = Len(filed) + 1 /\ p \in Asks
      BY <2>1, <3>1, GateAssumption DEF NewAsk, TypeInv, TypeOK, Asks, GateAssumption
    <3>3. resolutions'[p] = "none"
      BY <1>4, <2>1, <3>2 DEF AskInv, AskPlace
    <3>4. UNCHANGED minted
      BY <1>4, <3>1, MintedGrows DEF NewAsk, SwapEntry, askVars, TypeInv, TypeOK
    <3>5. Allowed(p, minted') = {}
      BY <3>2, <3>4 DEF Allowed, GrantIds, TypeInv, TypeOK, References
    <3>6. QED BY <3>3, <3>5 DEF Made, AllowChoices
  <2>2. ASSUME NEW p \in DOMAIN filed, ~(dec'.step # "idle" /\ dec'.ask = p)
        PROVE  Made(p, resolutions'[p], minted', store', audited')
    BY <1>1, <1>4, <2>2, MadeKept DEF InFlight
  <2>3. DecisionAtomic' BY <1>2, <2>1, <2>2
  <2>4. dec.grant \in GrantIds => minted'[dec.grant] = minted[dec.grant]
    BY MintedGrows
  <2>5. ASSUME dec.step \in {"record", "save", "audit"}
        PROVE  /\ Allowed(dec.ask, minted') \cap audited' = {}
               /\ Allowed(dec.ask, minted') \cap store' \subseteq {dec.grant}
    BY <1>3, <1>4, <2>5, AllowedEffect DEF DecisionProgress
  <2>6. ASSUME dec.step \in {"drop", "publish", "close"}
        PROVE  Made(dec.ask, dec.choice, minted', store', audited')
    BY <1>3, <1>4, <2>6, MadeKept DEF DecisionProgress
  <2>7. Made(dec.ask, dec.choice, minted', store', audited') <=> Made(dec'.ask, dec'.choice, minted', store', audited')
    BY <1>4
  <2>8. Allowed(dec'.ask, minted') = Allowed(dec.ask, minted')
    BY <1>4
  <2>9. DecisionProgress'
    BY <1>4, <2>4, <2>5, <2>6, <2>7, <2>8 DEF DecisionProgress, TypeInv, References
  <2>10. QED BY <2>3, <2>9
<1>5. ASSUME NEW p \in pending, NEW choice \in Choices, Begin(p, choice)
      PROVE  DecisionInv'
  <2>1. /\ UNCHANGED <<minted, store, audited, filed, resolutions>> /\ ~RecordRow
        /\ dec.step = "idle" /\ resolutions[p] = "none" /\ p \in DOMAIN filed
        /\ dec' = [step |-> IF choice \in Unstored THEN "drop" ELSE "record",
                   ask |-> p, choice |-> choice, grant |-> 0]
    BY <1>5 DEF Begin, Undecided, grantVars, askVars, RecordRow, TypeInv, TypeOK
  <2>2. ASSUME NEW q \in DOMAIN filed PROVE Allowed(q, minted') = Allowed(q, minted)
    BY <2>1, AllowedEffect
  <2>3. Allowed(p, minted) \cap (store \cup audited) = {}
    BY <1>1, <2>1 DEF InFlight, Made, AllowChoices
  <2>4. DecisionProgress'
    BY <2>1, <2>2, <2>3 DEF DecisionProgress, Made, Unstored, AllowChoices
  <2>5. DecisionAtomic'
    BY <1>1, <1>2, <2>1, MadeKept DEF InFlight
  <2>6. QED BY <2>4, <2>5
<1>6. CASE RecordRow
  <2> DEFINE n == Len(minted) + 1
             r == RowFor(dec.ask, dec.choice)
  <2>1. /\ UNCHANGED <<filed, resolutions, audited>>
        /\ dec.step = "record" /\ dec.ask \in DOMAIN filed /\ dec.choice \in Choices
        /\ minted' = Append(minted, r)
        /\ store' \subseteq store \cup {n}
        /\ dec' = [dec EXCEPT !.grant = n,
                     !.step = IF dec.choice \in Durable THEN "save" ELSE "audit"]
    BY <1>3, <1>6 DEF RecordRow, askVars, TypeInv, TypeOK
  <2>2. r.ask = dec.ask /\ (r.effect = "allow" <=> dec.choice # "deny_always")
    BY DEF RowFor
  <2>3. minted \in Seq(Grant) /\ r \in Grant
    BY <2>1, RowForType DEF TypeInv, TypeOK
  <2> HIDE DEF r
  <2>4. /\ GrantIds' = GrantIds \cup {n} /\ n \notin GrantIds /\ minted'[n] = r
        /\ \A g \in GrantIds : minted'[g] = minted[g]
    BY <2>1, <2>3 DEF GrantIds
  <2> HIDE DEF n
  <2>5. audited \subseteq GrantIds /\ store \subseteq GrantIds
    BY DEF TypeInv, TypeOK
  <2>6. Allowed(dec.ask, minted') \subseteq Allowed(dec.ask, minted) \cup {n}
    BY <2>4 DEF Allowed, GrantIds
  <2>7. Allowed(dec.ask, minted) \cap (store \cup audited) = {}
    <3>1. dec.grant = 0 /\ 0 \notin GrantIds
      BY <2>1 DEF DecisionProgress, GrantIds, TypeInv, TypeOK
    <3>2. QED BY <2>1, <2>5, <3>1 DEF DecisionProgress
  <2>8. ASSUME NEW p \in DOMAIN filed, p # dec.ask
        PROVE  Allowed(p, minted') = Allowed(p, minted) /\ n \notin Allowed(p, minted)
    BY <2>2, <2>4, <2>8 DEF Allowed, GrantIds
  <2>9. dec'.ask = dec.ask /\ dec'.choice = dec.choice /\ dec'.grant = n
        /\ dec'.step = IF dec.choice \in Durable THEN "save" ELSE "audit"
    BY <2>1 DEF TypeInv, TypeOK
  <2>10. dec.choice \notin Unstored
    BY <2>1 DEF DecisionProgress
  <2>11. /\ dec.choice # "deny_always" <=> dec.choice \in AllowChoices
         /\ dec.choice \notin Durable => dec.choice \in AllowChoices
    BY <2>1, <2>10 DEF Choices, AllowChoices, RefuseChoices, Unstored, Durable
  <2>12. Allowed(dec'.ask, minted') = Allowed(dec.ask, minted')
    BY <2>9
  <2>13. DecisionProgress'
    <3>1. dec'.step \in {"save", "audit"}
      BY <2>9
    <3>2. /\ Allowed(dec'.ask, minted') \cap audited' = {}
          /\ Allowed(dec'.ask, minted') \cap store' \subseteq {dec'.grant}
      BY <2>1, <2>4, <2>5, <2>6, <2>7, <2>9, <2>12
    <3>3. /\ minted'[dec'.grant].ask = dec'.ask
          /\ minted'[dec'.grant].effect = "allow" <=> dec'.choice \in AllowChoices
      BY <2>2, <2>4, <2>9, <2>11
    <3>4. /\ dec'.step = "save" => dec'.choice \in Durable
          /\ dec'.step = "audit" => dec'.choice \in AllowChoices
      BY <2>9, <2>11
    <3>5. QED BY <3>1, <3>2, <3>3, <3>4 DEF DecisionProgress
  <2>14. DecisionAtomic'
    BY <1>1, <1>2, <2>1, <2>5, <2>8, <2>9 DEF InFlight, Made
  <2>15. QED BY <2>13, <2>14
<1>7. CASE SaveRow \/ AuditRow
  <2>1. /\ UNCHANGED <<minted, filed, resolutions>> /\ ~RecordRow
        /\ dec.step \in {"save", "audit"} /\ dec.ask \in DOMAIN filed
        /\ store' \subseteq store
    BY <1>3, <1>7 DEF SaveRow, AuditRow, Rollback, RecordRow, askVars
  <2>2. ASSUME NEW p \in DOMAIN filed PROVE Allowed(p, minted') = Allowed(p, minted)
    BY <2>1, AllowedEffect
  <2>3. resolutions[dec.ask] = "none"
    BY <2>1 DEF AskInv, AskPlace, DecisionPlace
  <2>4. dec.grant \in Allowed(dec.ask, minted) <=> dec.choice \in AllowChoices
    BY <2>1 DEF Allowed, DecisionProgress, TypeInv, References, GrantIds
  <2>5. ASSUME NEW p \in DOMAIN filed, p # dec.ask, UNCHANGED audited \/ audited' = audited \cup {dec.grant}
        PROVE  Made(p, resolutions[p], minted', store', audited')
    <3>1. dec.grant \notin Allowed(p, minted)
      BY <2>1, <2>5 DEF Allowed, DecisionProgress
    <3>2. Made(p, resolutions[p], minted, store, audited)
      BY <1>1, <2>5 DEF InFlight
    <3>3. QED BY <2>1, <2>2, <2>5, <3>1, <3>2 DEF Made
  <2>6. CASE Rollback /\ UNCHANGED audited
    <3>1. dec'.step = "idle" /\ store' = store \ {dec.grant}
      BY <2>6 DEF Rollback, NoDecision
    <3>2. Made(dec.ask, resolutions[dec.ask], minted', store', audited')
      BY <2>1, <2>2, <2>3, <2>6, <3>1 DEF Made, DecisionProgress, AllowChoices
    <3>3. DecisionAtomic' BY <1>2, <2>1, <2>5, <2>6, <3>2
    <3>4. DecisionProgress' BY <3>1 DEF DecisionProgress
    <3>5. QED BY <3>3, <3>4
  <2>7. CASE SaveRow /\ ~Rollback
    <3>1. /\ dec.step = "save" /\ UNCHANGED <<store, audited>>
          /\ dec'.ask = dec.ask /\ dec'.choice = dec.choice /\ dec'.grant = dec.grant
          /\ dec'.step = IF dec.choice = "always" THEN "audit" ELSE "drop"
      BY <2>7 DEF SaveRow, TypeInv, TypeOK
    <3>2. Allowed(dec'.ask, minted') = Allowed(dec.ask, minted)
      BY <2>1, <2>2, <3>1
    <3>3. dec.choice = "always" <=> dec.choice \in AllowChoices
      BY <3>1 DEF DecisionProgress, Durable, AllowChoices
    <3>4. DecisionProgress'
      BY <2>1, <2>4, <3>1, <3>2, <3>3 DEF DecisionProgress, Made
    <3>5. DecisionAtomic'
      BY <1>2, <2>1, <2>5, <3>1 DEF InFlight
    <3>6. QED BY <3>4, <3>5
  <2>8. CASE AuditRow /\ ~(Rollback /\ UNCHANGED audited)
    <3>1. /\ dec.step = "audit" /\ UNCHANGED store /\ audited' = audited \cup {dec.grant}
          /\ dec'.ask = dec.ask /\ dec'.choice = dec.choice /\ dec'.step = "drop"
      BY <2>8 DEF AuditRow, TypeInv, TypeOK
    <3>2. Allowed(dec'.ask, minted') = Allowed(dec.ask, minted)
      BY <2>1, <2>2, <3>1
    <3>3. Made(dec'.ask, dec'.choice, minted', store', audited')
      BY <2>4, <3>1, <3>2 DEF DecisionProgress, Made
    <3>4. DecisionProgress'
      BY <3>1, <3>3 DEF DecisionProgress
    <3>5. DecisionAtomic'
      BY <1>2, <2>1, <2>5, <3>1 DEF InFlight
    <3>6. QED BY <3>4, <3>5
  <2>9. SaveRow => UNCHANGED audited
    BY DEF SaveRow
  <2>10. QED BY <1>7, <2>6, <2>7, <2>8, <2>9
<1>8. CASE DropPending \/ Publish \/ CloseItem
  <2>1. /\ UNCHANGED <<minted, store, audited, filed>> /\ ~RecordRow
        /\ dec.step \in {"drop", "publish", "close"} /\ dec.ask \in DOMAIN filed
    BY <1>3, <1>8 DEF DropPending, Publish, CloseItem, RecordRow, grantVars
  <2>2. Made(dec.ask, dec.choice, minted', store', audited')
    BY <2>1, MadeKept DEF DecisionProgress
  <2>3. ASSUME NEW p \in DOMAIN filed, p # dec.ask
        PROVE  Made(p, resolutions'[p], minted', store', audited')
    <3>1. resolutions'[p] = resolutions[p]
      BY <1>8, <2>3, GateAssumption
         DEF DropPending, Publish, CloseItem, TypeInv, TypeOK, Asks, GateAssumption
    <3>2. QED BY <1>1, <2>1, <2>3, <3>1, MadeKept DEF InFlight
  <2>4. CASE DropPending \/ Publish
    <3>1. dec'.ask = dec.ask /\ dec'.choice = dec.choice /\ dec'.step \in {"publish", "close"}
      BY <2>4 DEF DropPending, Publish, TypeInv, TypeOK
    <3>2. Made(dec'.ask, dec'.choice, minted', store', audited')
      BY <2>2, <3>1
    <3>3. DecisionProgress' BY <3>1, <3>2 DEF DecisionProgress
    <3>4. DecisionAtomic' BY <1>2, <2>1, <2>3, <3>1 DEF InFlight
    <3>5. QED BY <3>3, <3>4
  <2>5. CASE CloseItem
    <3>1. dec.step = "close" /\ dec'.step = "idle" /\ UNCHANGED resolutions
      BY <2>5 DEF CloseItem, NoDecision
    <3>2. resolutions'[dec.ask] = dec.choice
      BY <3>1 DEF AskInv, DecisionPlace
    <3>3. Made(dec.ask, resolutions'[dec.ask], minted', store', audited')
      BY <2>2, <3>2
    <3>4. DecisionAtomic' BY <1>2, <2>1, <2>3, <3>3
    <3>5. DecisionProgress' BY <3>1 DEF DecisionProgress
    <3>6. QED BY <3>4, <3>5
  <2>6. QED BY <1>8, <2>4, <2>5
<1>9. ASSUME ~RecordRow, ~SaveRow, ~AuditRow, ~DropPending, ~Publish, ~CloseItem
      PROVE  UNCHANGED audited
  BY <1>9, NextSteps, CallsLeaveRows
     DEF vars, DecisionStep, EntryStep, SwapEntry, SaveEntry, RestoreEntry, Begin, Revoke,
         AllowEntry, Lapse
<1>10. QED
  BY <1>4, <1>5, <1>6, <1>7, <1>8, <1>9, AskSteps DEF askVars, NewAsk

\* Approving an ask mints exactly one audited row; refusing it or failing leaves none.
THEOREM DecisionsAreAtomic == Spec => []DecisionAtomic
<1>1. Init => IInv
  BY InitTypeInv, InitCommitInv, InitAskInv, InitDecisionInv, GateAssumption DEF IInv
<1>2. IInv /\ [Next]_vars => IInv'
  BY StepTypeInv, StepCommitInv, StepAskInv, StepDecisionInv, GateAssumption DEF IInv
<1>3. IInv => DecisionAtomic
  BY DEF IInv, DecisionInv
<1>4. QED BY <1>1, <1>2, <1>3, PTL DEF Spec
================================================================================
