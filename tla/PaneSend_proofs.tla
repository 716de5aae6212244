---------------------------- MODULE PaneSend_proofs ----------------------------
(***************************************************************************)
(* Proofs about `plexi pane send`, for every number of requests,           *)
(* operations, asks, revocations and restarts and every order of the       *)
(* journal's keys.  The inductive invariant IInv says, on top of the       *)
(* shapes, what the journal in memory and the one on disk have in common:  *)
(* every record of an operation is about one text, the operation's own     *)
(* record is there, asks belong to one record, completed records were      *)
(* delivered (Sound); what was delivered, or is about to be, is recorded   *)
(* in both (JournalInv), and its first record refuses another claim unless *)
(* the operation was reopened (SpentInv).                                  *)
(***************************************************************************)
EXTENDS PaneSend, FiniteSetTheorems, WellFoundedInduction, TLAPS

Journal == [Keys -> Record \cup {NoRecord}]
Disk == [conts : Journal, queue : SUBSET Asks, rows : SUBSET Row]

SendTypes ==
  /\ answer \in [Requests -> Replies \cup {"none", "open"}]
  /\ parked \in [Requests -> 0 .. Len(filed)]
  /\ submitting \subseteq Requests /\ \A q, r \in submitting : q = r
  /\ ui \in {Idle} \cup [step : {"send", "claim", "deliver"}, req : Requests]
              \cup [step : {"settle"}, req : Requests, sent : BOOLEAN]

AskTypes ==
  /\ filed \in Seq(Binding) /\ Len(filed) <= MaxAsks
  /\ pending \subseteq open /\ open \subseteq DOMAIN filed /\ fresh \subseteq DOMAIN filed
  /\ resolutions \in [Asks -> {"none", "approved", "denied"}]
  /\ denying \in 0 .. Len(filed) /\ denying \notin pending
  /\ disk.queue \subseteq DOMAIN filed

StoreTypes ==
  /\ conts \in Journal /\ rows \subseteq Row /\ disk \in Disk
  /\ delivered \in [Ops -> Seq(Texts)]

TypeInv == SendTypes /\ AskTypes /\ StoreTypes

\* Asks belong to one record, all records of an operation are about the text of its
\* own record, one that is completed was delivered, and one that asks for another
\* try has not ended; n asks were filed and sent[o] was delivered of operation o.
Has(c, o, t) == c[o] # NoRecord /\ c[o].text = t

SoundRecord(c, k, n, sent) ==
  /\ Has(c, c[k].op, c[k].text)
  /\ k \in Ops => c[k].op = k
  /\ k \in Asks => k <= n
  /\ c[k].ask <= n
  /\ c[k].state = "completed" => c[k].text \in sent[c[k].op]
  /\ c[k].outcome = "retry_required" => c[k].state \in InFlight

Sound(c, n, sent) ==
  /\ \A k \in Keys : c[k] # NoRecord => SoundRecord(c, k, n, sent)
  /\ \A j, k \in Keys : c[j] # NoRecord /\ c[k] # NoRecord /\ c[j].ask = c[k].ask /\ c[k].ask # 0
                        => j = k

\* What was delivered or is about to be is recorded.
Good(c, n, sent, under) ==
  /\ Sound(c, n, sent)
  /\ \A o \in Ops : \A t \in sent[o] : Has(c, o, t)
  /\ \A b \in under : Has(c, b.op, b.text)

SentTo == [o \in Ops |-> Sent(o)]
Underway == {BindingOf(r) : r \in {q \in Requests : ui.step \in {"deliver", "settle"} /\ ui.req = q}}
Effected == {o \in Ops \ rewound : delivered[o] # << >> \/ \E b \in Underway : b.op = o}

JournalInv == /\ Good(conts, Len(filed), SentTo, Underway)
              /\ Good(disk.conts, Len(filed), SentTo, Underway)

SpentInv == \A o \in Effected : Spent(conts, o) /\ Spent(disk.conts, o)

OnceInv == \A o \in Ops \ rewound :
             /\ Len(delivered[o]) <= 1
             /\ ui.step = "deliver" /\ OpOf[ui.req] = o => delivered[o] = << >>

ReplyInv ==
  /\ SuccessIsDelivery
  /\ ui.step = "settle" /\ ui.sent => TextOf[ui.req] \in Sent(OpOf[ui.req])
  /\ \A r \in submitting : TextOf[r] \in Sent(OpOf[r])

IInv == TypeInv /\ JournalInv /\ SpentInv /\ OnceInv /\ ReplyInv

-------------------------------------------------------------------------------
(* The journal: its order and what becomes of its records.                    *)

LEMMA FirstIsThere ==
  ASSUME NEW S, S \subseteq Keys, S # {}
  PROVE  First(S) \in S
<1>1. PICK less : less = {ss \in Nat \X Nat : ss[1] < ss[2]}
  OBVIOUS
<1>2. IsWellFoundedOn(less, Nat)
  <2>1. less = OpToRel(<, Nat)
    BY <1>1 DEF OpToRel
  <2>2. QED BY <2>1, NatLessThanWellFounded
<1>3. PICK ranks : ranks = {Rank[k] : k \in S}
  OBVIOUS
<1>4. ranks \subseteq Nat /\ ranks # {}
  BY <1>3, SendAssumption
<1>5. PICK x \in ranks : \A y \in ranks : ~ (<<y, x>> \in less)
  BY <1>2, <1>4, WFMin
<1>6. \A y \in ranks : x <= y
  <2>1. \A a, b \in Nat : a < b => <<a, b>> \in less
    BY <1>1
  <2>2. TAKE y \in ranks
  <2>3. x \in Nat /\ y \in Nat
    BY <1>4
  <2>4. ~(y < x)
    BY <1>5, <2>1, <2>3
  <2>5. QED BY <2>3, <2>4
<1>7. PICK k \in S : \A j \in S : Rank[k] <= Rank[j]
  BY <1>3, <1>6
<1>8. QED BY <1>7 DEF First

\* What a record becomes of: its text and its ask stay, and only a delivered text
\* is completed.
Moved(old, new, sent) ==
  /\ new \in Record /\ new.op = old.op /\ new.text = old.text /\ new.ask = old.ask
  /\ new.state = "completed" => new.text \in sent[new.op]
  /\ new.outcome = "retry_required" => new.state \in InFlight

Stays(old, new) == old.state \notin InFlight => new.state \notin InFlight

LEMMA RecordIs == \A rec \in Record : /\ rec # NoRecord /\ rec.op \in Ops /\ rec.text \in Texts
                                      /\ rec.ask \in Nat /\ rec.state \in States
BY DEF Record, NoRecord, States

LEMMA OpsAreKeys == Ops \subseteq Keys /\ Asks \subseteq Keys /\ \A o \in Ops : o \notin Asks
BY SendAssumption DEF Keys

LEMMA JournalMoves ==
  ASSUME NEW c \in Journal, NEW d \in Journal, NEW n, NEW sent, NEW under,
         under \subseteq Binding, Good(c, n, sent, under),
         \A k \in Keys : d[k] = c[k] \/ (c[k] # NoRecord /\ Moved(c[k], d[k], sent))
  PROVE  /\ Good(d, n, sent, under)
         /\ \A o \in Ops : RecordsIn(d, o) = RecordsIn(c, o)
<1>1. \A k \in Keys : /\ d[k] # NoRecord <=> c[k] # NoRecord
                      /\ c[k] # NoRecord => /\ d[k].op = c[k].op /\ d[k].text = c[k].text
                                            /\ d[k].ask = c[k].ask
  BY RecordIs DEF Moved
<1>2. \A k \in Keys : c[k] # NoRecord => c[k].op \in Keys
  BY RecordIs, OpsAreKeys DEF Journal
<1>3. \A o \in Keys : \A t : Has(c, o, t) => Has(d, o, t)
  BY <1>1 DEF Has
<1>4. ASSUME NEW k \in Keys, d[k] # NoRecord PROVE SoundRecord(d, k, n, sent)
  <2>1. SoundRecord(c, k, n, sent) /\ c[k] # NoRecord
    BY <1>1, <1>4 DEF Good, Sound
  <2>2. Has(d, d[k].op, d[k].text)
    BY <1>1, <1>2, <1>3, <2>1 DEF SoundRecord
  <2>3. CASE d[k] = c[k]
    BY <2>1, <2>2, <2>3 DEF SoundRecord
  <2>4. CASE Moved(c[k], d[k], sent)
    BY <2>1, <2>2, <2>4 DEF SoundRecord, Moved
  <2>5. QED BY <1>1, <2>1, <2>3, <2>4
<1>5. Sound(d, n, sent)
  <2>1. ASSUME NEW j \in Keys, NEW k \in Keys, d[j] # NoRecord, d[k] # NoRecord,
               d[j].ask = d[k].ask, d[k].ask # 0
        PROVE  j = k
    BY <1>1, <2>1 DEF Good, Sound
  <2>2. QED BY <1>4, <2>1 DEF Sound
<1>6. \A o \in Ops : \A t \in sent[o] : Has(d, o, t)
  BY <1>3, OpsAreKeys DEF Good
<1>7. \A b \in under : Has(d, b.op, b.text)
  BY <1>3, OpsAreKeys DEF Good, Binding
<1>8. \A o \in Ops : RecordsIn(d, o) = RecordsIn(c, o)
  BY <1>1 DEF RecordsIn
<1>9. QED BY <1>5, <1>6, <1>7, <1>8 DEF Good

LEMMA SpentStays ==
  ASSUME NEW c, NEW d, NEW o, Spent(c, o), RecordsIn(d, o) = RecordsIn(c, o),
         \A k \in Keys : d[k] = c[k] \/ Stays(c[k], d[k])
  PROVE  Spent(d, o)
<1>1. PICK k : k = First(RecordsIn(c, o))
  OBVIOUS
<1>2. k \in RecordsIn(c, o) /\ k \in Keys
  BY <1>1, FirstIsThere DEF Spent, RecordsIn
<1>3. c[k].state \notin InFlight
  BY <1>1 DEF Spent
<1>4. d[k].state \notin InFlight
  BY <1>2, <1>3 DEF Stays
<1>5. QED BY <1>1, <1>2, <1>4 DEF Spent

LEMMA GoodGrows ==
  ASSUME NEW c \in Journal, NEW n \in Nat, NEW m \in Nat, n <= m, NEW sent, NEW under,
         NEW less, less \subseteq under, Good(c, n, sent, under)
  PROVE  Good(c, m, sent, less)
<1>1. \A k \in Keys : c[k] # NoRecord => SoundRecord(c, k, m, sent)
  <2>1. TAKE k \in Keys
  <2>2. HAVE c[k] # NoRecord
  <2>3. SoundRecord(c, k, n, sent) /\ c[k].ask \in Nat
    BY <2>2, RecordIs DEF Good, Sound, Journal
  <2>4. k \in Asks => k \in Nat
    BY SendAssumption DEF Asks
  <2>5. QED BY <2>3, <2>4 DEF SoundRecord
<1>2. QED BY <1>1 DEF Good, Sound

-------------------------------------------------------------------------------
(* What the operations on the journal do to its records.                      *)

Steps(c, d, sent) ==
  d \in Journal /\ \A k \in Keys : d[k] = c[k] \/ (c[k] # NoRecord /\ Moved(c[k], d[k], sent))

Keeps(c, d) == \A k \in Keys : d[k] = c[k] \/ Stays(c[k], d[k])

\* One record changes.
LEMMA OneMoves ==
  ASSUME NEW c \in Journal, NEW k \in Keys, c[k] # NoRecord, NEW new, NEW sent,
         Moved(c[k], new, sent), NEW d, d = [c EXCEPT ![k] = new]
  PROVE  Steps(c, d, sent) /\ d[k] = new /\ (Stays(c[k], new) => Keeps(c, d))
<1>1. new \in Record
  BY DEF Moved
<1>2. d \in Journal
  BY <1>1 DEF Journal
<1>3. d[k] = new /\ \A j \in Keys \ {k} : d[j] = c[j]
  BY DEF Journal
<1>4. QED BY <1>2, <1>3 DEF Steps, Keeps

\* complete_continuation of an operation that has a record of its own.
LEMMA CompletedMoves ==
  ASSUME conts \in Journal, NEW o \in Ops, conts[o] # NoRecord, conts[o].op = o,
         NEW st \in {"completed", "failed", "outcome_unknown"}, NEW receipt \in BOOLEAN,
         NEW sent, st = "completed" => conts[o].text \in sent[o]
  PROVE  Steps(conts, Completed(o, st, receipt), sent) /\ Keeps(conts, Completed(o, st, receipt))
<1>1. PICK new : new = [conts[o] EXCEPT !.state = st, !.outcome = st,
                                       !.receipt = receipt \/ conts[o].receipt]
  OBVIOUS
<1>2. o \in Keys /\ conts[o] \in Record
  BY OpsAreKeys DEF Journal
<1>3. KeyOf(o) = o
  BY <1>2 DEF KeyOf, Present
<1>4. Completed(o, st, receipt) = [conts EXCEPT ![o] = new]
  BY <1>1, <1>2, <1>3 DEF Completed, Journal
<1>5. new \in Record /\ new.op = conts[o].op /\ new.text = conts[o].text /\ new.ask = conts[o].ask
      /\ new.state = st /\ new.outcome = st
  BY <1>1, <1>2 DEF Record, States, Outcomes
<1>6. Moved(conts[o], new, sent) /\ Stays(conts[o], new)
  BY <1>5 DEF Moved, Stays, InFlight
<1>7. QED BY <1>2, <1>4, <1>6, OneMoves

\* detach_pane_send_waiter.
LEMMA DetachMoves ==
  ASSUME conts \in Journal, NEW k \in Keys, conts[k] # NoRecord, NEW sent,
         NEW d, d = [conts EXCEPT ![k] = [@ EXCEPT !.state = "paused",
                                                  !.outcome = "retry_required"]]
  PROVE  Steps(conts, d, sent)
<1>1. PICK new : new = [conts[k] EXCEPT !.state = "paused", !.outcome = "retry_required"]
  OBVIOUS
<1>2. d = [conts EXCEPT ![k] = new] /\ conts[k] \in Record
  BY <1>1 DEF Journal
<1>3. new \in Record /\ new.op = conts[k].op /\ new.text = conts[k].text /\ new.ask = conts[k].ask
      /\ new.state = "paused" /\ new.outcome = "retry_required"
  BY <1>1, <1>2 DEF Record, States, Outcomes
<1>4. Moved(conts[k], new, sent)
  BY <1>3 DEF Moved, InFlight
<1>5. QED BY <1>2, <1>4, OneMoves

\* update_continuation_on_needs_you: the records of the ask, of which there is one.
LEMMA DecidedMoves ==
  ASSUME conts \in Journal, NEW n, NEW sent, Sound(conts, n, sent), NEW a \in Asks,
         NEW resolution \in {"approved", "denied"}
  PROVE  Steps(conts, Decided(a, resolution), sent) /\ Keeps(conts, Decided(a, resolution))
<1>1. PICK d : d = Decided(a, resolution)
  OBVIOUS
<1>2. ASSUME NEW k \in Keys
      PROVE  \/ d[k] = conts[k]
             \/ conts[k] # NoRecord /\ Moved(conts[k], d[k], sent) /\ Stays(conts[k], d[k])
  <2>1. CASE k \notin AskedBy(a)
    BY <1>1, <2>1 DEF Decided
  <2>2. CASE k \in AskedBy(a)
    <3>1. conts[k] # NoRecord /\ conts[k].ask = a /\ conts[k] \in Record
      BY <2>2 DEF AskedBy, Present, Journal
    <3>2. First(AskedBy(a)) = k
      <4>1. AskedBy(a) \subseteq Keys
        BY DEF AskedBy, Present
      <4>2. First(AskedBy(a)) \in AskedBy(a)
        BY <2>2, <4>1, FirstIsThere
      <4>3. a # 0
        BY SendAssumption DEF Asks
      <4>4. QED BY <3>1, <4>1, <4>2, <4>3 DEF AskedBy, Present, Sound
    <3>3. PICK out, st : /\ out = RunOutcome(a, conts[k], resolution)
                         /\ st = NextState(conts[k], resolution, out)
      OBVIOUS
    <3>4. d[k] = [conts[k] EXCEPT !.resolution = resolution, !.outcome = out, !.state = st]
      BY <1>1, <2>2, <3>2, <3>3 DEF Decided
    <3>5. SoundRecord(conts, k, n, sent) /\ conts[k].op \in Ops /\ conts[k].state \in States
      BY <3>1, RecordIs DEF Sound
    <3>6. /\ out \in Outcomes /\ (out = "retry_required" => conts[k].state \in InFlight)
          /\ out = "retry_required" => resolution = "approved"
      BY <3>3, <3>5 DEF RunOutcome, Outcomes, SoundRecord
    <3>7. /\ st \in States /\ (out = "retry_required" => st \in InFlight)
          /\ st = "completed" => conts[k].state = "completed"
          /\ conts[k].state \notin InFlight => st \notin InFlight
      BY <3>3, <3>5, <3>6 DEF NextState, States, InFlight
    <3>8. /\ d[k] \in Record /\ d[k].op = conts[k].op /\ d[k].text = conts[k].text
          /\ d[k].ask = conts[k].ask /\ d[k].outcome = out /\ d[k].state = st
      BY <3>1, <3>4, <3>6, <3>7 DEF Record
    <3>9. Moved(conts[k], d[k], sent) /\ Stays(conts[k], d[k])
      BY <3>5, <3>7, <3>8 DEF Moved, Stays, SoundRecord
    <3>10. QED BY <3>1, <3>9
  <2>3. QED BY <2>1, <2>2
<1>3. d \in Journal
  <2>1. \A k \in Keys : d[k] \in Record \cup {NoRecord}
    BY <1>2 DEF Moved, Journal
  <2>2. d = [k \in Keys |-> d[k]]
    BY <1>1 DEF Decided
  <2>3. QED BY <2>1, <2>2 DEF Journal
<1>4. QED BY <1>1, <1>2, <1>3 DEF Steps, Keeps

\* restore_continuations.
LEMMA RestoredMoves ==
  ASSUME NEW c \in Journal, NEW n, NEW sent, Sound(c, n, sent), NEW queue,
         NEW d, d = [k \in Keys |-> Restored(c[k], queue)]
  PROVE  Steps(c, d, sent) /\ Keeps(c, d)
<1>1. ASSUME NEW k \in Keys
      PROVE  \/ d[k] = c[k]
             \/ c[k] # NoRecord /\ Moved(c[k], d[k], sent) /\ Stays(c[k], d[k])
  <2>1. SUFFICES ASSUME c[k] # NoRecord, d[k] # c[k]
                 PROVE  Moved(c[k], d[k], sent) /\ Stays(c[k], d[k])
    BY DEF Restored
  <2>2. PICK rec \in Record : rec = c[k]
    BY <2>1 DEF Journal
  <2>3. SoundRecord(c, k, n, sent) /\ rec.op \in Ops
    BY <2>1, <2>2, RecordIs DEF Sound
  <2>4. \/ /\ d[k] = [rec EXCEPT !.state = "paused", !.outcome = "retry_required"]
           /\ rec.state = "waiting_user"
        \/ d[k] = [rec EXCEPT !.outcome = "retry_check"]
        \/ /\ d[k] = [rec EXCEPT !.state = "outcome_unknown", !.outcome = "outcome_unknown"]
           /\ rec.state \in InFlight
        \/ d[k] = [rec EXCEPT !.outcome = "outcome_unknown"]
    BY <2>1, <2>2 DEF Restored
  <2>5. /\ d[k] \in Record /\ d[k].op = rec.op /\ d[k].text = rec.text /\ d[k].ask = rec.ask
        /\ \/ d[k].state = "paused" /\ rec.state = "waiting_user"
           \/ d[k].state = "outcome_unknown" /\ d[k].outcome # "retry_required"
           \/ d[k].state = rec.state /\ d[k].outcome # "retry_required"
    <3>1. CASE /\ d[k] = [rec EXCEPT !.state = "paused", !.outcome = "retry_required"]
               /\ rec.state = "waiting_user"
      BY <2>2, <3>1 DEF Record, States, Outcomes
    <3>2. CASE d[k] = [rec EXCEPT !.outcome = "retry_check"]
      BY <2>2, <3>2 DEF Record, States, Outcomes
    <3>3. CASE d[k] = [rec EXCEPT !.state = "outcome_unknown", !.outcome = "outcome_unknown"]
      BY <2>2, <3>3 DEF Record, States, Outcomes
    <3>4. CASE d[k] = [rec EXCEPT !.outcome = "outcome_unknown"]
      BY <2>2, <3>4 DEF Record, States, Outcomes
    <3>5. QED BY <2>4, <3>1, <3>2, <3>3, <3>4
  <2>6. QED BY <2>2, <2>3, <2>5 DEF Moved, Stays, SoundRecord, InFlight
<1>2. d \in Journal
  <2>1. \A k \in Keys : d[k] \in Record \cup {NoRecord}
    BY <1>1 DEF Moved, Journal
  <2>2. QED BY <2>1 DEF Journal
<1>3. QED BY <1>1, <1>2 DEF Steps, Keeps

\* An operation has a record of its own as soon as it has one at all.
LEMMA OwnRecord ==
  ASSUME NEW c \in Journal, NEW n, NEW sent, Sound(c, n, sent), NEW o \in Ops
  PROVE  /\ RecordsIn(c, o) = {} <=> c[o] = NoRecord
         /\ c[o] # NoRecord => c[o].op = o
         /\ RecordsIn(c, o) # {} =>
              LET k == First(RecordsIn(c, o)) IN
                /\ k \in RecordsIn(c, o) /\ k \in Keys /\ c[k] \in Record
                /\ c[k].op = o /\ c[o].text = c[k].text
                /\ c[k].state = "completed" => c[k].text \in sent[o]
<1>1. o \in Keys
  BY OpsAreKeys
<1>2. c[o] # NoRecord => c[o].op = o
  BY <1>1 DEF Sound, SoundRecord
<1>3. \A k \in RecordsIn(c, o) : /\ k \in Keys /\ c[k] \in Record /\ c[k].op = o
                                 /\ Has(c, o, c[k].text)
                                 /\ c[k].state = "completed" => c[k].text \in sent[o]
  BY DEF RecordsIn, Sound, SoundRecord, Journal
<1>4. RecordsIn(c, o) = {} <=> c[o] = NoRecord
  BY <1>1, <1>2, <1>3 DEF RecordsIn, Has
<1>5. RecordsIn(c, o) # {} => First(RecordsIn(c, o)) \in RecordsIn(c, o)
  <2>1. RecordsIn(c, o) \subseteq Keys
    BY DEF RecordsIn
  <2>2. QED BY <2>1, FirstIsThere
<1>6. QED BY <1>2, <1>3, <1>4, <1>5 DEF Has

\* A record that waits or is claimed is put in the journal, under the operation or
\* under a new ask.
Fits(c, n, m, rec, key) ==
  /\ n \in Nat /\ m \in Nat /\ n <= m
  /\ rec \in Record /\ key \in Keys
  /\ key = rec.op \/ (key \in Asks /\ key <= m /\ c[rec.op] # NoRecord)
  /\ c[rec.op] # NoRecord => c[rec.op].text = rec.text
  /\ rec.ask = 0 \/ (rec.ask = m /\ n < m)
  /\ rec.state \in {"waiting_user", "outcome_unknown"}
  /\ rec.outcome = "retry_required" => rec.state \in InFlight

Put(c, key, rec) == [c EXCEPT ![key] = rec]

LEMMA PutRecord ==
  ASSUME NEW c \in Journal, NEW n, NEW m, NEW sent, NEW under, under \subseteq Binding,
         Good(c, n, sent, under), NEW rec, NEW key, Fits(c, n, m, rec, key),
         NEW d, d = Put(c, key, rec)
  PROVE  d \in Journal /\ d[key] = rec /\ Good(d, m, sent, under) /\ Has(d, rec.op, rec.text)
<1>1. PICK o : o = rec.op
  OBVIOUS
<1>0. /\ n \in Nat /\ m \in Nat /\ n <= m
      /\ rec \in Record /\ key \in Keys
      /\ key = rec.op \/ (key \in Asks /\ key <= m /\ c[rec.op] # NoRecord)
      /\ c[rec.op] # NoRecord => c[rec.op].text = rec.text
      /\ rec.ask = 0 \/ (rec.ask = m /\ n < m)
      /\ rec.state \in {"waiting_user", "outcome_unknown"}
      /\ rec.outcome = "retry_required" => rec.state \in InFlight
  BY DEF Fits
<1>2. o \in Ops /\ o \in Keys /\ rec # NoRecord /\ rec.ask \in Nat
  BY <1>0, <1>1, RecordIs, OpsAreKeys
<1>3. d \in Journal /\ d[key] = rec /\ \A k \in Keys \ {key} : d[k] = c[k]
  BY <1>0 DEF Journal, Put
<1>4. Has(d, o, rec.text)
  BY <1>0, <1>1, <1>2, <1>3, OpsAreKeys DEF Has
<1>5. \A p \in Ops : \A t : Has(c, p, t) => Has(d, p, t)
  <2>2. SUFFICES ASSUME NEW p \in Ops, NEW t, Has(c, p, t)
                 PROVE  Has(d, p, t)
    OBVIOUS
  <2>3. CASE p = o
    BY <1>0, <1>1, <1>4, <2>2, <2>3 DEF Has
  <2>4. CASE p # o
    BY <1>0, <1>1, <1>3, <2>2, <2>4, OpsAreKeys DEF Has
  <2>5. QED BY <2>3, <2>4
<1>6. SoundRecord(d, key, m, sent)
  BY <1>0, <1>1, <1>2, <1>3, <1>4, OpsAreKeys DEF SoundRecord, Keys
<1>7. \A k \in Keys : d[k] # NoRecord => SoundRecord(d, k, m, sent)
  <2>1. TAKE k \in Keys
  <2>2. HAVE d[k] # NoRecord
  <2>3. CASE k = key
    BY <1>6, <2>3
  <2>4. CASE k # key
    <3>1. d[k] = c[k] /\ SoundRecord(c, k, n, sent) /\ c[k] \in Record
      BY <1>3, <2>2, <2>4 DEF Good, Sound, Journal
    <3>2. c[k].op \in Ops /\ c[k].ask \in Nat /\ (k \in Asks => k \in Nat)
      BY <3>1, RecordIs, SendAssumption DEF Asks
    <3>3. Has(d, d[k].op, d[k].text)
      BY <1>5, <3>1, <3>2 DEF SoundRecord
    <3>4. QED BY <1>0, <3>1, <3>2, <3>3 DEF SoundRecord
  <2>5. QED BY <2>3, <2>4
<1>8. ASSUME NEW j \in Keys, NEW k \in Keys, d[j] # NoRecord, d[k] # NoRecord,
             d[j].ask = d[k].ask, d[k].ask # 0
      PROVE  j = k
  <2>1. \A i \in Keys : c[i] # NoRecord => c[i].ask \in Nat /\ c[i].ask <= n
    BY <1>0, RecordIs DEF Good, Sound, SoundRecord, Journal
  <2>2. CASE j # key /\ k # key
    BY <1>3, <1>8, <2>2 DEF Good, Sound
  <2>3. CASE j = key /\ k # key
    BY <1>0, <1>2, <1>3, <1>8, <2>1, <2>3
  <2>4. CASE j # key /\ k = key
    BY <1>0, <1>2, <1>3, <1>8, <2>1, <2>4
  <2>5. QED BY <2>2, <2>3, <2>4
<1>9. Sound(d, m, sent)
  BY <1>7, <1>8 DEF Sound
<1>10. \A p \in Ops : \A t \in sent[p] : Has(d, p, t)
  BY <1>0, <1>5 DEF Good
<1>11. \A b \in under : Has(d, b.op, b.text)
  BY <1>0, <1>5 DEF Good, Binding
<1>12. QED BY <1>0, <1>1, <1>3, <1>4, <1>9, <1>10, <1>11 DEF Good

LEMMA Bindings ==
  ASSUME NEW r \in Requests
  PROVE  /\ BindingOf(r) \in Binding /\ BindingOf(r).op = OpOf[r] /\ BindingOf(r).text = TextOf[r]
         /\ OpOf[r] \in Ops /\ TextOf[r] \in Texts
BY SendAssumption DEF BindingOf, Binding

\* upsert_continuation of the waiting record of a new ask, after the check of identity.
LEMMA UpsertedIsGood ==
  ASSUME conts \in Journal, NEW n \in Nat, NEW sent, NEW under, under \subseteq Binding,
         Good(conts, n, sent, under), NEW r \in Requests, PreCheck(r) = "go",
         NEW a \in Asks, a = n + 1
  PROVE  /\ Upserted(BindingOf(r), a) \in Journal
         /\ Good(Upserted(BindingOf(r), a), a, sent, under)
<1>1. PICK b, o, d : b = BindingOf(r) /\ o = OpOf[r] /\ d = Upserted(b, a)
  OBVIOUS
<1>2. b \in Binding /\ b.op = o /\ b.text = TextOf[r] /\ o \in Ops /\ o \in Keys /\ a \in Keys
      /\ a \in Nat /\ b.text \in Texts
  BY <1>1, Bindings, OpsAreKeys, SendAssumption DEF Asks
<1>3. conts[o] = NoRecord \/ (conts[o].text = TextOf[r] /\ conts[o].state \in InFlight
                              /\ conts[o] \in Record /\ conts[o].op = o)
  <2>1. CASE conts[o] # NoRecord
    <3>1. RecordsOf(o) # {} /\ KeyOf(o) = o /\ conts[o] \in Record /\ conts[o].op = o
      BY <1>2, <2>1, OwnRecord DEF Good, RecordsOf, KeyOf, Present, Journal
    <3>2. Verdict(conts[o], r) = "go" /\ conts[o].state \in States
      BY <1>1, <3>1, RecordIs DEF PreCheck
    <3>3. QED BY <3>1, <3>2 DEF Verdict, States, InFlight
  <2>2. QED BY <2>1
<1>4. PICK new : new = [op |-> b.op, text |-> b.text, ask |-> a, state |-> "waiting_user",
                        resolution |-> "none", outcome |-> "none", receipt |-> FALSE]
  OBVIOUS
<1>5. new \in Record /\ new.op = o /\ new.text = TextOf[r] /\ new.ask = a
      /\ new.state = "waiting_user" /\ new.outcome = "none"
  BY <1>2, <1>4 DEF Record, States, Outcomes
<1>6. conts[a] = NoRecord
  BY <1>2 DEF Good, Sound, SoundRecord
<1>7. PICK key \in Keys, rec \in Record :
        /\ d = [conts EXCEPT ![key] = rec] /\ rec.op = o /\ rec.text = TextOf[r] /\ rec.ask = a
        /\ rec.state = "waiting_user" /\ (key = o \/ (key = a /\ conts[o] # NoRecord))
  <2>1. CASE RunId(b, a) = o /\ conts[o] = NoRecord
    <3>1. d = [conts EXCEPT ![o] = new]
      BY <1>1, <1>4, <2>1 DEF Upserted
    <3>2. QED BY <1>2, <1>5, <3>1
  <2>2. CASE RunId(b, a) = a /\ conts[o] # NoRecord
    <3>1. d = [conts EXCEPT ![a] = new]
      BY <1>1, <1>4, <1>6, <2>2 DEF Upserted
    <3>2. QED BY <1>2, <1>5, <2>2, <3>1
  <2>3. CASE RunId(b, a) = o /\ conts[o] # NoRecord
    <3>1. PICK kept : kept = IF Renewed(b)
                             THEN [conts[o] EXCEPT !.resolution = "none", !.outcome = "none",
                                                   !.receipt = FALSE]
                             ELSE conts[o]
      OBVIOUS
    <3>2. PICK rec : rec = [kept EXCEPT !.ask = a, !.state = "waiting_user"]
      OBVIOUS
    <3>3. d = [conts EXCEPT ![o] = rec]
      BY <1>1, <1>3, <2>3, <3>1, <3>2 DEF Upserted, InFlight
    <3>4. kept \in Record /\ kept.op = o /\ kept.text = TextOf[r]
      BY <1>3, <2>3, <3>1 DEF Record, Outcomes
    <3>5. rec \in Record /\ rec.op = o /\ rec.text = TextOf[r] /\ rec.ask = a
          /\ rec.state = "waiting_user"
      BY <1>2, <3>2, <3>4 DEF Record, States
    <3>6. QED BY <1>2, <3>3, <3>5
  <2>4. RunId(b, a) = o \/ (RunId(b, a) = a /\ conts[o] # NoRecord)
    BY <1>2 DEF RunId, Present
  <2>5. QED BY <2>1, <2>2, <2>3, <2>4
<1>8. d \in Journal /\ Good(d, a, sent, under)
  <2>1. /\ key = rec.op \/ (key \in Asks /\ key <= a /\ conts[rec.op] # NoRecord)
        /\ conts[rec.op] # NoRecord => conts[rec.op].text = rec.text
        /\ rec.ask = 0 \/ (rec.ask = a /\ n < a)
    BY <1>2, <1>3, <1>7
  <2>2. Fits(conts, n, a, rec, key)
    BY <1>2, <1>7, <2>1 DEF Fits, InFlight
  <2>3. d = Put(conts, key, rec)
    BY <1>7 DEF Put
  <2>4. QED BY <2>2, <2>3, PutRecord
<1>9. QED BY <1>1, <1>8

\* claim_pane_send, when it does not refuse.
LEMMA ClaimedIsGood ==
  ASSUME conts \in Journal, NEW n \in Nat, NEW sent, NEW under, under \subseteq Binding,
         Good(conts, n, sent, under), NEW r \in Requests, ClaimVerdict(r) = "go"
  PROVE  /\ Claimed(r) \in Journal /\ Good(Claimed(r), n, sent, under)
         /\ Has(Claimed(r), OpOf[r], TextOf[r]) /\ Spent(Claimed(r), OpOf[r])
         /\ \A o \in Ops : Spent(conts, o) => Spent(Claimed(r), o)
<1>1. PICK o, d : o = OpOf[r] /\ d = Claimed(r)
  OBVIOUS
<1>2. o \in Ops /\ o \in Keys /\ TextOf[r] \in Texts /\ Sound(conts, n, sent)
  BY <1>1, Bindings, OpsAreKeys DEF Good
<1>3. CASE RecordsOf(o) = {}
  <2>1. PICK rec : rec = [op |-> o, text |-> TextOf[r], ask |-> 0, state |-> "outcome_unknown",
                          resolution |-> "none", outcome |-> "outcome_unknown", receipt |-> FALSE]
    OBVIOUS
  <2>2. rec \in Record /\ rec.op = o /\ rec.text = TextOf[r] /\ rec.ask = 0
        /\ rec.state = "outcome_unknown" /\ rec.outcome = "outcome_unknown"
    BY <1>2, <2>1 DEF Record, States, Outcomes
  <2>3. conts[o] = NoRecord
    BY <1>2, <1>3, OwnRecord DEF RecordsOf
  <2>4. d = [conts EXCEPT ![o] = rec]
    BY <1>1, <1>2, <1>3, <2>1, <2>3 DEF Claimed, ClaimKey, Journal
  <2>5. d \in Journal /\ d[o] = rec /\ Good(d, n, sent, under) /\ Has(d, o, TextOf[r])
    <3>1. Fits(conts, n, n, rec, o)
      BY <1>2, <2>2, <2>3 DEF Fits, InFlight
    <3>2. d = Put(conts, o, rec)
      BY <2>4 DEF Put
    <3>3. d \in Journal /\ d[o] = rec /\ Good(d, n, sent, under) /\ Has(d, rec.op, rec.text)
      BY <3>1, <3>2, PutRecord
    <3>4. QED BY <2>2, <3>3
  <2>6. RecordsIn(d, o) = {o} /\ \A p \in Ops \ {o} : RecordsIn(d, p) = RecordsIn(conts, p)
    <3>1. \A k \in Keys \ {o} : d[k] = conts[k]
      BY <2>4 DEF Journal
    <3>2. d[o].op = o /\ d[o] # NoRecord
      BY <2>2, <2>5, RecordIs
    <3>3. QED BY <1>2, <1>3, <2>3, <3>1, <3>2 DEF RecordsIn, RecordsOf
  <2>7. Spent(d, o)
    <3>1. First({o}) \in {o}
      BY <1>2, FirstIsThere
    <3>2. QED BY <2>2, <2>5, <2>6, <3>1 DEF Spent, InFlight
  <2>8. \A p \in Ops : Spent(conts, p) => Spent(d, p)
    <3>1. TAKE p \in Ops
    <3>2. HAVE Spent(conts, p)
    <3>3. p # o
      BY <1>3, <3>2 DEF Spent, RecordsOf
    <3>4. \A k \in Keys : d[k] = conts[k] \/ Stays(conts[k], d[k])
      BY <2>2, <2>4, <2>5 DEF Journal, Stays, InFlight
    <3>5. QED BY <2>6, <3>2, <3>3, <3>4, SpentStays
  <2>9. QED BY <1>1, <2>5, <2>7, <2>8
<1>4. CASE RecordsOf(o) # {}
  <2>1. PICK k : k = First(RecordsOf(o))
    OBVIOUS
  <2>2. k \in RecordsIn(conts, o) /\ k \in Keys /\ conts[k] \in Record /\ conts[k].op = o
        /\ conts[o].text = conts[k].text /\ conts[o] # NoRecord /\ conts[k] # NoRecord
    BY <1>2, <1>4, <2>1, OwnRecord, RecordIs DEF RecordsOf
  <2>3. conts[k].text = TextOf[r]
    <3>1. ClaimKey(OpOf[r]) = k
      BY <1>1, <1>4, <2>1 DEF ClaimKey
    <3>2. QED BY <1>1, <1>4, <3>1 DEF ClaimVerdict, Verdict
  <2>4. PICK new : new = [conts[k] EXCEPT !.state = "outcome_unknown", !.outcome = "outcome_unknown"]
    OBVIOUS
  <2>5. new \in Record /\ new.op = o /\ new.text = TextOf[r] /\ new.ask = conts[k].ask
        /\ new.state = "outcome_unknown" /\ new.outcome = "outcome_unknown"
    BY <2>2, <2>3, <2>4 DEF Record, States, Outcomes
  <2>6. d = [conts EXCEPT ![k] = new]
    BY <1>1, <1>4, <2>1, <2>2, <2>4 DEF Claimed, ClaimKey, Journal
  <2>7. Moved(conts[k], new, sent) /\ Stays(conts[k], new)
    BY <2>2, <2>3, <2>5 DEF Moved, Stays, InFlight
  <2>8. Steps(conts, d, sent) /\ Keeps(conts, d) /\ d[k] = new
    BY <2>2, <2>6, <2>7, OneMoves
  <2>9. Good(d, n, sent, under) /\ \A p \in Ops : RecordsIn(d, p) = RecordsIn(conts, p)
    BY <2>8, JournalMoves DEF Steps
  <2>10. \A p \in Ops : Spent(conts, p) => Spent(d, p)
    BY <2>8, <2>9, SpentStays DEF Keeps
  <2>11. Spent(d, o)
    BY <1>2, <1>4, <2>1, <2>5, <2>8, <2>9 DEF Spent, RecordsOf, InFlight
  <2>12. Has(d, o, TextOf[r])
    BY <1>2, <2>2, <2>3, <2>8, RecordIs DEF Steps, Moved, Has
  <2>13. QED BY <1>1, <2>8, <2>9, <2>10, <2>11, <2>12 DEF Steps
<1>5. QED BY <1>3, <1>4


-------------------------------------------------------------------------------
(* Shapes.                                                                    *)

LEMMA AtMostOneMember ==
  ASSUME NEW S, \A q, r \in S : q = r
  PROVE  Cardinality(S) <= 1
<1>1. CASE S = {}
  BY <1>1, FS_EmptySet
<1>2. CASE S # {}
  <2>1. PICK r : S = {r}
    BY <1>2
  <2>2. QED BY <2>1, FS_Singleton
<1>3. QED BY <1>1, <1>2

LEMMA TypesAreOK == TypeInv => TypeOK
<1>1. SUFFICES ASSUME TypeInv PROVE TypeOK
  OBVIOUS
<1>2. Cardinality(submitting) <= 1
  BY <1>1, AtMostOneMember DEF TypeInv, SendTypes
<1>3. disk.conts \in Journal /\ disk.rows \subseteq Row
  BY <1>1 DEF TypeInv, StoreTypes, Disk
<1>4. QED BY <1>1, <1>2, <1>3 DEF TypeInv, SendTypes, AskTypes, StoreTypes, TypeOK, Journal

LEMMA InitTypes == Init => TypeInv
<1>1. SUFFICES ASSUME Init PROVE TypeInv
  OBVIOUS
<1>2. SendTypes
  BY <1>1 DEF Init, SendTypes
<1>3. AskTypes
  BY <1>1, SendAssumption DEF Init, AskTypes
<1>4. StoreTypes
  BY <1>1 DEF Init, StoreTypes, Journal, Disk
<1>5. QED BY <1>2, <1>3, <1>4 DEF TypeInv

LEMMA AskIsAsk ==
  ASSUME AskTypes
  PROVE  /\ Len(filed) \in Nat /\ DOMAIN filed = 1 .. Len(filed) /\ DOMAIN filed \subseteq Asks
         /\ \A a \in DOMAIN filed : filed[a] \in Binding
BY SendAssumption DEF AskTypes, Asks

LEMMA DiskIs ==
  ASSUME StoreTypes
  PROVE  /\ disk.conts \in Journal /\ disk.queue \subseteq Asks /\ disk.rows \subseteq Row
         /\ disk = [conts |-> disk.conts, queue |-> disk.queue, rows |-> disk.rows]
BY DEF StoreTypes, Disk

LEMMA SaveIs ==
  ASSUME StoreTypes, NEW c \in Journal, Save(c)
  PROVE  disk' \in Disk /\ disk'.conts = c /\ disk'.queue = disk.queue
BY DiskIs DEF Save, Disk, StoreTypes

LEMMA PersistIs ==
  ASSUME StoreTypes, NEW c \in Journal, NEW op, NEW pe, op \cap pe \subseteq Asks, Persist(c, op, pe)
  PROVE  /\ disk' \in Disk /\ disk'.conts \in {disk.conts, c}
         /\ disk'.queue \in {disk.queue, op \cap pe}
<1>1. PICK saveConts, saveQueue \in BOOLEAN :
        disk' = [disk EXCEPT !.conts = IF saveConts THEN c ELSE @,
                             !.queue = IF saveQueue THEN op \cap pe ELSE @]
  BY DEF Persist
<1>2. disk' = [conts |-> IF saveConts THEN c ELSE disk.conts,
               queue |-> IF saveQueue THEN op \cap pe ELSE disk.queue, rows |-> disk.rows]
  BY <1>1, DiskIs
<1>3. QED BY <1>2, DiskIs DEF Disk

LEMMA VerdictIs ==
  ASSUME NEW r \in Requests
  PROVE  /\ PreCheck(r) \in Refusals \cup {"go"} /\ ClaimVerdict(r) \in Refusals \cup {"go"}
         /\ PreCheck(r) # "ok" /\ ClaimVerdict(r) # "ok"
<1>1. \A rec : Verdict(rec, r) \in {"conflict", "duplicate", "unknown", "terminal", "go"}
  BY DEF Verdict
<1>2. QED BY <1>1 DEF PreCheck, ClaimVerdict, Refusals

LEMMA RowsAre ==
  ASSUME AskTypes, NEW a \in pending, NEW choice \in {"once", "always", "never"}, rows \subseteq Row
  PROVE  Chosen(a, choice) \in Row /\ Recorded(Chosen(a, choice)) \subseteq Row
<1>1. filed[a] \in Binding
  BY AskIsAsk DEF AskTypes
<1>2. Chosen(a, choice) \in Row
  BY <1>1 DEF Chosen, Row
<1>3. QED BY <1>2 DEF Recorded

\* Admission and the send up to its claim leave the asks and the stores alone.
LEMMA SendTypesKept ==
  ASSUME TypeInv, NEW r \in Requests,
         Arrive(r) \/ Refuse(r) \/ Admitted(r) \/ WakeApproved(r) \/ WakeDenied(r)
  PROVE  TypeInv'
<1>1. AskTypes' /\ StoreTypes'
  BY DEF TypeInv, AskTypes, StoreTypes, Arrive, Refuse, Admitted, WakeApproved, WakeDenied,
         askVars, Finish, Reply
<1>2. answer' \in [Requests -> Replies \cup {"none", "open"}]
  BY VerdictIs DEF TypeInv, SendTypes, Arrive, Refuse, Admitted, WakeApproved, WakeDenied,
         Finish, Reply, Replies, Refusals
<1>3. parked' \in [Requests -> 0 .. Len(filed')]
  <2>1. filed' = filed /\ (parked' = parked \/ parked' = [parked EXCEPT ![r] = 0])
    BY DEF Arrive, Refuse, Admitted, WakeApproved, WakeDenied, askVars
  <2>2. QED BY <2>1, AskIsAsk DEF TypeInv, SendTypes
<1>4. ui' \in {Idle} \cup [step : {"send", "claim", "deliver"}, req : Requests]
              \cup [step : {"settle"}, req : Requests, sent : BOOLEAN]
  BY DEF TypeInv, SendTypes, Arrive, Refuse, Admitted, WakeApproved, WakeDenied, Finish
<1>5. submitting' = submitting
  BY DEF Arrive, Refuse, Admitted, WakeApproved, WakeDenied
<1>6. QED BY <1>1, <1>2, <1>3, <1>4, <1>5 DEF TypeInv, SendTypes

LEMMA ParkIs ==
  ASSUME SendTypes, NEW r \in Requests, NEW a, NEW m \in Nat, Len(filed) \in Nat, Len(filed) <= m,
         a \in 1 .. m, Park(r, a)
  PROVE  /\ answer' \in [Requests -> Replies \cup {"none", "open"}]
         /\ parked' \in [Requests -> 0 .. m]
<1>1. answer' \in [Requests -> Replies \cup {"none", "open"}]
  BY DEF Park, SendTypes, Replies, Refusals
<1>2. \A q \in Requests : parked[q] \in 0 .. m
  BY DEF SendTypes
<1>3. parked' \in [Requests -> 0 .. m]
  BY <1>2 DEF Park
<1>4. QED BY <1>1, <1>3

LEMMA AskPersonTypes ==
  ASSUME TypeInv, JournalInv, NEW r \in Requests, AskPerson(r)
  PROVE  TypeInv'
<1>1. SendTypes /\ AskTypes /\ StoreTypes
  BY DEF TypeInv
<1>2. CASE SamePending(BindingOf(r)) # {}
  <2>1. PICK a \in SamePending(BindingOf(r)) : Park(r, a)
    BY <1>2 DEF AskPerson
  <2>2. a \in 1 .. Len(filed) /\ Len(filed) \in Nat
    BY <1>1, <2>1, AskIsAsk DEF SamePending, AskTypes
  <2>3. /\ UNCHANGED <<conts, filed, pending, open, fresh, rewound, submitting, resolutions,
                       denying, rows, delivered>>
        /\ ui' = Idle
    BY <1>2 DEF AskPerson
  <2>4. SendTypes'
    BY <1>1, <2>1, <2>2, <2>3, ParkIs DEF SendTypes
  <2>5. disk' \in Disk /\ disk'.queue \in {disk.queue, open \cap pending}
    <3>1. PICK saved \in BOOLEAN : disk' = [disk EXCEPT !.queue = IF saved THEN open \cap pending ELSE @]
      BY <1>2 DEF AskPerson
    <3>2. disk' = [conts |-> disk.conts, rows |-> disk.rows,
                   queue |-> IF saved THEN open \cap pending ELSE disk.queue]
      BY <1>1, <3>1, DiskIs
    <3>3. open \cap pending \subseteq Asks
      BY <1>1, AskIsAsk DEF AskTypes
    <3>4. QED BY <1>1, <3>2, <3>3, DiskIs DEF Disk
  <2>6. AskTypes'
    BY <1>1, <2>3, <2>5 DEF AskTypes
  <2>7. StoreTypes'
    BY <1>1, <2>3, <2>5 DEF StoreTypes
  <2>8. QED BY <2>4, <2>6, <2>7 DEF TypeInv
<1>3. CASE SamePending(BindingOf(r)) = {}
  <2>1. PICK a : a = Len(filed) + 1
    OBVIOUS
  <2>2. /\ a \in Asks /\ filed' = Append(filed, BindingOf(r)) /\ pending' = pending \cup {a}
        /\ open' = open \cup {a} /\ fresh' = fresh \cup {a} /\ conts' = Upserted(BindingOf(r), a)
        /\ Park(r, a) /\ Persist(conts', open', pending') /\ ui' = Idle
        /\ UNCHANGED <<submitting, resolutions, denying, rows, delivered>>
    BY <1>3, <2>1 DEF AskPerson
  <2>3. Len(filed') = a /\ DOMAIN filed' = DOMAIN filed \cup {a} /\ filed' \in Seq(Binding)
        /\ a \in Nat /\ Len(filed) \in Nat /\ a <= MaxAsks
    BY <1>1, <2>1, <2>2, Bindings, SendAssumption DEF AskTypes, Asks
  <2>4. SendTypes'
    <3>1. answer' \in [Requests -> Replies \cup {"none", "open"}] /\ parked' \in [Requests -> 0 .. a]
      BY <1>1, <2>1, <2>2, <2>3, ParkIs
    <3>2. QED BY <1>1, <2>2, <2>3, <3>1 DEF SendTypes
  <2>5. conts' \in Journal
    <3>1. Good(conts, Len(filed), SentTo, Underway) /\ conts \in Journal /\ PreCheck(r) = "go"
      BY <1>1 DEF JournalInv, StoreTypes, AskPerson
    <3>2. Underway \subseteq Binding
      BY Bindings DEF Underway
    <3>3. QED BY <2>1, <2>2, <2>3, <3>1, <3>2, UpsertedIsGood
  <2>6. open' \cap pending' \subseteq DOMAIN filed' /\ DOMAIN filed' \subseteq Asks
    BY <1>1, <2>2, <2>3, AskIsAsk DEF AskTypes
  <2>7. disk' \in Disk /\ disk'.queue \in {disk.queue, open' \cap pending'}
    BY <1>1, <2>2, <2>5, <2>6, PersistIs
  <2>8. AskTypes'
    <3>1. denying' \in 0 .. a /\ denying' \notin pending'
      BY <1>1, <2>1, <2>2, <2>3 DEF AskTypes
    <3>2. QED BY <1>1, <2>2, <2>3, <2>6, <2>7, <3>1 DEF AskTypes
  <2>9. StoreTypes'
    BY <1>1, <2>2, <2>5, <2>7 DEF StoreTypes
  <2>10. QED BY <2>4, <2>8, <2>9 DEF TypeInv
<1>4. QED BY <1>2, <1>3

\* What IInv gives to every action.
LEMMA Given ==
  ASSUME IInv
  PROVE  /\ SendTypes /\ AskTypes /\ StoreTypes
         /\ conts \in Journal /\ disk.conts \in Journal /\ disk.queue \subseteq Asks
         /\ Good(conts, Len(filed), SentTo, Underway)
         /\ Good(disk.conts, Len(filed), SentTo, Underway)
         /\ Sound(conts, Len(filed), SentTo) /\ Sound(disk.conts, Len(filed), SentTo)
         /\ Underway \subseteq Binding /\ Len(filed) \in Nat
         /\ \A o \in Ops : SentTo[o] = Sent(o)
<1>1. TypeInv /\ JournalInv
  BY DEF IInv
<1>2. SendTypes /\ AskTypes /\ StoreTypes
  BY <1>1 DEF TypeInv
<1>3. conts \in Journal /\ disk.conts \in Journal /\ disk.queue \subseteq Asks
  BY <1>2, DiskIs DEF StoreTypes
<1>4. Good(conts, Len(filed), SentTo, Underway) /\ Good(disk.conts, Len(filed), SentTo, Underway)
  BY <1>1 DEF JournalInv
<1>5. Underway \subseteq Binding
  BY Bindings DEF Underway
<1>6. QED BY <1>2, <1>3, <1>4, <1>5, AskIsAsk DEF Good, SentTo

\* complete_continuation finds the operation's own record.
LEMMA Completes ==
  ASSUME IInv, NEW r \in Requests, Has(conts, OpOf[r], TextOf[r]),
         NEW st \in {"completed", "failed", "outcome_unknown"}, NEW receipt \in BOOLEAN,
         st = "completed" => TextOf[r] \in Sent(OpOf[r])
  PROVE  /\ Steps(conts, Completed(OpOf[r], st, receipt), SentTo)
         /\ Keeps(conts, Completed(OpOf[r], st, receipt))
<1>1. OpOf[r] \in Ops /\ conts[OpOf[r]] # NoRecord /\ conts[OpOf[r]].text = TextOf[r]
  BY Bindings DEF Has
<1>2. conts[OpOf[r]].op = OpOf[r] /\ conts \in Journal /\ SentTo[OpOf[r]] = Sent(OpOf[r])
  BY <1>1, Given, OwnRecord
<1>3. QED BY <1>1, <1>2, CompletedMoves

\* What is about to be delivered or settled, or was typed, is recorded.
LEMMA Claims ==
  ASSUME IInv, NEW r \in Requests,
         (ui.step \in {"deliver", "settle"} /\ ui.req = r) \/ r \in submitting
  PROVE  Has(conts, OpOf[r], TextOf[r]) /\ Has(disk.conts, OpOf[r], TextOf[r])
<1>1. CASE ui.step \in {"deliver", "settle"} /\ ui.req = r
  <2>1. BindingOf(r) \in Underway
    BY <1>1 DEF Underway
  <2>2. QED BY <2>1, Given, Bindings DEF Good
<1>2. CASE r \in submitting
  <2>1. TextOf[r] \in SentTo[OpOf[r]]
    BY <1>2, Given, Bindings DEF IInv, ReplyInv
  <2>2. QED BY <2>1, Given, Bindings DEF Good
<1>3. QED BY <1>1, <1>2

\* The actions that move records of the journal and reopen none.
LEMMA Bookkeeping ==
  ASSUME IInv,
         \/ \E r \in Requests : Settle(r) \/ SubmitDone(r)
         \/ \E a \in pending, choice \in {"once", "always"} : Approve(a, choice)
         \/ DenyClose
  PROVE  /\ Steps(conts, conts', SentTo) /\ Keeps(conts, conts')
         /\ disk' \in Disk /\ disk'.conts \in {disk.conts, conts'}
         /\ disk'.queue \in {disk.queue, open' \cap pending'}
         /\ delivered' = delivered /\ filed' = filed /\ rewound' = rewound
<1>1. Steps(conts, conts, SentTo) /\ Keeps(conts, conts) /\ disk \in Disk
  BY Given DEF Steps, Keeps, StoreTypes
<1>2. SUFFICES /\ UNCHANGED <<delivered, filed, rewound>>
               /\ \/ UNCHANGED <<conts, disk>>
                  \/ /\ Steps(conts, conts', SentTo) /\ Keeps(conts, conts')
                     /\ disk' \in Disk /\ disk'.conts \in {disk.conts, conts'}
                     /\ disk'.queue \in {disk.queue, open' \cap pending'}
                  \/ /\ UNCHANGED conts
                     /\ disk' \in Disk /\ disk'.conts = disk.conts /\ disk'.queue = disk.queue
  BY <1>1
<1>3. ASSUME NEW r \in Requests, Has(conts, OpOf[r], TextOf[r]),
             NEW st \in {"completed", "failed", "outcome_unknown"}, NEW receipt \in BOOLEAN,
             st = "completed" => TextOf[r] \in Sent(OpOf[r]),
             conts' = Completed(OpOf[r], st, receipt), Save(conts')
      PROVE  /\ Steps(conts, conts', SentTo) /\ Keeps(conts, conts')
             /\ disk' \in Disk /\ disk'.conts = conts' /\ disk'.queue = disk.queue
  <2>1. Steps(conts, conts', SentTo) /\ Keeps(conts, conts')
    BY <1>3, Completes
  <2>2. conts' \in Journal
    BY <2>1 DEF Steps
  <2>3. QED BY <1>3, <2>1, <2>2, Given, SaveIs
<1>4. ASSUME NEW r \in Requests, Settle(r)
      PROVE  /\ UNCHANGED <<delivered, filed, rewound>>
             /\ \/ UNCHANGED <<conts, disk>>
                \/ /\ Steps(conts, conts', SentTo) /\ Keeps(conts, conts')
                   /\ disk' \in Disk /\ disk'.conts = conts' /\ disk'.queue = disk.queue
  <2>1. ui.step = "settle" /\ ui.req = r
    BY <1>4 DEF Settle
  <2>2. Has(conts, OpOf[r], TextOf[r])
    BY <2>1, Claims
  <2>3. PICK st : st = IF ui.sent THEN "completed" ELSE "failed"
    OBVIOUS
  <2>4. st \in {"completed", "failed"} /\ (st = "completed" => TextOf[r] \in Sent(OpOf[r]))
    BY <2>1, <2>3 DEF IInv, ReplyInv
  <2>5. \/ UNCHANGED <<conts, disk>>
        \/ conts' = Completed(OpOf[r], st, TRUE) /\ Save(conts')
    BY <1>4, <2>3, Bindings DEF Settle
  <2>6. UNCHANGED <<delivered, filed, rewound>>
    BY <1>4 DEF Settle, askVars
  <2>7. QED BY <1>3, <2>2, <2>4, <2>5, <2>6
<1>5. ASSUME NEW r \in Requests, SubmitDone(r)
      PROVE  /\ UNCHANGED <<delivered, filed, rewound>>
             /\ \/ UNCHANGED <<conts, disk>>
                \/ /\ Steps(conts, conts', SentTo) /\ Keeps(conts, conts')
                   /\ disk' \in Disk /\ disk'.conts = conts' /\ disk'.queue = disk.queue
  <2>1. r \in submitting
    BY <1>5 DEF SubmitDone
  <2>2. Has(conts, OpOf[r], TextOf[r]) /\ TextOf[r] \in Sent(OpOf[r])
    BY <2>1, Claims DEF IInv, ReplyInv
  <2>3. PICK confirmed, saved \in BOOLEAN :
          IF saved
          THEN /\ conts' = Completed(OpOf[r],
                             IF confirmed THEN "completed" ELSE "outcome_unknown", FALSE)
               /\ Save(conts')
          ELSE UNCHANGED <<conts, disk>>
    BY <1>5 DEF SubmitDone
  <2>4. UNCHANGED <<delivered, filed, rewound>>
    BY <1>5 DEF SubmitDone, askVars
  <2>5. QED BY <1>3, <2>2, <2>3, <2>4
<1>6. ASSUME NEW a \in Asks, NEW resolution \in {"approved", "denied"},
             conts' = Decided(a, resolution)
      PROVE  Steps(conts, conts', SentTo) /\ Keeps(conts, conts') /\ conts' \in Journal
  BY <1>6, Given, DecidedMoves DEF Steps
<1>7. ASSUME NEW a \in pending, NEW choice \in {"once", "always"}, Approve(a, choice)
      PROVE  /\ UNCHANGED <<delivered, filed, rewound>>
             /\ \/ /\ Steps(conts, conts', SentTo) /\ Keeps(conts, conts')
                   /\ disk' \in Disk /\ disk'.conts \in {disk.conts, conts'}
                   /\ disk'.queue \in {disk.queue, open' \cap pending'}
                \/ /\ UNCHANGED conts
                   /\ disk' \in Disk /\ disk'.conts = disk.conts /\ disk'.queue = disk.queue
  <2>1. a \in Asks /\ SendTypes /\ AskTypes /\ StoreTypes
    BY Given, AskIsAsk DEF AskTypes
  <2>2. PICK saved : saved = IF choice = "always" THEN rows' ELSE disk.rows
    OBVIOUS
  <2>3. rows' \subseteq Row /\ saved \subseteq Row
    BY <1>7, <2>1, <2>2, RowsAre, DiskIs DEF Approve, StoreTypes
  <2>4. UNCHANGED <<delivered, filed, rewound>>
    BY <1>7 DEF Approve
  <2>5. CASE /\ open' = open \ {a} /\ conts' = Decided(a, "approved")
             /\ \E saveConts, saveQueue \in BOOLEAN :
                  disk' = [conts |-> IF saveConts THEN conts' ELSE disk.conts,
                           queue |-> IF saveQueue THEN open' \cap pending' ELSE disk.queue,
                           rows  |-> saved]
    <3>1. Steps(conts, conts', SentTo) /\ Keeps(conts, conts') /\ conts' \in Journal
      BY <1>6, <2>1, <2>5
    <3>2. open' \cap pending' \subseteq Asks
      BY <2>1, <2>5, AskIsAsk DEF AskTypes
    <3>3. PICK saveConts, saveQueue \in BOOLEAN :
            disk' = [conts |-> IF saveConts THEN conts' ELSE disk.conts,
                     queue |-> IF saveQueue THEN open' \cap pending' ELSE disk.queue,
                     rows  |-> saved]
      BY <2>5
    <3>4. /\ disk' \in Disk /\ disk'.conts \in {disk.conts, conts'}
          /\ disk'.queue \in {disk.queue, open' \cap pending'}
      BY <2>1, <2>3, <3>1, <3>2, <3>3, DiskIs DEF Disk
    <3>5. QED BY <2>4, <3>1, <3>4
  <2>6. CASE disk' = [disk EXCEPT !.rows = saved] /\ UNCHANGED <<open, conts>>
    <3>1. disk' = [conts |-> disk.conts, queue |-> disk.queue, rows |-> saved]
      BY <2>1, <2>6, DiskIs
    <3>2. QED BY <2>1, <2>3, <2>4, <2>6, <3>1, DiskIs DEF Disk
  <2>7. QED BY <1>7, <2>2, <2>5, <2>6 DEF Approve
<1>8. ASSUME DenyClose
      PROVE  /\ UNCHANGED <<delivered, filed, rewound>>
             /\ \/ UNCHANGED <<conts, disk>>
                \/ /\ Steps(conts, conts', SentTo) /\ Keeps(conts, conts')
                   /\ disk' \in Disk /\ disk'.conts \in {disk.conts, conts'}
                   /\ disk'.queue \in {disk.queue, open' \cap pending'}
  <2>1. UNCHANGED <<delivered, filed, rewound, pending>> /\ denying # 0
    BY <1>8 DEF DenyClose
  <2>2. denying \in Asks /\ open \subseteq Asks
    BY <2>1, Given, AskIsAsk DEF AskTypes
  <2>3. CASE /\ open' = open \ {denying} /\ conts' = Decided(denying, "denied")
             /\ Persist(conts', open', pending)
    <3>1. Steps(conts, conts', SentTo) /\ Keeps(conts, conts') /\ conts' \in Journal
      BY <1>6, <2>2, <2>3
    <3>2. open' \cap pending \subseteq Asks
      BY <2>2, <2>3
    <3>3. /\ disk' \in Disk /\ disk'.conts \in {disk.conts, conts'}
          /\ disk'.queue \in {disk.queue, open' \cap pending}
      BY <2>3, <3>1, <3>2, Given, PersistIs
    <3>4. QED BY <2>1, <3>1, <3>3
  <2>4. CASE UNCHANGED <<open, conts, disk>>
    BY <2>1, <2>4
  <2>5. QED BY <1>8, <2>3, <2>4 DEF DenyClose
<1>9. QED BY <1>4, <1>5, <1>7, <1>8

LEMMA BookkeepingTypes ==
  ASSUME IInv,
         \/ \E r \in Requests : Settle(r) \/ SubmitDone(r)
         \/ \E a \in pending, choice \in {"once", "always"} : Approve(a, choice)
         \/ DenyClose
  PROVE  TypeInv'
<1>1. /\ conts' \in Journal /\ disk' \in Disk /\ filed' = filed /\ delivered' = delivered
      /\ disk'.queue \in {disk.queue, open' \cap pending'}
  BY Bookkeeping DEF Steps
<1>2. SendTypes /\ AskTypes /\ StoreTypes
  BY Given
<1>3. SendTypes'
  <2>1. UNCHANGED parked /\ submitting' \subseteq submitting /\ (ui' = ui \/ ui' = Idle)
    BY DEF Settle, SubmitDone, Approve, DenyClose, sendVars
  <2>2. answer' \in [Requests -> Replies \cup {"none", "open"}]
    BY <1>2 DEF Settle, SubmitDone, Approve, DenyClose, sendVars, Reply, SendTypes, Replies, Refusals
  <2>3. QED BY <1>1, <1>2, <2>1, <2>2 DEF SendTypes
<1>4. AskTypes' /\ rows' \subseteq Row
  <2>1. ASSUME NEW r \in Requests, Settle(r) \/ SubmitDone(r) PROVE AskTypes' /\ rows' \subseteq Row
    BY <1>1, <1>2, <2>1 DEF Settle, SubmitDone, askVars, AskTypes, StoreTypes
  <2>2. ASSUME NEW a \in pending, NEW choice \in {"once", "always"}, Approve(a, choice)
        PROVE  AskTypes' /\ rows' \subseteq Row
    <3>1. rows' \subseteq Row
      BY <1>2, <2>2, RowsAre DEF Approve, StoreTypes
    <3>2. /\ open' \in {open, open \ {a}} /\ pending' = pending \ {a}
          /\ resolutions' = [resolutions EXCEPT ![a] = "approved"]
          /\ fresh' = fresh /\ denying' = denying
      BY <2>2 DEF Approve, Publish
    <3>3. QED BY <1>1, <1>2, <3>1, <3>2 DEF AskTypes
  <2>3. ASSUME DenyClose PROVE AskTypes' /\ rows' \subseteq Row
    <3>1. /\ open' \in {open, open \ {denying}} /\ pending' = pending /\ denying' = 0
          /\ resolutions' = resolutions /\ fresh' = fresh /\ rows' = rows
      BY <2>3 DEF DenyClose
    <3>2. 0 \notin pending /\ 0 \in 0 .. Len(filed)
      BY <1>2, AskIsAsk DEF AskTypes
    <3>3. QED BY <1>1, <1>2, <3>1, <3>2 DEF AskTypes, StoreTypes
  <2>4. QED BY <2>1, <2>2, <2>3
<1>5. StoreTypes'
  BY <1>1, <1>2, <1>4 DEF StoreTypes
<1>6. QED BY <1>3, <1>4, <1>5 DEF TypeInv

\* claim_pane_send refuses, could not record the claim, or recorded it.
LEMMA ClaimIs ==
  ASSUME IInv, NEW r \in Requests, Claim(r)
  PROVE  /\ ui = [step |-> "claim", req |-> r]
         /\ UNCHANGED <<parked, submitting, askVars, rows, delivered, rewound, bounds>>
         /\ \/ /\ UNCHANGED <<conts, disk>> /\ ui' = Idle
               /\ \/ ClaimVerdict(r) # "go" /\ Reply(r, ClaimVerdict(r))
                  \/ Reply(r, "unrecorded")
            \/ /\ ClaimVerdict(r) = "go" /\ conts' = Claimed(r) /\ conts' \in Journal
               /\ disk' \in Disk /\ disk'.conts = conts' /\ disk'.queue = disk.queue
               /\ ui' = [step |-> "deliver", req |-> r] /\ answer' = answer
<1>1. ASSUME ClaimVerdict(r) = "go", WriteClaim(r)
      PROVE  /\ conts' = Claimed(r) /\ conts' \in Journal
             /\ disk' \in Disk /\ disk'.conts = conts' /\ disk'.queue = disk.queue
  <2>1. Claimed(r) \in Journal
    BY <1>1, Given, ClaimedIsGood
  <2>2. QED BY <1>1, <2>1, Given, SaveIs DEF WriteClaim
<1>2. QED BY <1>1 DEF Claim, Finish

LEMMA ClaimTypes ==
  ASSUME IInv, NEW r \in Requests, Claim(r)
  PROVE  TypeInv'
<1>1. SendTypes /\ AskTypes /\ StoreTypes
  BY Given
<1>2. conts' \in Journal /\ disk' \in Disk /\ disk'.queue = disk.queue
  BY <1>1, ClaimIs DEF StoreTypes
<1>3. UNCHANGED <<filed, pending, open, fresh, resolutions, denying, rows, delivered>>
  BY ClaimIs DEF askVars
<1>4. SendTypes'
  <2>1. ui' \in {Idle, [step |-> "deliver", req |-> r]} /\ UNCHANGED <<parked, submitting>>
    BY ClaimIs
  <2>2. answer' = answer \/ Reply(r, ClaimVerdict(r)) \/ Reply(r, "unrecorded")
    BY ClaimIs
  <2>3. answer' \in [Requests -> Replies \cup {"none", "open"}]
    <3>1. CASE Reply(r, ClaimVerdict(r)) /\ ClaimVerdict(r) # "go"
      BY <1>1, <3>1, VerdictIs DEF Reply, SendTypes, Replies, Refusals
    <3>2. CASE answer' = answer \/ Reply(r, "unrecorded")
      BY <1>1, <3>2 DEF Reply, SendTypes, Replies, Refusals
    <3>3. QED BY <3>1, <3>2, ClaimIs
  <2>4. QED BY <1>1, <1>3, <2>1, <2>3 DEF SendTypes
<1>5. QED BY <1>1, <1>2, <1>3, <1>4 DEF TypeInv, AskTypes, StoreTypes

LEMMA DeliverIs ==
  ASSUME StoreTypes, NEW r \in Requests, Deliver(r)
  PROVE  /\ ui = [step |-> "deliver", req |-> r]
         /\ UNCHANGED <<answer, parked, filed, conts, rows, disk, rewound>>
         /\ delivered' \in [Ops -> Seq(Texts)]
         /\ \/ /\ ui' = [step |-> "settle", req |-> r, sent |-> TRUE]
               /\ delivered'[OpOf[r]] = Append(delivered[OpOf[r]], TextOf[r])
               /\ \A o \in Ops \ {OpOf[r]} : delivered'[o] = delivered[o]
               /\ submitting' = submitting \/ (submitting = {} /\ submitting' = {r})
            \/ /\ ui' = [step |-> "settle", req |-> r, sent |-> FALSE]
               /\ UNCHANGED <<delivered, submitting>>
<1>1. OpOf[r] \in Ops /\ TextOf[r] \in Texts /\ delivered \in [Ops -> Seq(Texts)]
  BY Bindings DEF StoreTypes
<1>2. UNCHANGED <<answer, parked, filed, conts, rows, disk, rewound>>
      /\ ui = [step |-> "deliver", req |-> r]
  BY DEF Deliver, askVars
<1>3. \/ /\ ui' = [step |-> "settle", req |-> r, sent |-> TRUE]
         /\ delivered' = [delivered EXCEPT ![OpOf[r]] = Append(@, TextOf[r])]
         /\ submitting' = submitting \/ (submitting = {} /\ submitting' = {r})
      \/ /\ ui' = [step |-> "settle", req |-> r, sent |-> FALSE]
         /\ UNCHANGED <<delivered, submitting>>
  BY DEF Deliver
<1>4. CASE /\ ui' = [step |-> "settle", req |-> r, sent |-> TRUE]
           /\ delivered' = [delivered EXCEPT ![OpOf[r]] = Append(@, TextOf[r])]
           /\ submitting' = submitting \/ (submitting = {} /\ submitting' = {r})
  <2>1. Append(delivered[OpOf[r]], TextOf[r]) \in Seq(Texts)
    BY <1>1
  <2>2. /\ delivered' \in [Ops -> Seq(Texts)]
        /\ delivered'[OpOf[r]] = Append(delivered[OpOf[r]], TextOf[r])
        /\ \A o \in Ops \ {OpOf[r]} : delivered'[o] = delivered[o]
    BY <1>1, <1>4, <2>1
  <2>3. QED BY <1>2, <1>4, <2>2
<1>5. CASE /\ ui' = [step |-> "settle", req |-> r, sent |-> FALSE]
           /\ UNCHANGED <<delivered, submitting>>
  BY <1>1, <1>2, <1>5
<1>6. QED BY <1>3, <1>4, <1>5

LEMMA DeliverTypes ==
  ASSUME TypeInv, NEW r \in Requests, Deliver(r)
  PROVE  TypeInv'
<1>1. SendTypes /\ AskTypes /\ StoreTypes
  BY DEF TypeInv
<1>2. AskTypes'
  BY <1>1 DEF Deliver, askVars, AskTypes
<1>3. StoreTypes'
  BY <1>1, DeliverIs DEF StoreTypes
<1>4. \E s \in BOOLEAN : ui' = [step |-> "settle", req |-> r, sent |-> s]
  BY <1>1, DeliverIs
<1>5. ui' \in [step : {"settle"}, req : Requests, sent : BOOLEAN]
  BY <1>4
<1>6. submitting' \subseteq Requests /\ \A p, q \in submitting' : p = q
  BY <1>1, DeliverIs DEF SendTypes
<1>7. SendTypes'
  BY <1>1, <1>5, <1>6, DeliverIs DEF SendTypes
<1>8. QED BY <1>2, <1>3, <1>7 DEF TypeInv

\* detach_pane_send_waiter changes the record of the ask it waited for, if there is one.
LEMMA DetachIs ==
  ASSUME IInv, NEW r \in Requests, Detach(r)
  PROVE  /\ Steps(conts, conts', SentTo)
         /\ disk' \in Disk /\ disk'.conts \in {disk.conts, conts'} /\ disk'.queue = disk.queue
         /\ \/ UNCHANGED <<conts, disk, rewound>>
            \/ Reopen
         /\ UNCHANGED <<delivered, filed, submitting, ui>>
         /\ parked' = [parked EXCEPT ![r] = 0] /\ Reply(r, "detached")
<1>1. StoreTypes /\ conts \in Journal
  BY Given
<1>2. CASE AskedBy(parked[r]) = {}
  <2>1. UNCHANGED <<conts, disk, rewound>>
    BY <1>2 DEF Detach
  <2>2. Steps(conts, conts', SentTo) /\ disk' \in Disk
    BY <1>1, <2>1 DEF Steps, StoreTypes
  <2>3. QED BY <2>1, <2>2 DEF Detach, askVars
<1>3. CASE AskedBy(parked[r]) # {}
  <2>1. PICK k : k = First(AskedBy(parked[r]))
    OBVIOUS
  <2>2. k \in Keys /\ conts[k] # NoRecord
    <3>1. AskedBy(parked[r]) \subseteq Keys
      BY DEF AskedBy, Present
    <3>2. k \in AskedBy(parked[r])
      BY <1>3, <2>1, <3>1, FirstIsThere
    <3>3. QED BY <3>2 DEF AskedBy, Present
  <2>3. /\ conts' = [conts EXCEPT ![k] = [@ EXCEPT !.state = "paused",
                                                  !.outcome = "retry_required"]]
        /\ Save(conts') \/ UNCHANGED disk
        /\ Reopen
    BY <1>3, <2>1 DEF Detach
  <2>4. Steps(conts, conts', SentTo)
    BY <1>1, <2>2, <2>3, DetachMoves
  <2>5. disk' \in Disk /\ disk'.conts \in {disk.conts, conts'} /\ disk'.queue = disk.queue
    <3>1. CASE Save(conts')
      <4>1. conts' \in Journal
        BY <2>4 DEF Steps
      <4>2. QED BY <1>1, <3>1, <4>1, SaveIs
    <3>2. CASE UNCHANGED disk
      BY <1>1, <3>2 DEF StoreTypes
    <3>3. QED BY <2>3, <3>1, <3>2
  <2>6. QED BY <2>3, <2>4, <2>5 DEF Detach, askVars
<1>4. QED BY <1>2, <1>3

LEMMA DetachTypes ==
  ASSUME IInv, NEW r \in Requests, Detach(r)
  PROVE  TypeInv'
<1>1. SendTypes /\ AskTypes /\ StoreTypes
  BY Given
<1>2. SendTypes'
  <2>1. answer' \in [Requests -> Replies \cup {"none", "open"}]
    BY <1>1, DetachIs DEF Reply, SendTypes, Replies, Refusals
  <2>2. parked' \in [Requests -> 0 .. Len(filed)]
    BY <1>1, DetachIs, AskIsAsk DEF SendTypes
  <2>3. QED BY <1>1, <2>1, <2>2, DetachIs DEF SendTypes
<1>3. AskTypes'
  BY <1>1, DetachIs DEF AskTypes, Detach, askVars
<1>4. StoreTypes'
  <2>1. conts' \in Journal /\ rows' = rows
    BY DetachIs DEF Steps, Detach
  <2>2. QED BY <1>1, <2>1, DetachIs DEF StoreTypes
<1>5. QED BY <1>2, <1>3, <1>4 DEF TypeInv

\* The other decisions and revocations change the grants, in memory and on disk.
LEMMA RowsSaved ==
  ASSUME StoreTypes, NEW rs, rs \subseteq Row, disk' = [disk EXCEPT !.rows = rs]
  PROVE  disk' \in Disk /\ disk'.conts = disk.conts /\ disk'.queue = disk.queue
<1>1. disk' = [conts |-> disk.conts, queue |-> disk.queue, rows |-> rs]
  BY DiskIs
<1>2. QED BY <1>1, DiskIs DEF Disk

RowStep ==
  \/ \E a \in pending : \E choice \in {"once", "always", "never"} : DecisionFails(a, choice)
  \/ \E a \in pending : \E choice \in {"deny", "never"} : Deny(a, choice)
  \/ \E g \in rows : Revoke(g)

LEMMA RowStepIs ==
  ASSUME TypeInv, RowStep
  PROVE  /\ UNCHANGED <<sendVars, filed, open, fresh, conts, delivered, rewound>>
         /\ rows' \subseteq Row
         /\ disk' \in Disk /\ disk'.conts = disk.conts /\ disk'.queue = disk.queue
         /\ \/ UNCHANGED <<pending, resolutions, denying>>
            \/ \E a \in pending : /\ pending' = pending \ {a} /\ denying' = a
                                  /\ resolutions' = [resolutions EXCEPT ![a] = "denied"]
<1>1. SendTypes /\ AskTypes /\ StoreTypes /\ rows \subseteq Row /\ disk \in Disk
  BY DEF TypeInv, StoreTypes
<1>2. UNCHANGED <<sendVars, filed, open, fresh, conts, delivered, rewound>>
  BY DEF RowStep, DecisionFails, Deny, Revoke, askVars
<1>3. /\ \/ UNCHANGED <<pending, resolutions, denying>>
         \/ \E a \in pending : /\ pending' = pending \ {a} /\ denying' = a
                               /\ resolutions' = [resolutions EXCEPT ![a] = "denied"]
  BY DEF RowStep, DecisionFails, Deny, Revoke, askVars, Publish
<1>4. rows' \subseteq Row /\ (disk' = disk \/ \E rs \in SUBSET Row : disk' = [disk EXCEPT !.rows = rs])
  <2>1. ASSUME NEW a \in pending, NEW choice \in {"once", "always", "never"}, DecisionFails(a, choice)
        PROVE  rows' \subseteq Row /\ (disk' = disk \/ \E rs \in SUBSET Row : disk' = [disk EXCEPT !.rows = rs])
    <3>1. PICK tried : tried = Recorded(Chosen(a, choice))
      OBVIOUS
    <3>2. tried \subseteq Row
      BY <1>1, <3>1, RowsAre
    <3>3. QED BY <2>1, <3>1, <3>2 DEF DecisionFails
  <2>2. ASSUME NEW a \in pending, NEW choice \in {"deny", "never"}, Deny(a, choice)
        PROVE  rows' \subseteq Row /\ (disk' = disk \/ \E rs \in SUBSET Row : disk' = [disk EXCEPT !.rows = rs])
    <3>1. CASE choice = "never"
      <4>1. rows' \subseteq Row
        BY <1>1, <2>2, <3>1, RowsAre DEF Deny
      <4>2. QED BY <2>2, <3>1, <4>1 DEF Deny, Durable
    <3>2. CASE choice # "never"
      BY <1>1, <2>2, <3>2 DEF Deny
    <3>3. QED BY <3>1, <3>2
  <2>3. ASSUME NEW g \in rows, Revoke(g)
        PROVE  rows' \subseteq Row /\ (disk' = disk \/ \E rs \in SUBSET Row : disk' = [disk EXCEPT !.rows = rs])
    BY <1>1, <2>3 DEF Revoke, Durable
  <2>4. QED BY <2>1, <2>2, <2>3 DEF RowStep
<1>5. disk' \in Disk /\ disk'.conts = disk.conts /\ disk'.queue = disk.queue
  BY <1>1, <1>4, RowsSaved
<1>6. QED BY <1>2, <1>3, <1>4, <1>5

LEMMA RowStepTypes ==
  ASSUME TypeInv, RowStep
  PROVE  TypeInv'
<1>1. SendTypes /\ AskTypes /\ StoreTypes
  BY DEF TypeInv
<1>2. SendTypes' /\ StoreTypes'
  BY <1>1, RowStepIs DEF sendVars, SendTypes, StoreTypes
<1>3. pending \subseteq Asks /\ pending \subseteq 1 .. Len(filed)
  BY <1>1, AskIsAsk DEF AskTypes
<1>4. AskTypes'
  <2>1. filed' = filed /\ open' = open /\ fresh' = fresh /\ disk'.queue = disk.queue
    BY RowStepIs
  <2>2. CASE UNCHANGED <<pending, resolutions, denying>>
    BY <1>1, <2>1, <2>2 DEF AskTypes
  <2>3. CASE \E a \in pending : /\ pending' = pending \ {a} /\ denying' = a
                                /\ resolutions' = [resolutions EXCEPT ![a] = "denied"]
    BY <1>1, <1>3, <2>1, <2>3 DEF AskTypes
  <2>4. QED BY <2>2, <2>3, RowStepIs
<1>5. QED BY <1>2, <1>4 DEF TypeInv

\* restore_continuations from what the disk holds.
LEMMA RestartIs ==
  ASSUME IInv, Restart
  PROVE  /\ Steps(disk.conts, conts', SentTo) /\ Keeps(disk.conts, conts')
         /\ disk' \in Disk /\ disk'.conts \in {disk.conts, conts'} /\ disk'.queue = disk.queue
         /\ UNCHANGED <<filed, delivered, rewound>> /\ ui' = Idle /\ submitting' = {}
         /\ answer' = [r \in Requests |-> IF answer[r] = "open" THEN "lost" ELSE answer[r]]
<1>1. Steps(disk.conts, conts', SentTo) /\ Keeps(disk.conts, conts')
  BY Given, RestoredMoves DEF Restart
<1>2. conts' \in Journal
  BY <1>1 DEF Steps
<1>3. disk' \in Disk /\ disk'.conts \in {disk.conts, conts'} /\ disk'.queue = disk.queue
  <2>1. CASE Save(conts')
    BY <1>2, <2>1, Given, SaveIs
  <2>2. CASE UNCHANGED disk
    BY <2>2, Given DEF StoreTypes
  <2>3. QED BY <2>1, <2>2 DEF Restart
<1>4. QED BY <1>1, <1>3 DEF Restart

LEMMA RestartTypes ==
  ASSUME IInv, Restart
  PROVE  TypeInv'
<1>1. SendTypes /\ AskTypes /\ StoreTypes
  BY Given
<1>2. SendTypes'
  BY <1>1, AskIsAsk DEF Restart, SendTypes, Replies
<1>3. AskTypes'
  <2>1. 0 \in 0 .. Len(filed) /\ 0 \notin disk.queue
    BY <1>1, AskIsAsk DEF AskTypes
  <2>2. QED BY <1>1, <2>1, RestartIs DEF Restart, AskTypes
<1>4. StoreTypes'
  <2>1. conts' \in Journal /\ rows' = disk.rows /\ disk.rows \subseteq Row
    BY <1>1, RestartIs, DiskIs DEF Steps, Restart
  <2>2. QED BY <1>1, <2>1, RestartIs DEF StoreTypes
<1>5. QED BY <1>2, <1>3, <1>4 DEF TypeInv

-------------------------------------------------------------------------------
(* What was delivered stays recorded, and is not claimed again.               *)

LEMMA SentIs ==
  /\ \A o \in Ops : Sent(o) = {delivered[o][i] : i \in DOMAIN delivered[o]}
  /\ SentTo = [o \in Ops |-> Sent(o)]
BY DEF Sent, SentTo

LEMMA UnderwayIs ==
  /\ ui.step \notin {"deliver", "settle"} => Underway = {}
  /\ \A r \in Requests : ui.step \in {"deliver", "settle"} /\ ui.req = r => Underway = {BindingOf(r)}
<1>1. ui.step \notin {"deliver", "settle"} => Underway = {}
  BY DEF Underway
<1>2. ASSUME NEW r \in Requests, ui.step \in {"deliver", "settle"}, ui.req = r
      PROVE  Underway = {BindingOf(r)}
  BY <1>2 DEF Underway
<1>3. QED BY <1>1, <1>2

\* A step that delivers nothing and claims nothing: what it must keep, so that the
\* invariant holds again.
QuietReplies ==
  /\ \A r \in Requests : answer'[r] \in {"ok", "duplicate"}
                         => answer'[r] = answer[r] \/ TextOf[r] \in Sent(OpOf[r])
  /\ submitting' \subseteq submitting
  /\ delivered' = delivered
  /\ ui' = ui \/ ui'.step \notin {"deliver", "settle"}

LEMMA QuietStep ==
  ASSUME IInv, TypeInv', QuietReplies, Len(filed) <= Len(filed'),
         Good(conts', Len(filed'), SentTo, Underway),
         Good(disk'.conts, Len(filed'), SentTo, Underway),
         rewound \subseteq rewound',
         \A o \in Effected : o \notin rewound' => Spent(conts', o) /\ Spent(disk'.conts, o)
  PROVE  IInv'
<1>1. SentTo' = SentTo /\ \A o \in Ops : Sent(o)' = Sent(o)
  BY DEF QuietReplies, SentTo, Sent
<1>2. Underway' \subseteq Underway
  BY DEF QuietReplies, Underway
<1>3. JournalInv'
  <2>1. Len(filed') \in Nat /\ conts' \in Journal /\ disk'.conts \in Journal
    BY DEF TypeInv, AskTypes, StoreTypes, Disk
  <2>2. Good(conts', Len(filed'), SentTo, Underway') /\ Good(disk'.conts, Len(filed'), SentTo, Underway')
    BY <1>2, <2>1, GoodGrows
  <2>3. QED BY <1>1, <2>2 DEF JournalInv
<1>4. rewound \subseteq rewound'
  OBVIOUS
<1>5. SpentInv'
  <2>1. ASSUME NEW o \in Effected' PROVE o \in Effected /\ o \notin rewound' /\ o \in Ops
    BY <1>2, <1>4, <2>1 DEF Effected, QuietReplies
  <2>2. \A o \in Effected' : Spent(conts', o) /\ Spent(disk'.conts, o)
    BY <2>1
  <2>3. QED BY <2>2 DEF SpentInv, Spent, RecordsIn
<1>6. OnceInv'
  <2>1. ASSUME NEW o \in Ops, o \notin rewound'
        PROVE  /\ Len(delivered'[o]) <= 1
               /\ ui'.step = "deliver" /\ OpOf[ui'.req] = o => delivered'[o] = << >>
    <3>1. o \notin rewound /\ delivered' = delivered
      BY <1>4, <2>1 DEF QuietReplies
    <3>2. ui'.step = "deliver" => ui' = ui
      BY DEF QuietReplies
    <3>3. QED BY <3>1, <3>2 DEF IInv, OnceInv
  <2>2. QED BY <2>1 DEF OnceInv
<1>7. ReplyInv'
  <2>1. ASSUME NEW r \in Requests, answer'[r] \in {"ok", "duplicate"}
        PROVE  TextOf[r] \in Sent(OpOf[r])'
    <3>1. OpOf[r] \in Ops
      BY Bindings
    <3>2. TextOf[r] \in Sent(OpOf[r])
      BY <2>1 DEF IInv, ReplyInv, SuccessIsDelivery, QuietReplies
    <3>3. QED BY <1>1, <3>1, <3>2
  <2>2. ASSUME ui'.step = "settle", ui'.sent PROVE (TextOf[ui.req] \in Sent(OpOf[ui.req]))'
    <3>1. ui' = ui
      BY <2>2 DEF QuietReplies
    <3>2. ui.req \in Requests
      BY <2>2, <3>1 DEF IInv, TypeInv, SendTypes, Idle
    <3>3. TextOf[ui.req] \in Sent(OpOf[ui.req]) /\ OpOf[ui.req] \in Ops
      BY <2>2, <3>1, <3>2, Bindings DEF IInv, ReplyInv
    <3>4. QED BY <3>1, <3>3 DEF Sent, QuietReplies
  <2>3. ASSUME NEW r \in submitting' PROVE TextOf[r] \in Sent(OpOf[r])'
    <3>1. r \in submitting /\ r \in Requests
      BY <2>3 DEF QuietReplies, IInv, TypeInv, SendTypes
    <3>2. TextOf[r] \in Sent(OpOf[r]) /\ OpOf[r] \in Ops
      BY <3>1, Bindings DEF IInv, ReplyInv
    <3>3. QED BY <1>1, <3>2
  <2>4. QED BY <2>1, <2>2, <2>3 DEF ReplyInv, SuccessIsDelivery
<1>8. QED BY <1>3, <1>5, <1>6, <1>7 DEF IInv

\* An action that moves no record.
LEMMA StillStep ==
  ASSUME IInv, TypeInv', QuietReplies, filed' = filed, conts' = conts, disk'.conts = disk.conts,
         rewound' = rewound
  PROVE  IInv'
<1>1. Len(filed) <= Len(filed') /\ rewound \subseteq rewound'
  BY Given
<1>2. \A o \in Effected : Spent(conts', o) /\ Spent(disk'.conts, o)
  BY DEF IInv, SpentInv
<1>3. QED BY <1>1, <1>2, Given, QuietStep

\* An action that moves records of the journal.
LEMMA MovingStep ==
  ASSUME IInv, TypeInv', QuietReplies, filed' = filed, Steps(conts, conts', SentTo),
         disk'.conts \in {disk.conts, conts'}, rewound \subseteq rewound',
         \A o \in Effected : o \notin rewound' => Spent(conts', o)
  PROVE  IInv'
<1>1. Len(filed) <= Len(filed') /\ filed' = filed
  BY Given
<1>2. Good(conts', Len(filed), SentTo, Underway)
  BY Given, JournalMoves DEF Steps
<1>3. Good(disk'.conts, Len(filed), SentTo, Underway)
  BY <1>2, Given
<1>4. \A o \in Effected : Spent(disk.conts, o)
  BY DEF IInv, SpentInv
<1>5. \A o \in Effected : o \notin rewound' => Spent(conts', o) /\ Spent(disk'.conts, o)
  BY <1>4
<1>6. QED BY <1>1, <1>2, <1>3, <1>5, QuietStep

\* An answer "duplicate" means what it says.
LEMMA DuplicateIsSent ==
  ASSUME IInv, NEW r \in Requests, PreCheck(r) = "duplicate" \/ ClaimVerdict(r) = "duplicate"
  PROVE  TextOf[r] \in Sent(OpOf[r])
<1>1. PICK o : o = OpOf[r]
  OBVIOUS
<1>2. o \in Ops /\ o \in Keys /\ SentTo[o] = Sent(o)
  BY <1>1, Bindings, Given, OpsAreKeys
<1>3. RecordsOf(o) # {} /\ RecordsOf(o) = RecordsIn(conts, o)
  BY <1>1 DEF PreCheck, ClaimVerdict, RecordsOf
<1>4. conts[o] # NoRecord /\ conts[o].op = o
  BY <1>2, <1>3, Given, OwnRecord
<1>5. CASE PreCheck(r) = "duplicate"
  <2>1. KeyOf(o) = o
    BY <1>2, <1>4 DEF KeyOf, Present
  <2>2. Verdict(conts[o], r) = "duplicate"
    BY <1>1, <1>3, <1>5, <2>1 DEF PreCheck
  <2>3. conts[o].text = TextOf[r] /\ conts[o].state = "completed"
    BY <2>2 DEF Verdict
  <2>4. SoundRecord(conts, o, Len(filed), SentTo)
    BY <1>2, <1>4, Given DEF Sound
  <2>5. QED BY <1>1, <1>2, <1>4, <2>3, <2>4 DEF SoundRecord
<1>6. CASE ClaimVerdict(r) = "duplicate"
  <2>1. PICK k : k = First(RecordsOf(o))
    OBVIOUS
  <2>2. Verdict(conts[k], r) = "duplicate"
    BY <1>1, <1>3, <1>6, <2>1 DEF ClaimVerdict, ClaimKey
  <2>3. conts[k].text = TextOf[r] /\ conts[k].state = "completed"
    BY <2>2 DEF Verdict
  <2>4. conts[k].text \in SentTo[o]
    BY <1>2, <1>3, <2>1, <2>3, Given, OwnRecord
  <2>5. QED BY <1>1, <1>2, <2>3, <2>4
<1>7. QED BY <1>5, <1>6

\* A claim refuses an operation whose first record has ended.
LEMMA SpentRefuses ==
  ASSUME IInv, NEW r \in Requests, Spent(conts, OpOf[r])
  PROVE  ClaimVerdict(r) # "go"
<1>1. PICK o, k : o = OpOf[r] /\ k = First(RecordsOf(o))
  OBVIOUS
<1>2. o \in Ops /\ RecordsOf(o) # {} /\ RecordsOf(o) = RecordsIn(conts, o)
  BY <1>1, Bindings DEF Spent, RecordsOf
<1>3. conts[k] \in Record /\ conts[k].state \notin InFlight
  BY <1>1, <1>2, Given, OwnRecord DEF Spent
<1>4. conts[k].state \in {"completed", "outcome_unknown", "failed", "canceled"}
  BY <1>3, RecordIs DEF States, InFlight
<1>5. Verdict(conts[k], r) # "go"
  BY <1>4 DEF Verdict
<1>6. QED BY <1>1, <1>2, <1>5 DEF ClaimVerdict, ClaimKey

LEMMA ReopenIs ==
  ASSUME Reopen
  PROVE  /\ rewound \subseteq rewound'
         /\ \A o \in Ops : Spent(conts, o) /\ o \notin rewound' => Spent(conts', o)
<1>1. ASSUME NEW o \in Ops, Spent(conts, o), o \notin rewound' PROVE Spent(conts', o)
  <2>1. Spent(conts, o)' = Spent(conts', o)
    BY DEF Spent, RecordsIn
  <2>2. QED BY <1>1, <2>1 DEF Reopen
<1>2. QED BY <1>1 DEF Reopen

-------------------------------------------------------------------------------
(* Each action keeps the invariant.                                           *)

LEMMA InitKeeps == Init => IInv
<1>1. SUFFICES ASSUME Init PROVE IInv
  OBVIOUS
<1>2. TypeInv
  BY <1>1, InitTypes
<1>3. /\ \A k \in Keys : conts[k] = NoRecord /\ disk.conts[k] = NoRecord
      /\ \A o \in Ops : delivered[o] = << >> /\ Sent(o) = {} /\ SentTo[o] = {}
      /\ Underway = {} /\ ui.step = "idle" /\ submitting = {}
      /\ \A r \in Requests : answer[r] = "none"
  BY <1>1 DEF Init, Idle, Sent, SentTo, Underway
<1>4. JournalInv
  BY <1>3 DEF JournalInv, Good, Sound
<1>5. SpentInv /\ OnceInv
  BY <1>3 DEF SpentInv, Effected, OnceInv
<1>6. ReplyInv
  BY <1>3 DEF ReplyInv, SuccessIsDelivery
<1>7. QED BY <1>2, <1>4, <1>5, <1>6 DEF IInv

LEMMA SendKeeps ==
  ASSUME IInv, NEW r \in Requests,
         Arrive(r) \/ Refuse(r) \/ Admitted(r) \/ WakeApproved(r) \/ WakeDenied(r)
  PROVE  IInv'
<1>1. TypeInv'
  BY SendTypesKept DEF IInv
<1>2. UNCHANGED <<filed, conts, disk, rewound, delivered, submitting>>
  BY DEF Arrive, Refuse, Admitted, WakeApproved, WakeDenied, askVars
<1>3. ui' = ui \/ ui'.step \notin {"deliver", "settle"}
  BY DEF Arrive, Refuse, Admitted, WakeApproved, WakeDenied, Finish, Idle
<1>4. \/ answer' = answer \/ Reply(r, "open") \/ Reply(r, "denied")
      \/ Reply(r, PreCheck(r))
  BY DEF Arrive, Refuse, Admitted, WakeApproved, WakeDenied, Finish
<1>5. answer \in [Requests -> Replies \cup {"none", "open"}]
  BY Given DEF SendTypes
<1>6. ASSUME NEW q \in Requests, answer'[q] \in {"ok", "duplicate"}, answer'[q] # answer[q]
      PROVE  TextOf[q] \in Sent(OpOf[q])
  BY <1>4, <1>5, <1>6, VerdictIs, DuplicateIsSent DEF Reply
<1>7. QED BY <1>1, <1>2, <1>3, <1>6, StillStep DEF QuietReplies

LEMMA AskPersonKeeps ==
  ASSUME IInv, NEW r \in Requests, AskPerson(r)
  PROVE  IInv'
<1>1. TypeInv'
  BY AskPersonTypes DEF IInv
<1>2. QuietReplies
  <2>1. delivered' = delivered /\ submitting' = submitting /\ ui' = Idle
    BY DEF AskPerson
  <2>2. \E a : Park(r, a)
    BY DEF AskPerson
  <2>3. \A q \in Requests : answer'[q] \in {answer[q], "replaced"}
    BY <2>2, Given DEF Park, SendTypes
  <2>4. QED BY <2>1, <2>3 DEF QuietReplies, Idle
<1>3. CASE SamePending(BindingOf(r)) # {}
  <2>1. UNCHANGED <<conts, filed, rewound>>
    BY <1>3 DEF AskPerson
  <2>2. disk'.conts = disk.conts
    <3>1. PICK q : disk' = [disk EXCEPT !.queue = q]
      BY <1>3 DEF AskPerson
    <3>2. disk' = [conts |-> disk.conts, queue |-> q, rows |-> disk.rows]
      BY <3>1, Given, DiskIs
    <3>3. QED BY <3>2
  <2>3. QED BY <1>1, <1>2, <2>1, <2>2, StillStep
<1>4. CASE SamePending(BindingOf(r)) = {}
  <2>1. PICK a : a = Len(filed) + 1
    OBVIOUS
  <2>2. /\ a \in Asks /\ filed' = Append(filed, BindingOf(r))
        /\ pending' = pending \cup {a} /\ open' = open \cup {a}
        /\ conts' = Upserted(BindingOf(r), a)
        /\ Persist(conts', open', pending') /\ Reopen /\ PreCheck(r) = "go"
    BY <1>4, <2>1 DEF AskPerson
  <2>3. Len(filed') = a /\ a \in Nat /\ Len(filed) \in Nat /\ Len(filed) <= a
    BY <2>1, <2>2, Given, Bindings DEF AskTypes
  <2>4. conts' \in Journal /\ Good(conts', a, SentTo, Underway)
    BY <2>1, <2>2, <2>3, Given, UpsertedIsGood
  <2>5. Good(disk.conts, a, SentTo, Underway)
    BY <2>3, Given, GoodGrows
  <2>6. disk'.conts \in {disk.conts, conts'}
    <3>1. open' \cap pending' \subseteq Asks
      BY <2>2, Given, AskIsAsk DEF AskTypes
    <3>2. QED BY <2>2, <2>4, <3>1, Given, PersistIs
  <2>7. Good(disk'.conts, a, SentTo, Underway)
    BY <2>4, <2>5, <2>6
  <2>8. rewound \subseteq rewound' /\ \A o \in Ops : Spent(conts, o) /\ o \notin rewound' => Spent(conts', o)
    BY <2>2, ReopenIs
  <2>9. \A o \in Effected : o \in Ops /\ Spent(conts, o) /\ Spent(disk.conts, o)
    BY DEF IInv, SpentInv, Effected
  <2>10. \A o \in Effected : o \notin rewound' => Spent(conts', o) /\ Spent(disk'.conts, o)
    BY <2>6, <2>8, <2>9
  <2>11. QED BY <1>1, <1>2, <2>3, <2>4, <2>7, <2>8, <2>10, QuietStep
<1>5. QED BY <1>3, <1>4

\* The claim finds no delivery to repeat, and records its own.
LEMMA ClaimKeeps ==
  ASSUME IInv, NEW r \in Requests, Claim(r)
  PROVE  IInv'
<1>1. TypeInv'
  BY ClaimTypes
<1>2. UNCHANGED <<submitting, filed, delivered, rewound>> /\ ui.step = "claim"
  BY ClaimIs DEF askVars
<1>3. CASE /\ UNCHANGED <<conts, disk>> /\ ui' = Idle
           /\ \/ ClaimVerdict(r) # "go" /\ Reply(r, ClaimVerdict(r))
              \/ Reply(r, "unrecorded")
  <2>1. answer \in [Requests -> Replies \cup {"none", "open"}]
    BY Given DEF SendTypes
  <2>2. ASSUME NEW q \in Requests, answer'[q] \in {"ok", "duplicate"}, answer'[q] # answer[q]
        PROVE  TextOf[q] \in Sent(OpOf[q])
    BY <1>3, <2>1, <2>2, VerdictIs, DuplicateIsSent DEF Reply
  <2>3. QED BY <1>1, <1>2, <1>3, <2>2, StillStep DEF QuietReplies, Idle
<1>4. CASE /\ ClaimVerdict(r) = "go" /\ conts' = Claimed(r) /\ conts' \in Journal
           /\ disk' \in Disk /\ disk'.conts = conts' /\ disk'.queue = disk.queue
           /\ ui' = [step |-> "deliver", req |-> r] /\ answer' = answer
  <2>1. PICK o : o = OpOf[r]
    OBVIOUS
  <2>2. o \in Ops /\ BindingOf(r) \in Binding
    BY <2>1, Bindings
  <2>3. /\ Good(conts', Len(filed), SentTo, Underway)
        /\ Has(conts', o, TextOf[r]) /\ Spent(conts', o)
        /\ \A p \in Ops : Spent(conts, p) => Spent(conts', p)
    BY <1>4, <2>1, Given, ClaimedIsGood
  <2>4. Underway = {} /\ Underway' = {BindingOf(r)}
    <3>1. Underway = {}
      BY <1>2, UnderwayIs
    <3>2. ui'.step = "deliver" /\ ui'.req = r
      BY <1>4
    <3>3. Underway' = {BindingOf(q) : q \in {p \in Requests : ui'.step \in {"deliver", "settle"} /\ ui'.req = p}}
      BY DEF Underway, BindingOf
    <3>4. QED BY <3>1, <3>2, <3>3
  <2>5. SentTo' = SentTo /\ \A p \in Ops : Sent(p)' = Sent(p)
    BY <1>2 DEF SentTo, Sent
  <2>6. JournalInv'
    <3>1. Good(conts', Len(filed), SentTo, {BindingOf(r)})
      BY <2>1, <2>3, Bindings DEF Good
    <3>2. filed' = filed /\ disk'.conts = conts'
      BY <1>2, <1>4
    <3>3. QED BY <2>4, <2>5, <3>1, <3>2 DEF JournalInv
  <2>7. SpentInv'
    <3>1. rewound' = rewound
      BY <1>2
    <3>2. ASSUME NEW p \in Effected' PROVE p \in Ops /\ (p = o \/ p \in Effected)
      BY <1>2, <2>1, <2>4, <3>1, <3>2, Bindings DEF Effected
    <3>3. \A p \in Effected' : Spent(conts', p) /\ Spent(disk'.conts, p)
      BY <1>4, <2>3, <3>2 DEF IInv, SpentInv
    <3>4. QED BY <3>3 DEF SpentInv, Spent, RecordsIn
  <2>8. OnceInv'
    <3>1. ASSUME o \notin rewound PROVE delivered[o] = << >>
      <4>1. SUFFICES ASSUME delivered[o] # << >> PROVE FALSE
        OBVIOUS
      <4>2. o \in Effected
        BY <2>2, <3>1, <4>1 DEF Effected
      <4>3. Spent(conts, o)
        BY <4>2 DEF IInv, SpentInv
      <4>4. QED BY <1>4, <2>1, <4>3, SpentRefuses
    <3>2. rewound' = rewound /\ ui'.req = r /\ delivered' = delivered
      BY <1>2, <1>4
    <3>3. QED BY <2>1, <3>1, <3>2 DEF IInv, OnceInv
  <2>9. ReplyInv'
    <3>1. /\ \A q \in Requests : answer[q] \in {"ok", "duplicate"} => TextOf[q] \in Sent(OpOf[q])
          /\ \A q \in submitting : TextOf[q] \in Sent(OpOf[q])
      BY DEF IInv, ReplyInv, SuccessIsDelivery
    <3>2. ui'.step = "deliver" /\ answer' = answer /\ submitting' = submitting /\ delivered' = delivered
      BY <1>2, <1>4
    <3>3. \A q : Sent(OpOf[q])' = Sent(OpOf[q])
      BY <3>2 DEF Sent
    <3>4. QED BY <3>1, <3>2, <3>3 DEF ReplyInv, SuccessIsDelivery
  <2>10. QED BY <1>1, <2>6, <2>7, <2>8, <2>9 DEF IInv
<1>5. QED BY <1>3, <1>4, ClaimIs

\* The text that was claimed is delivered once.
LEMMA DeliverKeeps ==
  ASSUME IInv, NEW r \in Requests, Deliver(r)
  PROVE  IInv'
<1>1. TypeInv' /\ StoreTypes
  BY DeliverTypes, Given DEF IInv
<1>2. /\ ui = [step |-> "deliver", req |-> r]
      /\ UNCHANGED <<answer, filed, conts, disk, rewound>>
      /\ ui'.step = "settle" /\ ui'.req = r
  BY <1>1, DeliverIs
<1>3. PICK o : o = OpOf[r]
  OBVIOUS
<1>4. o \in Ops /\ BindingOf(r).op = o /\ BindingOf(r).text = TextOf[r]
  BY <1>3, Bindings
<1>5. Underway = {BindingOf(r)} /\ Underway' = Underway
  <2>1. Underway = {BindingOf(r)}
    BY <1>2, UnderwayIs
  <2>2. Underway' = {BindingOf(q) : q \in {p \in Requests : ui'.step \in {"deliver", "settle"} /\ ui'.req = p}}
    BY DEF Underway, BindingOf
  <2>3. QED BY <1>2, <2>1, <2>2
<1>6. /\ Sent(o)' \subseteq Sent(o) \cup {TextOf[r]} /\ Sent(o) \subseteq Sent(o)'
      /\ \A p \in Ops \ {o} : Sent(p)' = Sent(p)
      /\ ui'.sent => TextOf[r] \in Sent(o)'
  <2>1. delivered[o] \in Seq(Texts)
    BY <1>1, <1>4 DEF StoreTypes
  <2>2. CASE UNCHANGED <<delivered, submitting>> /\ ~ui'.sent
    BY <2>2 DEF Sent
  <2>3. CASE /\ delivered'[o] = Append(delivered[o], TextOf[r])
             /\ \A p \in Ops \ {o} : delivered'[p] = delivered[p]
    <3>1. Sent(o)' = Sent(o) \cup {TextOf[r]}
      BY <2>1, <2>3 DEF Sent
    <3>2. QED BY <2>3, <3>1 DEF Sent
  <2>4. QED BY <1>1, <1>3, <2>2, <2>3, DeliverIs
<1>7. \A p \in Ops : Sent(p) \subseteq Sent(p)' /\ Sent(p)' \subseteq Sent(p) \cup {t \in {TextOf[r]} : p = o}
  BY <1>6
<1>8. JournalInv'
  <2>1. SentTo' = [p \in Ops |-> Sent(p)'] /\ SentTo = [p \in Ops |-> Sent(p)]
    BY DEF SentTo
  <2>2. \A p \in Ops : SentTo[p] \subseteq SentTo'[p]
    BY <1>7, <2>1
  <2>3. ASSUME NEW c \in Journal, Good(c, Len(filed), SentTo, Underway)
        PROVE  Good(c, Len(filed), SentTo', Underway)
    <3>1. Has(c, o, TextOf[r])
      BY <1>4, <1>5, <2>3 DEF Good
    <3>2. \A p \in Ops : \A t \in SentTo'[p] : Has(c, p, t)
      BY <1>7, <2>1, <2>3, <3>1 DEF Good
    <3>3. \A k \in Keys : c[k] # NoRecord => SoundRecord(c, k, Len(filed), SentTo')
      <4>1. TAKE k \in Keys
      <4>2. HAVE c[k] # NoRecord
      <4>3. c[k].op \in Ops /\ SoundRecord(c, k, Len(filed), SentTo)
        BY <2>3, <4>2, RecordIs DEF Journal, Good, Sound
      <4>4. QED BY <2>2, <4>3 DEF SoundRecord
    <3>4. Sound(c, Len(filed), SentTo')
      BY <2>3, <3>3 DEF Good, Sound
    <3>5. QED BY <2>3, <3>2, <3>4 DEF Good
  <2>4. Good(conts, Len(filed), SentTo', Underway) /\ Good(disk.conts, Len(filed), SentTo', Underway)
    BY <2>3, Given
  <2>5. QED BY <1>2, <1>5, <2>4 DEF JournalInv
<1>9. SpentInv'
  <2>1. rewound' = rewound
    BY <1>2
  <2>2. \A p \in Ops \ {o} : delivered'[p] = delivered[p]
    BY <1>1, <1>3, DeliverIs
  <2>3. ASSUME NEW p \in Effected' PROVE p \in Effected
    BY <1>4, <1>5, <2>1, <2>2, <2>3 DEF Effected
  <2>4. \A p \in Effected' : Spent(conts', p) /\ Spent(disk'.conts, p)
    BY <1>2, <2>3 DEF IInv, SpentInv
  <2>5. QED BY <2>4 DEF SpentInv, Spent, RecordsIn
<1>10. OnceInv'
  <2>1. rewound' = rewound
    BY <1>2
  <2>2. ASSUME NEW p \in Ops, p \notin rewound PROVE Len(delivered'[p]) <= 1
    <3>1. CASE p = o
      <4>1. delivered[o] = << >>
        BY <1>2, <1>3, <2>2, <3>1 DEF IInv, OnceInv
      <4>2. delivered' = delivered \/ delivered'[o] = Append(delivered[o], TextOf[r])
        BY <1>1, <1>3, DeliverIs
      <4>3. Len(Append(<< >>, TextOf[r])) = 1 /\ Len(<< >>) = 0
        BY Bindings
      <4>4. delivered'[o] = << >> \/ delivered'[o] = Append(<< >>, TextOf[r])
        BY <4>1, <4>2
      <4>5. PICK now : now = delivered'[o]
        OBVIOUS
      <4>6. Len(now) = 0 \/ Len(now) = 1
        BY <4>3, <4>4, <4>5
      <4>7. Len(now) <= 1
        <5>1. \A n \in {0, 1} : n <= 1
          OBVIOUS
        <5>2. QED BY <4>6, <5>1
      <4>8. QED BY <3>1, <4>5, <4>7
    <3>2. CASE p # o
      BY <1>1, <1>3, <2>2, <3>2, DeliverIs DEF IInv, OnceInv
    <3>3. QED BY <3>1, <3>2
  <2>3. QED BY <1>2, <2>1, <2>2 DEF OnceInv
<1>11. ReplyInv'
  <2>1. \A q \in Requests : TextOf[q] \in Sent(OpOf[q]) => TextOf[q] \in Sent(OpOf[q])'
    <3>1. \A q \in Requests : OpOf[q] \in Ops
      BY Bindings
    <3>2. QED BY <1>7, <3>1
  <2>2. submitting' = submitting \/ (submitting' = {r} /\ ui'.sent)
    BY <1>1, DeliverIs
  <2>3. ui'.sent => TextOf[r] \in Sent(OpOf[r])'
    BY <1>3, <1>6
  <2>4. ASSUME NEW q \in Requests, answer'[q] \in {"ok", "duplicate"} PROVE TextOf[q] \in Sent(OpOf[q])'
    BY <1>2, <2>1, <2>4 DEF IInv, ReplyInv, SuccessIsDelivery
  <2>5. ASSUME NEW q \in submitting' PROVE TextOf[q] \in Sent(OpOf[q])'
    <3>1. submitting \subseteq Requests
      BY Given DEF SendTypes
    <3>2. QED BY <2>1, <2>2, <2>3, <2>5, <3>1 DEF IInv, ReplyInv
  <2>6. (ui.step = "settle" /\ ui.sent => TextOf[ui.req] \in Sent(OpOf[ui.req]))'
    BY <1>2, <2>3 DEF Sent
  <2>7. QED BY <2>4, <2>5, <2>6 DEF ReplyInv, SuccessIsDelivery
<1>12. QED BY <1>1, <1>8, <1>9, <1>10, <1>11 DEF IInv

LEMMA DetachKeeps ==
  ASSUME IInv, NEW r \in Requests, Detach(r)
  PROVE  IInv'
<1>1. TypeInv'
  BY DetachTypes
<1>2. /\ Steps(conts, conts', SentTo) /\ disk'.conts \in {disk.conts, conts'}
      /\ UNCHANGED <<conts, disk, rewound>> \/ Reopen
      /\ UNCHANGED <<delivered, filed, submitting, ui>> /\ Reply(r, "detached")
  BY DetachIs
<1>3. QuietReplies
  <2>1. \A q \in Requests : answer'[q] \in {answer[q], "detached"}
    BY <1>2, Given DEF Reply, SendTypes
  <2>2. QED BY <1>2, <2>1 DEF QuietReplies
<1>4. CASE UNCHANGED <<conts, disk, rewound>>
  BY <1>1, <1>2, <1>3, <1>4, StillStep
<1>5. CASE Reopen
  <2>1. \A o \in Effected : o \in Ops /\ Spent(conts, o)
    BY DEF IInv, SpentInv, Effected
  <2>2. rewound \subseteq rewound' /\ \A o \in Effected : o \notin rewound' => Spent(conts', o)
    BY <1>5, <2>1, ReopenIs
  <2>3. QED BY <1>1, <1>2, <1>3, <2>2, MovingStep
<1>6. QED BY <1>2, <1>4, <1>5

LEMMA BookkeepingKeeps ==
  ASSUME IInv,
         \/ \E r \in Requests : Settle(r) \/ SubmitDone(r)
         \/ \E a \in pending, choice \in {"once", "always"} : Approve(a, choice)
         \/ DenyClose
  PROVE  IInv'
<1>1. TypeInv'
  BY BookkeepingTypes
<1>2. /\ Steps(conts, conts', SentTo) /\ Keeps(conts, conts')
      /\ disk'.conts \in {disk.conts, conts'}
      /\ delivered' = delivered /\ filed' = filed /\ rewound' = rewound
  BY Bookkeeping
<1>3. QuietReplies
  <2>1. answer \in [Requests -> Replies \cup {"none", "open"}]
    BY Given DEF SendTypes
  <2>2. submitting' \subseteq submitting /\ (ui' = ui \/ ui'.step \notin {"deliver", "settle"})
    <3>1. ASSUME NEW r \in Requests, Settle(r) \/ SubmitDone(r)
          PROVE  submitting' \subseteq submitting /\ (ui' = ui \/ ui' = Idle)
      BY <3>1 DEF Settle, SubmitDone
    <3>2. ASSUME NEW a \in pending, NEW choice, Approve(a, choice)
          PROVE  submitting' = submitting /\ ui' = ui
      BY <3>2 DEF Approve, sendVars
    <3>3. ASSUME DenyClose PROVE submitting' = submitting /\ ui' = ui
      BY <3>3 DEF DenyClose, sendVars
    <3>4. Idle.step \notin {"deliver", "settle"}
      BY DEF Idle
    <3>5. QED BY <3>1, <3>2, <3>3, <3>4
  <2>3. ASSUME NEW r \in Requests, Settle(r), NEW q \in Requests,
               answer'[q] \in {"ok", "duplicate"}, answer'[q] # answer[q]
        PROVE  TextOf[q] \in Sent(OpOf[q])
    <3>1. ui.step = "settle" /\ ui.req = r
      BY <2>3 DEF Settle
    <3>2. q = r /\ ui.sent
      BY <2>1, <2>3 DEF Settle, Reply
    <3>3. QED BY <3>1, <3>2 DEF IInv, ReplyInv
  <2>4. ASSUME NEW r \in Requests, SubmitDone(r), NEW q \in Requests,
               answer'[q] \in {"ok", "duplicate"}, answer'[q] # answer[q]
        PROVE  TextOf[q] \in Sent(OpOf[q])
    <3>1. q = r /\ r \in submitting
      BY <2>1, <2>4 DEF SubmitDone, Reply
    <3>2. QED BY <3>1 DEF IInv, ReplyInv
  <2>5. ASSUME (\E a \in pending, choice \in {"once", "always"} : Approve(a, choice)) \/ DenyClose
        PROVE  answer' = answer
    BY <2>5 DEF Approve, DenyClose, sendVars
  <2>6. QED BY <1>2, <2>2, <2>3, <2>4, <2>5 DEF QuietReplies
<1>4. \A o \in Effected : Spent(conts', o)
  <2>1. \A o \in Ops : RecordsIn(conts', o) = RecordsIn(conts, o)
    BY <1>2, Given, JournalMoves DEF Steps
  <2>2. \A o \in Effected : o \in Ops /\ Spent(conts, o)
    BY DEF IInv, SpentInv, Effected
  <2>3. QED BY <1>2, <2>1, <2>2, SpentStays DEF Keeps
<1>5. QED BY <1>1, <1>2, <1>3, <1>4, MovingStep

LEMMA RowStepKeeps ==
  ASSUME IInv, RowStep
  PROVE  IInv'
<1>1. TypeInv /\ TypeInv'
  BY RowStepTypes DEF IInv
<1>2. /\ UNCHANGED <<filed, conts, rewound, delivered, answer, submitting, ui>>
      /\ disk'.conts = disk.conts
  BY <1>1, RowStepIs DEF sendVars
<1>3. QED BY <1>1, <1>2, StillStep DEF QuietReplies

LEMMA RestartKeeps ==
  ASSUME IInv, Restart
  PROVE  IInv'
<1>1. TypeInv'
  BY RestartTypes
<1>2. /\ Steps(disk.conts, conts', SentTo) /\ Keeps(disk.conts, conts')
      /\ disk'.conts \in {disk.conts, conts'}
      /\ UNCHANGED <<filed, delivered, rewound>> /\ ui' = Idle /\ submitting' = {}
      /\ answer' = [r \in Requests |-> IF answer[r] = "open" THEN "lost" ELSE answer[r]]
  BY RestartIs
<1>3. QuietReplies
  BY <1>2 DEF QuietReplies, Idle
<1>4. /\ Good(conts', Len(filed), SentTo, Underway)
      /\ \A o \in Ops : RecordsIn(conts', o) = RecordsIn(disk.conts, o)
  BY <1>2, Given, JournalMoves DEF Steps
<1>5. Good(disk'.conts, Len(filed), SentTo, Underway)
  BY <1>2, <1>4, Given
<1>6. \A o \in Effected : o \in Ops /\ Spent(disk.conts, o)
  <2>1. \A o \in Effected : o \in Ops
    BY DEF Effected
  <2>2. \A o \in Effected : Spent(disk.conts, o)
    BY DEF IInv, SpentInv
  <2>3. QED BY <2>1, <2>2
<1>7. \A o \in Effected : Spent(conts', o)
  BY <1>2, <1>4, <1>6, SpentStays DEF Keeps
<1>8. \A o \in Effected : Spent(conts', o) /\ Spent(disk'.conts, o)
  BY <1>2, <1>6, <1>7
<1>9. Len(filed) <= Len(filed') /\ rewound \subseteq rewound' /\ filed' = filed
  BY <1>2, Given
<1>10. QED BY <1>1, <1>3, <1>4, <1>5, <1>8, <1>9, QuietStep

LEMMA StutterKeeps ==
  ASSUME IInv, UNCHANGED vars
  PROVE  IInv'
<1>1. UNCHANGED <<sendVars, askVars, conts, rows, disk, delivered, rewound>>
  BY DEF vars
<1>2. TypeInv'
  BY <1>1 DEF IInv, TypeInv, SendTypes, AskTypes, StoreTypes, sendVars, askVars
<1>3. QuietReplies /\ filed' = filed
  BY <1>1 DEF QuietReplies, sendVars, askVars
<1>4. QED BY <1>1, <1>2, <1>3, StillStep

LEMMA NextKeeps == IInv /\ [Next]_vars => IInv'
<1>1. SUFFICES ASSUME IInv, [Next]_vars PROVE IInv'
  OBVIOUS
<1>2. \/ \E r \in Requests : Arrive(r) \/ Refuse(r) \/ Admitted(r) \/ WakeApproved(r) \/ WakeDenied(r)
      \/ \E r \in Requests : AskPerson(r)
      \/ \E r \in Requests : Claim(r)
      \/ \E r \in Requests : Deliver(r)
      \/ \E r \in Requests : Detach(r)
      \/ \/ \E r \in Requests : Settle(r) \/ SubmitDone(r)
         \/ \E a \in pending, choice \in {"once", "always"} : Approve(a, choice)
         \/ DenyClose
      \/ RowStep
      \/ Restart
      \/ UNCHANGED vars
  <2>1. CASE UNCHANGED vars
    BY <2>1
  <2>2. CASE \E r \in Requests : Arrive(r) \/ SubmitDone(r) \/ Waiter(r)
    BY <2>2 DEF Waiter
  <2>3. CASE SendStep
    BY <2>3 DEF SendStep
  <2>4. CASE Person
    <3>1. \A choice \in Offered : choice \in {"once", "always", "deny", "never"}
      BY SendAssumption
    <3>2. ASSUME NEW a \in pending, NEW choice \in Offered \ {"deny", "never"}, Approve(a, choice)
          PROVE  \E b \in pending, c \in {"once", "always"} : Approve(b, c)
      BY <3>1, <3>2
    <3>3. ASSUME NEW a \in pending, NEW choice \in Offered \cap {"deny", "never"}, Deny(a, choice)
          PROVE  RowStep
      BY <3>3 DEF RowStep
    <3>4. ASSUME NEW a \in pending, NEW choice \in Offered \ {"deny"}, DecisionFails(a, choice)
          PROVE  RowStep
      BY <3>1, <3>4 DEF RowStep
    <3>5. ASSUME NEW g \in rows, Revoke(g) PROVE RowStep
      BY <3>5 DEF RowStep
    <3>6. QED BY <2>4, <3>2, <3>3, <3>4, <3>5 DEF Person
  <2>5. CASE DenyClose \/ Restart
    BY <2>5
  <2>6. QED BY <1>1, <2>1, <2>2, <2>3, <2>4, <2>5 DEF Next
<1>3. QED BY <1>1, <1>2, SendKeeps, AskPersonKeeps, ClaimKeeps, DeliverKeeps, DetachKeeps,
             BookkeepingKeeps, RowStepKeeps, RestartKeeps, StutterKeeps

-------------------------------------------------------------------------------
(* What follows for every behaviour.                                          *)

LEMMA Invariance == Spec => []IInv
<1>1. Init => IInv
  BY InitKeeps
<1>2. IInv /\ [Next]_vars => IInv'
  BY NextKeeps
<1>3. QED BY <1>1, <1>2, PTL DEF Spec

\* Every variable keeps its shape, in memory and on disk, whatever writes fail.
THEOREM TypeCorrect == Spec => []TypeOK
<1>1. IInv => TypeOK
  BY TypesAreOK DEF IInv
<1>2. QED BY <1>1, Invariance, PTL

\* claim_pane_send writes its marker before the effect and nothing but a departing
\* waiter or a new ask takes it back: without them an operation is delivered once.
THEOREM DeliveredOnce == Spec => []ReplayOnlyAfterRewind
<1>1. IInv => ReplayOnlyAfterRewind
  <2>1. SUFFICES ASSUME IInv, NEW o \in Ops, Len(delivered[o]) > 1, o \notin rewound PROVE FALSE
    BY DEF ReplayOnlyAfterRewind
  <2>2. Len(delivered[o]) <= 1
    BY <2>1 DEF IInv, OnceInv
  <2>3. Len(delivered[o]) \in Nat
    BY <2>1, Given DEF StoreTypes
  <2>4. QED BY <2>1, <2>2, <2>3
<1>2. QED BY <1>1, Invariance, PTL

\* A record that restore_continuations will offer again proves that no effect ran.
THEOREM WaitingIsUnclaimed == Spec => []WaitingProvesNoEffect
<1>1. IInv => WaitingProvesNoEffect
  <2>1. SUFFICES ASSUME IInv, NEW o \in Ops \ rewound, RecordsIn(disk.conts, o) # {},
                        disk.conts[First(RecordsIn(disk.conts, o))].state \in {"waiting_user", "paused"},
                        delivered[o] # << >>
                 PROVE  FALSE
    BY DEF WaitingProvesNoEffect
  <2>2. o \in Effected
    BY <2>1 DEF Effected
  <2>3. Spent(disk.conts, o)
    BY <2>1, <2>2 DEF IInv, SpentInv
  <2>4. QED BY <2>1, <2>3 DEF Spent, InFlight
<1>2. QED BY <1>1, Invariance, PTL

\* A caller that is told ok or duplicate is right: its text was delivered.
THEOREM SuccessIsTrue == Spec => []SuccessIsDelivery
<1>1. IInv => SuccessIsDelivery
  BY DEF IInv, ReplyInv
<1>2. QED BY <1>1, Invariance, PTL

\* The identity check and the claim let one text through per operation id.
THEOREM OneText == Spec => []OneTextPerOperation
<1>1. IInv => OneTextPerOperation
  <2>1. SUFFICES ASSUME IInv, NEW o \in Ops PROVE Cardinality(Sent(o)) <= 1
    BY DEF OneTextPerOperation
  <2>2. \A t \in Sent(o) : Has(conts, o, t)
    BY <2>1, Given DEF Good
  <2>3. \A s, t \in Sent(o) : s = t
    BY <2>2 DEF Has
  <2>4. QED BY <2>3, AtMostOneMember
<1>2. QED BY <1>1, Invariance, PTL
===============================================================================
