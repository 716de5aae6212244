---------------------------- MODULE ProfileStore ----------------------------
(***************************************************************************)
(* What of a host survives its restart: the needs-you queue               *)
(* (needs-you.json, src/broker/needs_you_store.rs) and the grant file      *)
(* (grants.toml) of one profile, and the threads of src/broker/gate.rs     *)
(* that write them.                                                        *)
(*                                                                         *)
(* A caller files an ask or a question, a person decides or answers it,    *)
(* and each of them then persists the queue: it copies the pending asks,   *)
(* copies the items, and replaces the file by way of a temporary one.  The *)
(* copies are taken under different locks and none is held over the write. *)
(* decision_lock is held by whoever decides an ask, needs_resolve by       *)
(* whoever closes a question, both to the end of their own write.  The     *)
(* grant file is written under the lock of the rows, by a temporary file   *)
(* of its own name.  The host may die between any two steps; any write and *)
(* any audit may fail.                                                     *)
(***************************************************************************)
EXTENDS Naturals, Sequences, FiniteSets

CONSTANTS
  Threads,
  Approvals,    \* asks of calls, each of a binding of its own
  Questions,    \* items that agents file: questions, blocked runs
  Choices,      \* what people choose
  MaxGrants,    \* bound on the rows ever built
  MaxCrashes

Items == Approvals \cup Questions

ASSUME StoreAssumption ==
  /\ Approvals \cap Questions = {}
  /\ Choices \subseteq {"once", "always", "deny", "never"}
  /\ MaxGrants \in Nat /\ MaxCrashes \in Nat

VARIABLES
  pending,      \* the asks that wait for a decision
  item,         \* the item of each ask and question
  minted,       \* every row ever built: for which ask, and how it stands
  store,        \* the rows in memory
  op,           \* what each thread is in the middle of
  queue,        \* needs-you.json: whether its seal verifies, and its items
  tmp,          \* needs-you.tmp
  grants,       \* grants.toml: its rows
  crashes,
  doubt,        \* history: something happened after which the queue file may be
                \* behind: a save or the audit of a closed item failed, two saves
                \* met; a save on its own ends it
  shared,       \* history: two saves of this host had needs-you.tmp open at once
  owed          \* history: rows the file kept because the save without them failed

memory  == <<pending, item, minted, store>>
history == <<doubt, shared, owed>>
vars == <<memory, op, queue, tmp, grants, crashes, history>>

GrantIds == DOMAIN minted

\* A file: absent, cut short or mixed (its seal does not verify), or whole.
Absent     == [state |-> "absent", items |-> {}]
Broken     == [state |-> "broken", items |-> {}]
Empty      == [state |-> "empty", items |-> {}]
Whole(s)   == [state |-> "whole", items |-> s]

Idle == [pc |-> "idle"]

Durable == {"always", "never"}       \* record_is_durable
DurableRows(rows) == {g \in rows : minted[g].kind \in Durable}

Step(t, o) == op' = [op EXCEPT ![t] = o]
Done(t) == Step(t, Idle)

Writing == {"write", "rename"}
Saving(t) == op[t].pc \in {"items", "open", "clean"} \cup Writing

-----------------------------------------------------------------------------
Init ==
  /\ pending = {}
  /\ item = [i \in Items |-> "absent"]
  /\ minted = << >>
  /\ store = {}
  /\ op = [t \in Threads |-> Idle]
  /\ queue = Absent
  /\ tmp = Absent
  /\ grants = {}
  /\ crashes = 0
  /\ doubt = FALSE /\ shared = FALSE /\ owed = {}

-----------------------------------------------------------------------------
(* Asks and questions.                                                       *)

\* A thread keeps "decision_lock", "needs_resolve" or "none" to its end.
Locked(lock) == \E t \in Threads : op[t] # Idle /\ op[t].lock = lock

\* persist_pending inserts the item and the ask under the lock of the asks.
FileApproval(t, a) ==
  /\ op[t] = Idle
  /\ item[a] = "absent"
  /\ item' = [item EXCEPT ![a] = "open"]
  /\ pending' = pending \cup {a}
  /\ Step(t, [pc |-> "filed", lock |-> "none"])
  /\ UNCHANGED <<minted, store, queue, tmp, grants, crashes, history>>

\* A second caller joins the ask, and persists as well.
JoinApproval(t, a) ==
  /\ op[t] = Idle
  /\ a \in pending
  /\ Step(t, [pc |-> "filed", lock |-> "none"])
  /\ UNCHANGED <<memory, queue, tmp, grants, crashes, history>>

FileQuestion(t, q) ==
  /\ op[t] = Idle
  /\ item[q] = "absent"
  /\ item' = [item EXCEPT ![q] = "open"]
  /\ Step(t, [pc |-> "filed", lock |-> "none"])
  /\ UNCHANGED <<pending, minted, store, queue, tmp, grants, crashes, history>>

\* answer, resolve, withdrawal or expiry of a question.
Answer(t, q) ==
  /\ op[t] = Idle /\ ~Locked("needs_resolve")
  /\ item[q] = "open"
  /\ Step(t, [pc |-> "close", lock |-> "needs_resolve", item |-> q])
  /\ UNCHANGED <<memory, queue, tmp, grants, crashes, history>>

-----------------------------------------------------------------------------
(* approve_pending.  Any row of the same ask and source gives way.           *)

Source(kind) == IF kind = "once" THEN "session" ELSE "user"

Superseded(a, kind) ==
  {g \in store : minted[g].ask = a /\ Source(minted[g].kind) = Source(kind)}

Decide(t, a, choice) ==
  /\ op[t] = Idle /\ ~Locked("decision_lock")
  /\ a \in pending
  /\ IF choice = "deny"
     THEN /\ Step(t, [pc |-> "drop", lock |-> "decision_lock", item |-> a])
          /\ UNCHANGED <<minted, store>>
     ELSE /\ Len(minted) < MaxGrants
          /\ minted' = Append(minted, [ask |-> a, kind |-> choice])
          /\ store' = (store \ Superseded(a, choice)) \cup {Len(minted) + 1}
          /\ Step(t, [pc |-> IF choice \in Durable THEN "save" ELSE "audit",
                      lock |-> "decision_lock", item |-> a, row |-> Len(minted) + 1])
  /\ UNCHANGED <<pending, item, queue, tmp, grants, crashes, history>>

\* The grant file is replaced by these rows, or the old one stays.
Save(rows) == grants' = rows /\ owed' = {}
SaveFails(rows) == UNCHANGED grants /\ owed' = owed \cup (grants \ rows)

TrySaved(rows) == rows                    \* try_save writes every row

\* Mutant: one-shot rows stay where they are.
AllSaved(rows) == rows

DurableSaved(rows) == DurableRows(rows)   \* save_durable

SaveRow(t) ==
  /\ op[t].pc = "save"
  /\ LET g == op[t].row
         kind == minted[g].kind IN
       \/ /\ Save(IF kind = "always" THEN TrySaved(store) ELSE DurableSaved(store))
          /\ Step(t, [op[t] EXCEPT !.pc = IF kind = "always" THEN "audit" ELSE "drop"])
          /\ UNCHANGED store
       \/ /\ store' = store \ {g}
          /\ SaveFails(store')
          /\ Done(t)
  /\ UNCHANGED <<pending, item, minted, queue, tmp, crashes, doubt, shared>>

\* An allowance that cannot be audited is taken back, also from the file.
AuditRow(t) ==
  /\ op[t].pc = "audit"
  /\ \/ /\ Step(t, [op[t] EXCEPT !.pc = "drop"])
        /\ UNCHANGED <<store, grants, owed>>
     \/ /\ store' = store \ {op[t].row}
        /\ IF minted[op[t].row].kind = "always"
           THEN Save(TrySaved(store')) \/ SaveFails(store')
           ELSE UNCHANGED <<grants, owed>>
        /\ Done(t)
  /\ UNCHANGED <<pending, item, minted, queue, tmp, crashes, doubt, shared>>

Drop(t) ==
  /\ op[t].pc = "drop"
  /\ pending' = pending \ {op[t].item}
  /\ Step(t, [op[t] EXCEPT !.pc = "close"])
  /\ UNCHANGED <<item, minted, store, queue, tmp, grants, crashes, history>>

\* Something the queue file may not show: saves under way do not settle it.
Unsettled(o) == [t \in Threads |-> IF "alone" \in DOMAIN o[t]
                                   THEN [o[t] EXCEPT !.alone = FALSE] ELSE o[t]]

\* Mutant: an item that is closed is not saved at once.
CloseUnsaved(t) ==
  /\ op[t].pc = "close"
  /\ item' = [item EXCEPT ![op[t].item] = "closed"]
  /\ Done(t)
  /\ UNCHANGED <<pending, minted, store, queue, tmp, grants, crashes, history>>

\* close_needs_you: an item whose closing cannot be audited is open again, and
\* nothing is saved.
Close(t) ==
  /\ op[t].pc = "close"
  /\ IF item[op[t].item] # "open"
     THEN Done(t) /\ UNCHANGED <<item, doubt>>
     ELSE \/ /\ item' = [item EXCEPT ![op[t].item] = "closed"]
             /\ Step(t, [pc |-> "filed", lock |-> op[t].lock])
             /\ UNCHANGED doubt
          \/ /\ op' = [Unsettled(op) EXCEPT ![t] = Idle]
             /\ doubt' = TRUE
             /\ UNCHANGED item
  /\ UNCHANGED <<pending, minted, store, queue, tmp, grants, crashes, shared, owed>>

-----------------------------------------------------------------------------
(* persist_queue, save, write_private.                                       *)

CopyPending(t) ==
  /\ op[t].pc = "filed"
  /\ LET others == {u \in Threads \ {t} : Saving(u)}
         mine == [pc |-> "items", lock |-> op[t].lock, alone |-> others = {},
                  pending |-> pending] IN
       IF others = {} THEN Step(t, mine) /\ UNCHANGED doubt
       ELSE op' = [Unsettled(op) EXCEPT ![t] = mine] /\ doubt' = TRUE
  /\ UNCHANGED <<memory, queue, tmp, grants, crashes, shared, owed>>

Open(i) == item[i] = "open"

\* An approval without its ask is left out.
CopyItems(t) ==
  /\ op[t].pc = "items"
  /\ Step(t, [pc |-> "open", lock |-> op[t].lock, alone |-> op[t].alone,
              items |-> {i \in Items : Open(i) /\ (i \in Questions \/ i \in op[t].pending)}])
  /\ UNCHANGED <<memory, queue, tmp, grants, crashes, history>>

\* The temporary file has one name: whoever opens it empties it for the others.
OpenTmp(t) ==
  /\ op[t].pc = "open"
  /\ tmp' = Empty
  /\ Step(t, [pc |-> "write", lock |-> op[t].lock, alone |-> op[t].alone,
              items |-> op[t].items, at |-> "tmp"])
  /\ shared' = (shared \/ \E u \in Threads : op[u].pc \in Writing)
  /\ UNCHANGED <<memory, queue, grants, crashes, doubt, owed>>

\* Over what another thread wrote there, a shorter text leaves a tail.
Written(file, items) == {Whole(items)} \cup (IF file = Empty THEN {} ELSE {Broken})

\* The file a thread opened may have been renamed, or replaced, since.
WriteTmp(t) ==
  /\ op[t].pc = "write"
  /\ CASE op[t].at = "tmp"   -> tmp' \in Written(tmp, op[t].items) /\ UNCHANGED queue
       [] op[t].at = "queue" -> queue' \in Written(queue, op[t].items) /\ UNCHANGED tmp
       [] op[t].at = "lost"  -> UNCHANGED <<tmp, queue>>
  /\ Step(t, [op[t] EXCEPT !.pc = "rename"])
  /\ UNCHANGED <<memory, grants, crashes, history>>

\* Where an open file is after the temporary one became the queue.
Moved(o) == [t \in Threads |->
  IF o[t].pc # "write" THEN o[t]
  ELSE [o[t] EXCEPT !.at = IF @ = "tmp" THEN "queue" ELSE "lost"]]

Settled(t) == doubt /\ ~op[t].alone

Rename(t) ==
  /\ op[t].pc = "rename"
  /\ tmp # Absent
  /\ queue' = tmp
  /\ tmp' = Absent
  /\ doubt' = Settled(t)
  /\ op' = [Moved(op) EXCEPT ![t] = Idle]
  /\ UNCHANGED <<memory, grants, crashes, shared, owed>>

\* The file is gone: another thread renamed it.  Removing it comes later.
RenameFails(t) ==
  /\ op[t].pc = "rename"
  /\ tmp = Absent
  /\ doubt' = TRUE
  /\ op' = [Unsettled(op) EXCEPT ![t].pc = "clean"]
  /\ UNCHANGED <<memory, queue, tmp, grants, crashes, shared, owed>>

Clean(t) ==
  /\ op[t].pc = "clean"
  /\ tmp' = Absent
  /\ op' = [u \in Threads |->
       IF u = t THEN Idle
       ELSE IF op[u].pc = "write" /\ op[u].at = "tmp"
       THEN [op[u] EXCEPT !.at = "lost"] ELSE op[u]]
  /\ UNCHANGED <<memory, queue, grants, crashes, history>>

\* Any other failure; a text that could not be written stays where it is.
SaveQueueFails(t) ==
  /\ op[t].pc \in {"open", "write"}
  /\ IF op[t].pc = "write" /\ op[t].at = "tmp" THEN tmp' = Broken ELSE UNCHANGED tmp
  /\ IF op[t].pc = "write" /\ op[t].at = "queue" THEN queue' = Broken ELSE UNCHANGED queue
  /\ doubt' = TRUE
  /\ op' = [Unsettled(op) EXCEPT ![t] = Idle]
  /\ UNCHANGED <<memory, grants, crashes, shared, owed>>

-----------------------------------------------------------------------------
(* The permissions list, and a restart.                                      *)

\* revoke_locked; a save that fails is only logged.
Revoke(g) ==
  /\ g \in store
  /\ store' = store \ {g}
  /\ Save(DurableSaved(store')) \/ SaveFails(store')
  /\ UNCHANGED <<pending, item, minted, op, queue, tmp, crashes, doubt, shared>>

\* Mutant: whatever was listed waits for an approval.
RestoredAll(items) == items

RestoredAsks(items) == items \cap Approvals

\* The rows are what the file says.  A queue whose seal verifies is installed;
\* one that does not verify is set aside and an empty one is written.
Restart ==
  /\ crashes < MaxCrashes
  /\ crashes' = crashes + 1
  /\ store' = grants
  /\ item' = [i \in Items |->
       IF i \in queue.items THEN "open" ELSE IF item[i] = "absent" THEN "absent" ELSE "closed"]
  /\ pending' = RestoredAsks(queue.items)
  /\ queue' = IF queue.state \in {"broken", "empty"} THEN Whole({}) ELSE queue
  /\ op' = [t \in Threads |-> Idle]
  /\ doubt' = FALSE /\ shared' = FALSE /\ owed' = {}
  /\ UNCHANGED <<minted, tmp, grants>>

-----------------------------------------------------------------------------
Caller(t) ==
  \/ \E a \in Approvals : FileApproval(t, a) \/ JoinApproval(t, a)
  \/ \E q \in Questions : FileQuestion(t, q)

Person(t) ==
  \/ \E q \in Questions : Answer(t, q)
  \/ \E a \in Approvals, c \in Choices : Decide(t, a, c)

Decision(t) == SaveRow(t) \/ AuditRow(t) \/ Drop(t) \/ Close(t)

PersistQueue(t) ==
  \/ CopyPending(t) \/ CopyItems(t) \/ OpenTmp(t) \/ WriteTmp(t)
  \/ Rename(t) \/ RenameFails(t) \/ Clean(t) \/ SaveQueueFails(t)

Next ==
  \/ \E t \in Threads : Caller(t) \/ Person(t) \/ Decision(t) \/ PersistQueue(t)
  \/ \E g \in store : Revoke(g)
  \/ Restart

Spec == Init /\ [][Next]_vars

-----------------------------------------------------------------------------
(* What a restart may rely on.                                               *)

File == [state : {"absent", "broken", "empty", "whole"}, items : SUBSET Items]

\* Every variable keeps its shape; rows that are stored were built.
TypeOK ==
  /\ pending \subseteq Approvals
  /\ item \in [Items -> {"absent", "open", "closed"}]
  /\ minted \in Seq([ask : Approvals, kind : {"once"} \cup Durable])
  /\ store \subseteq GrantIds /\ grants \subseteq GrantIds /\ owed \subseteq GrantIds
  /\ queue \in File /\ tmp \in File
  /\ doubt \in BOOLEAN /\ shared \in BOOLEAN

Quiet == \A t \in Threads : op[t] = Idle

Listed == {i \in Items : Open(i) /\ (i \in Questions \/ i \in pending)}

\* The queue file says what the host would list, so that a restart loses no ask
\* and brings none back that was decided.  It falls behind only by a failed
\* write or audit or by saves that met, and the next save on its own mends it;
\* its seal breaks only if two saves had the temporary file open together,
\* never by dying in the middle of a save.
QueueFaithful ==
  /\ Quiet /\ ~doubt => queue.items = Listed
  /\ queue.state \in {"broken", "empty"} => shared

Deciding == {op[t].row : t \in {u \in Threads : op[u].pc \in {"save", "audit"}}}

\* The grant file and the rows in force agree about durable rows, through failed
\* saves and audits: an allowance or denial that stands is on file, and a row
\* that was revoked, replaced or taken back comes back with a restart only if
\* the save without it failed.  A one-shot row gets on file only together with a
\* durable allowance given after it.
GrantsFaithful ==
  /\ DurableRows(store) \ Deciding \subseteq grants
  /\ ~Locked("decision_lock") => DurableRows(grants) \ store \subseteq owed
  /\ \A g \in grants \ DurableRows(grants) :
       \E h \in GrantIds : h > g /\ minted[h].kind = "always"
=============================================================================
