-------------------------- MODULE ProfileStore_proofs --------------------------
(***************************************************************************)
(* Proofs about what survives a restart, for every number of threads, asks *)
(* and rows.  The inductive invariant IInv is, on top of the shapes: which *)
(* rows are on file at each step of a decision (GrantInv), what the two    *)
(* locks guarantee about the item a thread decides (AskInv), who is alone  *)
(* in saving the queue and in writing its temporary file (AloneInv,        *)
(* WriterInv), and how far the copies a save holds are behind (FreshInv).  *)
(***************************************************************************)
EXTENDS ProfileStore, SequenceTheorems, TLAPS

Locks == {"none", "decision_lock", "needs_resolve"}
Minted == [ask : Approvals, kind : {"once"} \cup Durable]

\* What a thread is in the middle of, by where it stands.
FiledRec  == [pc : {"filed"}, lock : Locks]
AnswerRec == [pc : {"close"}, lock : {"needs_resolve"}, item : Questions]
DenyRec   == [pc : {"drop", "close"}, lock : {"decision_lock"}, item : Approvals]
DecideRec == [pc : {"save", "audit", "drop", "close"}, lock : {"decision_lock"},
              item : Approvals, row : GrantIds]
CopyRec   == [pc : {"items"}, lock : Locks, alone : BOOLEAN, pending : SUBSET Approvals]
OpenRec   == [pc : {"open"}, lock : Locks, alone : BOOLEAN, items : SUBSET Items]
WriteRec  == [pc : {"write", "rename", "clean"}, lock : Locks, alone : BOOLEAN,
              items : SUBSET Items, at : {"tmp", "queue", "lost"}]
SaveRec   == CopyRec \cup OpenRec \cup WriteRec
Op == {Idle} \cup FiledRec \cup AnswerRec \cup DenyRec \cup DecideRec \cup SaveRec

FileText == {Absent, Broken, Empty} \cup {Whole(s) : s \in SUBSET Items}

TypeInv ==
  /\ TypeOK
  /\ op \in [Threads -> Op]
  /\ queue \in FileText /\ tmp \in FileText

SavingRows == {op[t].row : t \in {u \in Threads : op[u].pc = "save"}}

GrantInv ==
  /\ \A t \in Threads : op[t].pc \in {"save", "audit"} => op[t].row = Len(minted)
  /\ \A t \in Threads : /\ op[t].pc = "save" => minted[op[t].row].kind \in Durable
                        /\ op[t].pc = "audit" => minted[op[t].row].kind \in {"once", "always"}
  /\ DurableRows(store) \ SavingRows \subseteq grants
  /\ (\A t \in Threads : op[t].pc # "save") => DurableRows(grants) \ store \subseteq owed
  /\ \A g \in grants \ DurableRows(grants) :
       \E h \in GrantIds : h > g /\ minted[h].kind = "always"

Deciders == {"save", "audit", "drop", "close"}

\* Two threads do not hold the same lock.
LockInv == \A t, u \in Threads :
  op[t] # Idle /\ op[u] # Idle /\ op[t].lock = op[u].lock /\ op[t].lock # "none" => t = u

AskInv ==
  /\ \A a \in pending : item[a] = "open"
  /\ \A t \in Threads : op[t].pc \in Deciders => item[op[t].item] = "open"
  /\ \A t \in Threads : op[t].pc = "close" => op[t].item \notin pending

AloneInv ==
  /\ \A t, u \in Threads : Saving(t) /\ Saving(u) /\ op[t].alone => t = u
  /\ \A t \in Threads : op[t].pc = "clean" => ~op[t].alone /\ shared
  /\ ~doubt => \A t \in Threads : Saving(t) => op[t].alone

WriterInv ==
  /\ \A t \in Threads : op[t].pc \in Writing /\ (op[t].alone \/ ~shared) =>
       /\ \A u \in Threads : u # t => op[u].pc \notin Writing
       /\ op[t].pc = "write" => op[t].at = "tmp" /\ tmp = Empty
       /\ op[t].pc = "rename" => tmp = Whole(op[t].items)
  /\ ~shared => queue.state \notin {"broken", "empty"}

Owing == \E t \in Threads : op[t].pc \in {"filed", "close"}

FreshInv ==
  /\ \A t \in Threads : Saving(t) /\ op[t].alone /\ ~Owing =>
       /\ op[t].pc = "items" => op[t].pending = pending
       /\ op[t].pc \in {"open", "write", "rename"} => op[t].items = Listed
  /\ ~doubt /\ ~Owing /\ (\A t \in Threads : ~Saving(t)) => queue.items = Listed

IInv == TypeInv /\ LockInv /\ GrantInv /\ AskInv /\ AloneInv /\ WriterInv /\ FreshInv

\* Where a thread stands says which record it has.
LEMMA OpByPc ==
  ASSUME NEW o \in Op
  PROVE  /\ o.pc = "idle" <=> o = Idle
         /\ o.pc = "filed" => o \in FiledRec
         /\ o.pc = "close" => o \in AnswerRec \cup DenyRec \cup DecideRec
         /\ o.pc = "drop" => o \in DenyRec \cup DecideRec
         /\ o.pc \in {"save", "audit"} => o \in DecideRec
         /\ o.pc = "items" => o \in CopyRec
         /\ o.pc = "open" => o \in OpenRec
         /\ o.pc \in {"write", "rename", "clean"} => o \in WriteRec
<1>1. (o \in FiledRec => o.pc = "filed") /\ (o \in AnswerRec => o.pc = "close")
  BY DEF FiledRec, AnswerRec
<1>2. (o \in DenyRec => o.pc \in {"drop", "close"})
      /\ (o \in DecideRec => o.pc \in {"save", "audit", "drop", "close"})
  BY DEF DenyRec, DecideRec
<1>3. (o \in CopyRec => o.pc = "items") /\ (o \in OpenRec => o.pc = "open")
      /\ (o \in WriteRec => o.pc \in {"write", "rename", "clean"})
  BY DEF CopyRec, OpenRec, WriteRec
<1>4. o = Idle => o.pc = "idle"
  BY DEF Idle
<1>5. QED BY <1>1, <1>2, <1>3, <1>4 DEF Op, SaveRec

\* A save that something met is not alone any more, and otherwise as it was.
LEMMA UnsettledEffect ==
  ASSUME NEW o \in [Threads -> Op], NEW t \in Threads
  PROVE  /\ o[t] \in SaveRec => /\ Unsettled(o)[t] = [o[t] EXCEPT !.alone = FALSE]
                                /\ Unsettled(o)[t] \in SaveRec
         /\ o[t] \notin SaveRec => Unsettled(o)[t] = o[t]
         /\ Unsettled(o)[t] \in Op
         /\ Unsettled(o) \in [Threads -> Op]
<1>1. \A r \in SaveRec : "alone" \in DOMAIN r /\ [r EXCEPT !.alone = FALSE] \in SaveRec
  BY DEF SaveRec, CopyRec, OpenRec, WriteRec
<1>2. \A r \in Op \ SaveRec : "alone" \notin DOMAIN r
  BY DEF Op, Idle, FiledRec, AnswerRec, DenyRec, DecideRec
<1>3. \A u \in Threads : Unsettled(o)[u] = IF o[u] \in SaveRec THEN [o[u] EXCEPT !.alone = FALSE]
                                           ELSE o[u]
  BY <1>1, <1>2 DEF Unsettled
<1>4. \A u \in Threads : Unsettled(o)[u] \in Op
  BY <1>1, <1>3 DEF Op
<1>5. Unsettled(o) \in [Threads -> Op]
  BY <1>4 DEF Unsettled
<1>6. QED BY <1>1, <1>3, <1>4, <1>5

\* A file that was open goes where its name went.
LEMMA MovedEffect ==
  ASSUME NEW o \in [Threads -> Op], NEW t \in Threads
  PROVE  /\ o[t].pc = "write" => \E w \in {"queue", "lost"} :
                                   /\ Moved(o)[t] = [o[t] EXCEPT !.at = w]
                                   /\ Moved(o)[t] \in WriteRec
         /\ o[t].pc # "write" => Moved(o)[t] = o[t]
         /\ Moved(o) \in [Threads -> Op]
<1>1. \A r \in WriteRec, w \in {"queue", "lost"} : [r EXCEPT !.at = w] \in WriteRec
  BY DEF WriteRec
<1>2. ASSUME NEW u \in Threads, o[u].pc = "write"
      PROVE  \E w \in {"queue", "lost"} :
               Moved(o)[u] = [o[u] EXCEPT !.at = w] /\ Moved(o)[u] \in WriteRec
  <2>1. PICK w \in {"queue", "lost"} : w = IF o[u].at = "tmp" THEN "queue" ELSE "lost"
    OBVIOUS
  <2>2. o[u] \in WriteRec
    BY <1>2, OpByPc
  <2>3. Moved(o)[u] = [o[u] EXCEPT !.at = w]
    BY <1>2, <2>1 DEF Moved
  <2>4. QED BY <1>1, <2>2, <2>3
<1>3. ASSUME NEW u \in Threads, o[u].pc # "write"
      PROVE  Moved(o)[u] = o[u]
  BY <1>3 DEF Moved
<1>4. \A u \in Threads : Moved(o)[u] \in Op
  BY <1>2, <1>3 DEF Op, SaveRec
<1>5. Moved(o) \in [Threads -> Op]
  BY <1>4 DEF Moved
<1>6. QED BY <1>2, <1>3, <1>5

LEMMA InitTypeInv == ASSUME Init PROVE TypeInv
<1>1. minted \in Seq(Minted) /\ store \subseteq GrantIds /\ grants \subseteq GrantIds
  BY EmptySeq DEF Init
<1>2. queue \in File /\ tmp \in File
  BY DEF Init, File, Absent
<1>3. QED BY <1>1, <1>2 DEF Init, TypeInv, TypeOK, Minted, FileText, Op

\* What a step does to the rows that were ever built.
MintedKept ==
  /\ minted' \in Seq(Minted)
  /\ GrantIds \subseteq GrantIds' /\ \A g \in GrantIds : minted'[g] = minted[g]

LEMMA DecideEffect ==
  ASSUME TypeInv, NEW t \in Threads, NEW a \in Approvals, NEW choice \in Choices,
         Decide(t, a, choice), choice # "deny"
  PROVE  /\ MintedKept
         /\ GrantIds' = GrantIds \cup {Len(minted')} /\ Len(minted') \notin GrantIds
         /\ Len(minted') = Len(minted) + 1 /\ Len(minted) \in Nat
         /\ minted'[Len(minted')] = [ask |-> a, kind |-> choice]
         /\ store' = (store \ Superseded(a, choice)) \cup {Len(minted')}
<1>1. minted \in Seq(Minted) /\ [ask |-> a, kind |-> choice] \in Minted
  BY StoreAssumption DEF StoreAssumption, TypeInv, TypeOK, Minted, Durable
<1>2. /\ minted' = Append(minted, [ask |-> a, kind |-> choice])
      /\ store' = (store \ Superseded(a, choice)) \cup {Len(minted) + 1}
  BY DEF Decide
<1>3. PICK r \in Minted : r = [ask |-> a, kind |-> choice]
  BY <1>1
<1>4. /\ minted' \in Seq(Minted) /\ Len(minted') = Len(minted) + 1 /\ Len(minted) \in Nat
      /\ GrantIds = 1 .. Len(minted) /\ GrantIds' = 1 .. Len(minted) + 1
      /\ \A g \in 1 .. Len(minted) : minted'[g] = minted[g]
      /\ minted'[Len(minted) + 1] = r
  BY <1>1, <1>2, <1>3, AppendProperties, LenProperties DEF GrantIds
<1>5. QED BY <1>2, <1>3, <1>4 DEF MintedKept

\* A record stays one when rows are built.
LEMMA OpKept ==
  ASSUME GrantIds \subseteq GrantIds', NEW o \in Op
  PROVE  o \in Op'
<1>1. o \in DecideRec => o \in DecideRec'
  BY DEF DecideRec
<1>2. /\ FiledRec' = FiledRec /\ AnswerRec' = AnswerRec /\ DenyRec' = DenyRec
      /\ SaveRec' = SaveRec
  BY DEF FiledRec, AnswerRec, DenyRec, SaveRec, CopyRec, OpenRec, WriteRec
<1>3. QED BY <1>1, <1>2 DEF Op


-------------------------------------------------------------------------------
(* What a step does to the other threads: at most they are not alone any more, *)
(* or the file they opened has another name or none.                           *)

Kept(u) ==
  \/ op'[u] = op[u]
  \/ op[u] \in SaveRec /\ op'[u] = [op[u] EXCEPT !.alone = FALSE]
  \/ op[u].pc = "write" /\ \E w \in {"queue", "lost"} : op'[u] = [op[u] EXCEPT !.at = w]

KeptFields(u) ==
  /\ op'[u].pc = op[u].pc /\ (op[u] = Idle <=> op'[u] = Idle)
  /\ op[u] # Idle => op'[u].lock = op[u].lock
  /\ op[u].pc \notin {"items", "open", "write", "rename", "clean"} => op'[u] = op[u]
  /\ Saving(u) /\ op'[u].alone => op[u].alone
  /\ op[u].pc = "items" => op'[u].pending = op[u].pending
  /\ op[u].pc \in {"open", "write", "rename"} => op'[u].items = op[u].items

LEMMA KeptType ==
  ASSUME TypeInv, NEW u \in Threads, Kept(u)
  PROVE  op'[u] \in Op /\ KeptFields(u)
<1>1. op[u] \in Op
  BY DEF TypeInv
<1>2. CASE op'[u] = op[u]
  BY <1>1, <1>2 DEF KeptFields
<1>3. ASSUME op[u] \in SaveRec, op'[u] = [op[u] EXCEPT !.alone = FALSE]
      PROVE  op'[u] \in Op /\ KeptFields(u)
  <2>1. \A r \in SaveRec : [r EXCEPT !.alone = FALSE] \in SaveRec
    BY DEF SaveRec, CopyRec, OpenRec, WriteRec
  <2>2. /\ op'[u] \in Op /\ op'[u].pc = op[u].pc /\ op'[u].lock = op[u].lock
        /\ op'[u].alone = FALSE
        /\ op[u].pc \in {"items", "open", "write", "rename", "clean"}
    BY <1>3, <2>1 DEF Op, SaveRec, CopyRec, OpenRec, WriteRec
  <2>3. op[u] \in CopyRec => op'[u].pending = op[u].pending
    BY <1>3 DEF CopyRec
  <2>4. op[u] \in OpenRec \cup WriteRec => op'[u].items = op[u].items
    BY <1>3 DEF OpenRec, WriteRec
  <2>5. op[u] # Idle /\ op'[u] # Idle
    BY <2>2 DEF Idle
  <2>6. QED BY <1>1, <2>2, <2>3, <2>4, <2>5, OpByPc DEF KeptFields
<1>4. ASSUME op[u].pc = "write", NEW w \in {"queue", "lost"}, op'[u] = [op[u] EXCEPT !.at = w]
      PROVE  op'[u] \in Op /\ KeptFields(u)
  <2>1. op[u] \in WriteRec
    BY <1>1, <1>4, OpByPc
  <2>2. /\ op'[u] \in WriteRec /\ op'[u].pc = op[u].pc /\ op'[u].lock = op[u].lock
        /\ op'[u].alone = op[u].alone /\ op'[u].items = op[u].items
    BY <1>4, <2>1 DEF WriteRec
  <2>3. op[u] # Idle /\ op'[u] # Idle
    BY <1>4, <2>2 DEF Idle
  <2>4. QED BY <1>4, <2>2, <2>3 DEF KeptFields, Op, SaveRec
<1>5. QED BY <1>2, <1>3, <1>4 DEF Kept

\* The steps of one thread with what they leave it in.
LEMMA ThreadStep ==
  ASSUME TypeInv, NEW t \in Threads, NEW o,
         \/ Step(t, o)
         \/ op' = [Unsettled(op) EXCEPT ![t] = o]
         \/ op' = [Moved(op) EXCEPT ![t] = o]
  PROVE  /\ op'[t] = o /\ \A u \in Threads \ {t} : Kept(u)
         /\ op' = [u \in Threads |-> op'[u]]
<1>1. op \in [Threads -> Op] /\ Unsettled(op) \in [Threads -> Op] /\ Moved(op) \in [Threads -> Op]
  BY UnsettledEffect, MovedEffect DEF TypeInv
<1>2. CASE Step(t, o)
  BY <1>1, <1>2 DEF Step, Kept
<1>3. CASE op' = [Unsettled(op) EXCEPT ![t] = o]
  <2>1. /\ op'[t] = o /\ \A u \in Threads \ {t} : op'[u] = Unsettled(op)[u]
        /\ op' = [u \in Threads |-> op'[u]]
    BY <1>1, <1>3
  <2>2. QED BY <1>1, <2>1, UnsettledEffect DEF Kept
<1>4. CASE op' = [Moved(op) EXCEPT ![t] = o]
  <2>1. /\ op'[t] = o /\ \A u \in Threads \ {t} : op'[u] = Moved(op)[u]
        /\ op' = [u \in Threads |-> op'[u]]
    BY <1>1, <1>4
  <2>2. \A u \in Threads \ {t} : Kept(u)
    <3>1. TAKE u \in Threads \ {t}
    <3>2. /\ op[u].pc = "write" => \E w \in {"queue", "lost"} :
                                     /\ Moved(op)[u] = [op[u] EXCEPT !.at = w]
                                     /\ Moved(op)[u] \in WriteRec
          /\ op[u].pc # "write" => Moved(op)[u] = op[u]
      <4>1. u \in Threads /\ op \in [Threads -> Op]
        BY <1>1
      <4>2. QED BY <4>1, MovedEffect, Zenon
    <3>3. op'[u] = Moved(op)[u]
      BY <2>1
    <3>4. QED BY <3>2, <3>3 DEF Kept
  <2>3. QED BY <2>1, <2>2
<1>5. QED BY <1>2, <1>3, <1>4

LEMMA CleanEffect ==
  ASSUME TypeInv, NEW t \in Threads, Clean(t)
  PROVE  /\ op'[t] = Idle /\ \A u \in Threads \ {t} : Kept(u)
         /\ op' = [u \in Threads |-> op'[u]]
<1>1. \A u \in Threads : op'[u] = IF u = t THEN Idle
                                  ELSE IF op[u].pc = "write" /\ op[u].at = "tmp"
                                  THEN [op[u] EXCEPT !.at = "lost"] ELSE op[u]
  BY DEF Clean
<1>2. op' = [u \in Threads |-> op'[u]]
  BY DEF Clean
<1>3. QED BY <1>1, <1>2 DEF Kept

LEMMA RenameFailsEffect ==
  ASSUME TypeInv, NEW t \in Threads, RenameFails(t)
  PROVE  /\ op[t] \in WriteRec
         /\ op'[t] = [op[t] EXCEPT !.alone = FALSE, !.pc = "clean"]
         /\ \A u \in Threads \ {t} : Kept(u)
         /\ op' = [u \in Threads |-> op'[u]]
<1>1. op[t] \in WriteRec /\ op \in [Threads -> Op]
  BY OpByPc DEF RenameFails, TypeInv
<1>2. Unsettled(op) \in [Threads -> Op] /\ Unsettled(op)[t] = [op[t] EXCEPT !.alone = FALSE]
  BY <1>1, UnsettledEffect DEF SaveRec
<1>3. op' = [Unsettled(op) EXCEPT ![t] = [Unsettled(op)[t] EXCEPT !.pc = "clean"]]
  BY <1>2 DEF RenameFails
<1>4. /\ op'[t] = [Unsettled(op)[t] EXCEPT !.pc = "clean"]
      /\ op' = [u \in Threads |-> op'[u]]
      /\ \A u \in Threads \ {t} : op'[u] = Unsettled(op)[u]
  BY <1>2, <1>3
<1>5. \A u \in Threads \ {t} : Kept(u)
  BY <1>1, <1>4, UnsettledEffect DEF Kept
<1>6. QED BY <1>1, <1>2, <1>4, <1>5

-------------------------------------------------------------------------------
(* Every variable keeps its shape.                                            *)

\* One thread moves, the others are kept.
LEMMA OpType ==
  ASSUME TypeInv, NEW t \in Threads, GrantIds \subseteq GrantIds', op'[t] \in Op',
         \A u \in Threads \ {t} : Kept(u), op' = [u \in Threads |-> op'[u]]
  PROVE  op' \in [Threads -> Op']
<1>1. \A u \in Threads : op'[u] \in Op'
  BY KeptType, OpKept
<1>2. QED BY <1>1

\* Rows are built by decisions; otherwise each step keeps or replaces what there is.
LEMMA RowsType ==
  ASSUME TypeInv, MintedKept, store' \subseteq GrantIds', grants' \subseteq GrantIds',
         owed' \subseteq GrantIds', item' \in [Items -> {"absent", "open", "closed"}],
         pending' \subseteq Approvals, queue' \in FileText, tmp' \in FileText,
         doubt' \in BOOLEAN, shared' \in BOOLEAN, op' \in [Threads -> Op']
  PROVE  TypeInv'
<1>1. \A f \in FileText : f \in File
  BY DEF FileText, File, Absent, Broken, Empty, Whole
<1>2. TypeOK'
  BY <1>1 DEF TypeOK, MintedKept, Minted
<1>3. FileText' = FileText
  BY DEF FileText
<1>4. QED BY <1>2, <1>3 DEF TypeInv

LEMMA StepTypeInv ==
  ASSUME TypeInv, [Next]_vars
  PROVE  TypeInv'
<1>1. /\ op \in [Threads -> Op] /\ queue \in FileText /\ tmp \in FileText
      /\ minted \in Seq(Minted) /\ store \subseteq GrantIds /\ grants \subseteq GrantIds
      /\ owed \subseteq GrantIds /\ item \in [Items -> {"absent", "open", "closed"}]
      /\ pending \subseteq Approvals /\ doubt \in BOOLEAN /\ shared \in BOOLEAN
  BY DEF TypeInv, TypeOK, Minted
<1>2. \A s \in SUBSET Items : Whole(s) \in FileText
  BY DEF FileText
<1>3. Absent \in FileText /\ Broken \in FileText /\ Empty \in FileText
  BY DEF FileText
<1>4. UNCHANGED minted => MintedKept
  BY <1>1 DEF MintedKept, GrantIds
<1>5. \A rows : DurableRows(rows) \subseteq rows
  BY DEF DurableRows
<1>6. CASE UNCHANGED vars
  BY <1>6 DEF vars, memory, history, TypeInv, TypeOK, GrantIds, FileText, Op, DecideRec
<1>7. ASSUME NEW t \in Threads, Caller(t)
      PROVE  TypeInv'
  <2>1. /\ item' \in [Items -> {"absent", "open", "closed"}] /\ pending' \subseteq Approvals
        /\ UNCHANGED <<minted, store, queue, tmp, grants, owed, doubt, shared>>
        /\ Step(t, [pc |-> "filed", lock |-> "none"])
    BY <1>1, <1>7 DEF Caller, FileApproval, JoinApproval, FileQuestion, Items, memory, history
  <2>2. [pc |-> "filed", lock |-> "none"] \in Op'
    BY DEF Op, FiledRec, Locks
  <2>3. GrantIds' = GrantIds
    BY <2>1 DEF GrantIds
  <2>4. op' \in [Threads -> Op']
    BY <2>1, <2>2, <2>3, ThreadStep, OpType
  <2>5. QED BY <1>1, <1>4, <2>1, <2>3, <2>4, RowsType
<1>8. ASSUME NEW t \in Threads, NEW q \in Questions, Answer(t, q)
      PROVE  TypeInv'
  <2>1. UNCHANGED <<item, pending, minted, store, queue, tmp, grants, owed, doubt, shared>>
        /\ Step(t, [pc |-> "close", lock |-> "needs_resolve", item |-> q])
    BY <1>8 DEF Answer, memory, history
  <2>2. [pc |-> "close", lock |-> "needs_resolve", item |-> q] \in Op'
    BY DEF Op, AnswerRec
  <2>3. GrantIds' = GrantIds
    BY <2>1 DEF GrantIds
  <2>4. op' \in [Threads -> Op']
    BY <2>1, <2>2, <2>3, ThreadStep, OpType
  <2>5. QED BY <1>1, <1>4, <2>1, <2>3, <2>4, RowsType
<1>9. ASSUME NEW t \in Threads, NEW a \in Approvals, NEW choice \in Choices, Decide(t, a, choice)
      PROVE  TypeInv'
  <2>1. UNCHANGED <<item, pending, queue, tmp, grants, owed, doubt, shared>>
    BY <1>9 DEF Decide, history
  <2>2. CASE choice = "deny"
    <3>1. /\ UNCHANGED <<minted, store>>
          /\ Step(t, [pc |-> "drop", lock |-> "decision_lock", item |-> a])
      BY <1>9, <2>2 DEF Decide
    <3>2. [pc |-> "drop", lock |-> "decision_lock", item |-> a] \in Op'
      BY DEF Op, DenyRec
    <3>3. GrantIds' = GrantIds
      BY <3>1 DEF GrantIds
    <3>4. op' \in [Threads -> Op']
      BY <3>1, <3>2, <3>3, ThreadStep, OpType
    <3>5. QED BY <1>1, <1>4, <2>1, <3>1, <3>3, <3>4, RowsType
  <2>3. CASE choice # "deny"
    <3>1. /\ MintedKept /\ GrantIds' = GrantIds \cup {Len(minted')}
          /\ Len(minted') = Len(minted) + 1
          /\ store' = (store \ Superseded(a, choice)) \cup {Len(minted')}
      BY <1>9, <2>3, DecideEffect
    <3>2. PICK pc \in {"save", "audit"} :
            Step(t, [pc |-> pc, lock |-> "decision_lock", item |-> a, row |-> Len(minted')])
      BY <1>9, <2>3, <3>1 DEF Decide
    <3>3. [pc |-> pc, lock |-> "decision_lock", item |-> a, row |-> Len(minted')] \in Op'
      BY <3>1 DEF Op, DecideRec
    <3>4. op' \in [Threads -> Op']
      BY <3>1, <3>2, <3>3, ThreadStep, OpType
    <3>5. QED BY <1>1, <2>1, <3>1, <3>4, RowsType
  <2>4. QED BY <2>2, <2>3
<1>10. ASSUME NEW t \in Threads, SaveRow(t) \/ AuditRow(t)
       PROVE  TypeInv'
  <2>1. op[t] \in DecideRec
    BY <1>1, <1>10, OpByPc DEF SaveRow, AuditRow
  <2>2. /\ UNCHANGED <<item, pending, minted, queue, tmp, doubt, shared>>
        /\ store' \subseteq store
    BY <1>10 DEF SaveRow, AuditRow
  <2>3. grants' \subseteq GrantIds /\ owed' \subseteq GrantIds
    BY <1>1, <1>5, <1>10, <2>2 DEF SaveRow, AuditRow, Save, SaveFails, TrySaved, DurableSaved
  <2>4. Done(t) \/ \E pc \in {"audit", "drop"} : Step(t, [op[t] EXCEPT !.pc = pc])
    BY <1>10 DEF SaveRow, AuditRow
  <2>5. GrantIds' = GrantIds
    BY <2>2 DEF GrantIds
  <2>6. \A pc \in {"audit", "drop"} : [op[t] EXCEPT !.pc = pc] \in DecideRec'
    BY <2>1, <2>5 DEF DecideRec
  <2>7. op' \in [Threads -> Op']
    BY <2>4, <2>5, <2>6, ThreadStep, OpType DEF Done, Op
  <2>8. QED BY <1>1, <1>4, <2>2, <2>3, <2>5, <2>7, RowsType
<1>11. ASSUME NEW t \in Threads, Drop(t)
       PROVE  TypeInv'
  <2>1. op[t] \in DenyRec \cup DecideRec
    BY <1>1, <1>11, OpByPc DEF Drop
  <2>2. /\ UNCHANGED <<item, minted, store, queue, tmp, grants, owed, doubt, shared>>
        /\ pending' \subseteq pending /\ Step(t, [op[t] EXCEPT !.pc = "close"])
    BY <1>11 DEF Drop, history
  <2>3. GrantIds' = GrantIds
    BY <2>2 DEF GrantIds
  <2>4. [op[t] EXCEPT !.pc = "close"] \in Op'
    BY <2>1, <2>3 DEF DenyRec, DecideRec, Op
  <2>5. op' \in [Threads -> Op']
    BY <2>2, <2>3, <2>4, ThreadStep, OpType
  <2>6. QED BY <1>1, <1>4, <2>2, <2>3, <2>5, RowsType
<1>12. ASSUME NEW t \in Threads, Close(t)
       PROVE  TypeInv'
  <2>1. op[t].item \in Items /\ op[t].lock \in Locks
    BY <1>1, <1>12, OpByPc DEF Close, AnswerRec, DenyRec, DecideRec, Items, Locks
  <2>2. /\ UNCHANGED <<pending, minted, store, queue, tmp, grants, owed, shared>>
        /\ item' \in [Items -> {"absent", "open", "closed"}] /\ doubt' \in BOOLEAN
    BY <1>1, <1>12, <2>1 DEF Close
  <2>3. PICK o \in {Idle, [pc |-> "filed", lock |-> op[t].lock]} :
          Step(t, o) \/ op' = [Unsettled(op) EXCEPT ![t] = o]
    BY <1>12 DEF Close, Done
  <2>4. GrantIds' = GrantIds
    BY <2>2 DEF GrantIds
  <2>5. o \in Op'
    BY <2>1, <2>3 DEF Op, FiledRec
  <2>6. op' \in [Threads -> Op']
    BY <2>3, <2>4, <2>5, ThreadStep, OpType
  <2>7. QED BY <1>1, <1>4, <2>2, <2>4, <2>6, RowsType
<1>13. ASSUME NEW t \in Threads, CopyPending(t) \/ CopyItems(t) \/ OpenTmp(t) \/ WriteTmp(t)
       PROVE  TypeInv'
  <2>1. /\ UNCHANGED <<item, pending, minted, store, grants, owed>>
        /\ doubt' \in BOOLEAN /\ shared' \in BOOLEAN
    BY <1>1, <1>13 DEF CopyPending, CopyItems, OpenTmp, WriteTmp, memory, history
  <2>2. PICK o : Step(t, o) \/ op' = [Unsettled(op) EXCEPT ![t] = o]
    BY <1>13 DEF CopyPending, CopyItems, OpenTmp, WriteTmp
  <2>3. op'[t] = o
    BY <2>2, ThreadStep
  <2>4. o \in SaveRec
    <3>1. CASE CopyPending(t)
      <4>1. op[t].lock \in Locks
        BY <1>1, <3>1, OpByPc DEF CopyPending, FiledRec
      <4>2. PICK b \in BOOLEAN : b <=> {u \in Threads \ {t} : Saving(u)} = {}
        OBVIOUS
      <4>3. PICK p : /\ p = [pc |-> "items", lock |-> op[t].lock, alone |-> b, pending |-> pending]
                     /\ Step(t, p) \/ op' = [Unsettled(op) EXCEPT ![t] = p]
        BY <3>1, <4>2 DEF CopyPending
      <4>4. p = o
        BY <2>3, <4>3, ThreadStep
      <4>5. QED BY <1>1, <4>1, <4>3, <4>4 DEF SaveRec, CopyRec
    <3>2. CASE CopyItems(t)
      <4>1. op[t] \in CopyRec
        BY <1>1, <3>2, OpByPc DEF CopyItems
      <4>2. PICK s \in SUBSET Items :
              s = {i \in Items : Open(i) /\ (i \in Questions \/ i \in op[t].pending)}
        OBVIOUS
      <4>3. Step(t, [pc |-> "open", lock |-> op[t].lock, alone |-> op[t].alone, items |-> s])
        BY <3>2, <4>2 DEF CopyItems
      <4>4. o = [pc |-> "open", lock |-> op[t].lock, alone |-> op[t].alone, items |-> s]
        BY <2>3, <4>3, ThreadStep
      <4>5. QED BY <4>1, <4>4 DEF SaveRec, OpenRec, CopyRec
    <3>3. CASE OpenTmp(t)
      <4>1. op[t] \in OpenRec
        BY <1>1, <3>3, OpByPc DEF OpenTmp
      <4>2. o = [pc |-> "write", lock |-> op[t].lock, alone |-> op[t].alone,
                 items |-> op[t].items, at |-> "tmp"]
        BY <2>3, <3>3, ThreadStep DEF OpenTmp
      <4>3. QED BY <4>1, <4>2 DEF SaveRec, OpenRec, WriteRec
    <3>4. CASE WriteTmp(t)
      <4>1. op[t] \in WriteRec
        BY <1>1, <3>4, OpByPc DEF WriteTmp
      <4>2. o = [op[t] EXCEPT !.pc = "rename"]
        BY <2>3, <3>4, ThreadStep DEF WriteTmp
      <4>3. QED BY <4>1, <4>2 DEF SaveRec, WriteRec
    <3>5. QED BY <1>13, <3>1, <3>2, <3>3, <3>4
  <2>5. queue' \in FileText /\ tmp' \in FileText
    <3>1. ASSUME WriteTmp(t)
          PROVE  queue' \in FileText /\ tmp' \in FileText
      <4>1. op[t] \in WriteRec
        BY <1>1, <3>1, OpByPc DEF WriteTmp
      <4>2. \A f : Written(f, op[t].items) \subseteq FileText
        BY <1>2, <1>3, <4>1 DEF Written, WriteRec
      <4>3. op[t].at \in {"tmp", "queue", "lost"}
        BY <4>1 DEF WriteRec
      <4>4. QED BY <1>1, <3>1, <4>2, <4>3 DEF WriteTmp
    <3>2. ~WriteTmp(t) => queue' \in FileText /\ tmp' \in FileText
      BY <1>1, <1>3, <1>13 DEF CopyPending, CopyItems, OpenTmp
    <3>3. QED BY <3>1, <3>2
  <2>6. GrantIds' = GrantIds
    BY <2>1 DEF GrantIds
  <2>7. op' \in [Threads -> Op']
    <3>1. o \in Op
      BY <2>4 DEF Op
    <3>2. QED BY <2>2, <2>6, <3>1, ThreadStep, OpType, OpKept
  <2>8. QED BY <1>1, <1>4, <2>1, <2>5, <2>6, <2>7, RowsType
<1>14. ASSUME NEW t \in Threads, Rename(t) \/ RenameFails(t) \/ Clean(t) \/ SaveQueueFails(t)
       PROVE  TypeInv'
  <2>1. /\ UNCHANGED <<item, pending, minted, store, grants, owed, shared>>
        /\ doubt' \in BOOLEAN
    BY <1>1, <1>14 DEF Rename, RenameFails, Clean, SaveQueueFails, memory, history, Settled
  <2>2. GrantIds' = GrantIds
    BY <2>1 DEF GrantIds
  <2>3. op' \in [Threads -> Op']
    <3>1. Idle \in Op'
      BY DEF Op
    <3>2. CASE Rename(t) \/ SaveQueueFails(t)
      BY <2>2, <3>1, <3>2, ThreadStep, OpType DEF Rename, SaveQueueFails
    <3>3. CASE Clean(t)
      BY <2>2, <3>1, <3>3, CleanEffect, OpType
    <3>4. CASE RenameFails(t)
      <4>1. op[t] \in WriteRec /\ op'[t] = [op[t] EXCEPT !.alone = FALSE, !.pc = "clean"]
        BY <3>4, RenameFailsEffect
      <4>2. op'[t] \in Op
        BY <4>1 DEF WriteRec, Op, SaveRec
      <4>3. QED BY <2>2, <3>4, <4>2, RenameFailsEffect, OpType, OpKept
    <3>5. QED BY <1>14, <3>2, <3>3, <3>4
  <2>4. queue' \in FileText /\ tmp' \in FileText
    BY <1>1, <1>3, <1>14 DEF Rename, RenameFails, Clean, SaveQueueFails
  <2>5. QED BY <1>1, <1>4, <2>1, <2>2, <2>3, <2>4, RowsType
<1>15. ASSUME NEW g \in store, Revoke(g)
       PROVE  TypeInv'
  <2>1. /\ UNCHANGED <<item, pending, minted, op, queue, tmp, doubt, shared>>
        /\ store' \subseteq store /\ GrantIds' = GrantIds
    BY <1>15 DEF Revoke, GrantIds
  <2>2. grants' \subseteq GrantIds /\ owed' \subseteq GrantIds
    BY <1>1, <1>5, <1>15, <2>1 DEF Revoke, Save, SaveFails, DurableSaved
  <2>3. op' \in [Threads -> Op']
    BY <1>1, <2>1, OpKept
  <2>4. QED BY <1>1, <1>4, <2>1, <2>2, <2>3, RowsType
<1>16. CASE Restart
  <2>1. /\ UNCHANGED <<minted, tmp, grants>> /\ store' = grants /\ owed' = {}
        /\ doubt' \in BOOLEAN /\ shared' \in BOOLEAN
        /\ item' \in [Items -> {"absent", "open", "closed"}]
        /\ pending' \subseteq Approvals
    BY <1>16 DEF Restart, RestoredAsks
  <2>2. GrantIds' = GrantIds
    BY <2>1 DEF GrantIds
  <2>3. queue' \in FileText
    BY <1>1, <1>2, <1>16 DEF Restart
  <2>4. op' \in [Threads -> Op']
    BY <1>16 DEF Restart, Op
  <2>5. QED BY <1>1, <1>4, <2>1, <2>2, <2>3, <2>4, RowsType
<1>17. QED
  BY <1>6, <1>7, <1>8, <1>9, <1>10, <1>11, <1>12, <1>13, <1>14, <1>15, <1>16
     DEF Next, Person, Decision, PersistQueue

LEMMA TypeInvariance == Spec => []TypeInv
<1>1. Init => TypeInv
  BY InitTypeInv
<1>2. TypeInv /\ [Next]_vars => TypeInv'
  BY StepTypeInv
<1>3. QED BY <1>1, <1>2, PTL DEF Spec

\* Every variable keeps its shape and stored rows were built, for any number of
\* threads, asks and restarts.
THEOREM TypeCorrect == Spec => []TypeOK
<1>1. TypeInv => TypeOK
  BY DEF TypeInv
<1>2. QED BY <1>1, TypeInvariance, PTL

-------------------------------------------------------------------------------
(* One thread moves at a time, and what it holds it keeps.                    *)

\* A thread takes a lock that is free, with the first step of what it does.
Moves(t) ==
  /\ \A u \in Threads \ {t} : Kept(u)
  /\ op[t] # Idle /\ op'[t] # Idle => op'[t].lock = op[t].lock
  /\ op[t] = Idle /\ op'[t] # Idle /\ op'[t].lock # "none" => ~Locked(op'[t].lock)

LEMMA CallerMoves ==
  ASSUME TypeInv, NEW t \in Threads, Caller(t)
  PROVE  op[t] = Idle /\ op'[t] = [pc |-> "filed", lock |-> "none"] /\ Moves(t)
<1>1. op[t] = Idle /\ Step(t, [pc |-> "filed", lock |-> "none"])
  BY DEF Caller, FileApproval, JoinApproval, FileQuestion
<1>2. op'[t] = [pc |-> "filed", lock |-> "none"] /\ \A u \in Threads \ {t} : Kept(u)
  BY <1>1, ThreadStep
<1>3. QED BY <1>1, <1>2 DEF Moves

LEMMA PersonMoves ==
  ASSUME TypeInv, NEW t \in Threads, Person(t)
  PROVE  op[t] = Idle /\ op'[t].pc \in Deciders /\ Moves(t)
<1>1. ASSUME NEW q \in Questions, Answer(t, q)
      PROVE  op[t] = Idle /\ op'[t].pc \in Deciders /\ Moves(t)
  <2>1. /\ op[t] = Idle /\ ~Locked("needs_resolve")
        /\ Step(t, [pc |-> "close", lock |-> "needs_resolve", item |-> q])
    BY <1>1 DEF Answer
  <2>2. /\ op'[t] = [pc |-> "close", lock |-> "needs_resolve", item |-> q]
        /\ \A u \in Threads \ {t} : Kept(u)
    BY <2>1, ThreadStep
  <2>3. QED BY <2>1, <2>2 DEF Moves, Deciders
<1>2. ASSUME NEW a \in Approvals, NEW c \in Choices, Decide(t, a, c)
      PROVE  op[t] = Idle /\ op'[t].pc \in Deciders /\ Moves(t)
  <2>1. /\ op[t] = Idle /\ ~Locked("decision_lock")
        /\ \E o : Step(t, o) /\ o.lock = "decision_lock" /\ o.pc \in Deciders
    BY <1>2 DEF Decide, Deciders
  <2>2. PICK o : Step(t, o) /\ o.lock = "decision_lock" /\ o.pc \in Deciders
    BY <2>1
  <2>3. op'[t] = o /\ \A u \in Threads \ {t} : Kept(u)
    BY <2>2, ThreadStep
  <2>4. QED BY <2>1, <2>2, <2>3 DEF Moves
<1>3. QED BY <1>1, <1>2 DEF Person

LEMMA DecisionMoves ==
  ASSUME TypeInv, NEW t \in Threads, Decision(t)
  PROVE  op[t].pc \in Deciders /\ Moves(t)
<1>1. op[t] \in AnswerRec \cup DenyRec \cup DecideRec /\ op[t].pc \in Deciders
  BY OpByPc DEF Decision, SaveRow, AuditRow, Drop, Close, TypeInv, Deciders
<1>2. op[t] # Idle
  BY <1>1 DEF Deciders, Idle
<1>3. \A pc : [op[t] EXCEPT !.pc = pc].lock = op[t].lock
  BY <1>1 DEF AnswerRec, DenyRec, DecideRec
<1>4. ASSUME NEW o, o = Idle \/ o.lock = op[t].lock,
             Step(t, o) \/ op' = [Unsettled(op) EXCEPT ![t] = o]
      PROVE  Moves(t)
  <2>1. op'[t] = o /\ \A u \in Threads \ {t} : Kept(u)
    BY <1>4, ThreadStep
  <2>2. QED BY <1>2, <1>4, <2>1 DEF Moves
<1>5. \E o : /\ o = Idle \/ o.lock = op[t].lock
             /\ Step(t, o) \/ op' = [Unsettled(op) EXCEPT ![t] = o]
  <2>1. CASE SaveRow(t)
    BY <1>3, <2>1 DEF SaveRow, Done
  <2>2. CASE AuditRow(t)
    BY <1>3, <2>2 DEF AuditRow, Done
  <2>3. CASE Drop(t)
    BY <1>3, <2>3 DEF Drop
  <2>4. CASE Close(t)
    <3>1. [pc |-> "filed", lock |-> op[t].lock].lock = op[t].lock
      OBVIOUS
    <3>2. QED BY <2>4, <3>1 DEF Close, Done
  <2>5. QED BY <2>1, <2>2, <2>3, <2>4 DEF Decision
<1>6. QED BY <1>1, <1>4, <1>5

LEMMA PersistMoves ==
  ASSUME TypeInv, NEW t \in Threads, PersistQueue(t)
  PROVE  /\ op[t].pc \in {"filed", "items", "open", "write", "rename", "clean"}
         /\ op'[t].pc \in {"idle", "items", "open", "write", "rename", "clean"}
         /\ Moves(t)
<1>1. /\ op[t] \in FiledRec \cup SaveRec
      /\ op[t].pc \in {"filed", "items", "open", "write", "rename", "clean"}
  BY OpByPc DEF PersistQueue, CopyPending, CopyItems, OpenTmp, WriteTmp, Rename, RenameFails,
                Clean, SaveQueueFails, TypeInv, SaveRec
<1>2. op[t] # Idle
  BY <1>1 DEF Idle
<1>3. ASSUME NEW o, o = Idle \/ o.lock = op[t].lock,
             o.pc \in {"idle", "items", "open", "write", "rename", "clean"},
             op'[t] = o, \A u \in Threads \ {t} : Kept(u)
      PROVE  op'[t].pc \in {"idle", "items", "open", "write", "rename", "clean"} /\ Moves(t)
  BY <1>2, <1>3 DEF Moves
<1>4. Idle.pc = "idle"
  BY DEF Idle
<1>5. CASE CopyPending(t)
  <2>1. PICK o : /\ o.lock = op[t].lock /\ o.pc = "items"
                 /\ Step(t, o) \/ op' = [Unsettled(op) EXCEPT ![t] = o]
    <3>1. PICK o : /\ o = [pc |-> "items", lock |-> op[t].lock,
                           alone |-> {u \in Threads \ {t} : Saving(u)} = {},
                           pending |-> pending]
                   /\ Step(t, o) \/ op' = [Unsettled(op) EXCEPT ![t] = o]
      BY <1>5 DEF CopyPending
    <3>2. QED BY <3>1
  <2>2. QED BY <1>1, <1>3, <2>1, ThreadStep
<1>6. CASE CopyItems(t)
  <2>1. PICK o : o.lock = op[t].lock /\ o.pc = "open" /\ Step(t, o)
    BY <1>6 DEF CopyItems
  <2>2. QED BY <1>1, <1>3, <2>1, ThreadStep
<1>7. CASE OpenTmp(t)
  <2>1. PICK o : o.lock = op[t].lock /\ o.pc = "write" /\ Step(t, o)
    BY <1>7 DEF OpenTmp
  <2>2. QED BY <1>1, <1>3, <2>1, ThreadStep
<1>8. CASE WriteTmp(t)
  <2>1. op[t] \in WriteRec
    BY <1>8, OpByPc DEF WriteTmp, TypeInv
  <2>2. PICK o : o.lock = op[t].lock /\ o.pc = "rename" /\ Step(t, o)
    BY <1>8, <2>1 DEF WriteTmp, WriteRec
  <2>3. QED BY <1>1, <1>3, <2>2, ThreadStep
<1>9. CASE Rename(t) \/ SaveQueueFails(t)
  <2>1. op' = [Moved(op) EXCEPT ![t] = Idle] \/ op' = [Unsettled(op) EXCEPT ![t] = Idle]
    BY <1>9 DEF Rename, SaveQueueFails
  <2>2. QED BY <1>1, <1>3, <1>4, <2>1, ThreadStep
<1>10. CASE Clean(t)
  BY <1>1, <1>3, <1>4, <1>10, CleanEffect
<1>11. CASE RenameFails(t)
  <2>1. op[t] \in WriteRec /\ op'[t] = [op[t] EXCEPT !.alone = FALSE, !.pc = "clean"]
        /\ \A u \in Threads \ {t} : Kept(u)
    BY <1>11, RenameFailsEffect
  <2>2. op'[t].lock = op[t].lock /\ op'[t].pc = "clean"
    BY <2>1 DEF WriteRec
  <2>3. QED BY <1>1, <1>3, <2>1, <2>2
<1>12. QED BY <1>1, <1>5, <1>6, <1>7, <1>8, <1>9, <1>10, <1>11 DEF PersistQueue

LEMMA StepMoves ==
  ASSUME TypeInv, [Next]_vars
  PROVE  \/ UNCHANGED op
         \/ op' = [t \in Threads |-> Idle]
         \/ \E t \in Threads : Moves(t)
<1>1. ASSUME NEW t \in Threads, Caller(t) \/ Person(t) \/ Decision(t) \/ PersistQueue(t)
      PROVE  Moves(t)
  BY <1>1, CallerMoves, PersonMoves, DecisionMoves, PersistMoves
<1>2. QED BY <1>1 DEF Next, vars, Revoke, Restart

LEMMA LockKept ==
  ASSUME TypeInv, LockInv, [Next]_vars
  PROVE  LockInv'
<1>1. CASE UNCHANGED op
  BY <1>1 DEF LockInv
<1>2. CASE op' = [t \in Threads |-> Idle]
  BY <1>2 DEF LockInv
<1>3. ASSUME NEW m \in Threads, Moves(m),
             NEW t \in Threads, NEW u \in Threads, op'[t] # Idle, op'[u] # Idle,
             op'[t].lock = op'[u].lock, op'[t].lock # "none", t # u
      PROVE  FALSE
  <2>1. \A w \in Threads \ {m} : KeptFields(w)
    BY <1>3, KeptType DEF Moves
  <2>2. \A w \in Threads \ {m} : op'[w] # Idle => op[w] # Idle /\ op'[w].lock = op[w].lock
    BY <2>1 DEF KeptFields
  <2>3. CASE op[m] # Idle
    BY <1>3, <2>2, <2>3 DEF Moves, LockInv
  <2>4. CASE op[m] = Idle
    <3>1. \A w \in Threads \ {m} : op'[w] # Idle /\ op'[m] # Idle => op'[w].lock # op'[m].lock
                                   \/ op'[m].lock = "none"
      BY <1>3, <2>2, <2>4 DEF Moves, Locked
    <3>2. QED BY <1>3, <2>2, <3>1 DEF LockInv
  <2>5. QED BY <2>3, <2>4
<1>4. QED BY <1>1, <1>2, <1>3, StepMoves DEF LockInv

-------------------------------------------------------------------------------
(* What is on the grant file at each step of a decision.                      *)

LEMMA IdlePc == Idle.pc = "idle"
BY DEF Idle

\* Whoever stores or audits a row holds decision_lock, alone.
LEMMA OneDecider ==
  ASSUME TypeInv, LockInv, NEW t \in Threads, op[t].pc \in {"save", "audit"}
  PROVE  /\ op[t] \in DecideRec /\ op[t] # Idle /\ op[t].lock = "decision_lock"
         /\ \A u \in Threads \ {t} : op[u].pc \notin {"save", "audit"}
<1>1. \A u \in Threads : op[u].pc \in {"save", "audit"} =>
        op[u] \in DecideRec /\ op[u] # Idle /\ op[u].lock = "decision_lock"
  BY OpByPc DEF TypeInv, DecideRec, Idle
<1>2. QED BY <1>1 DEF LockInv

\* Steps that leave the rows and whoever stores or audits one.
LEMMA RowsUntouched ==
  ASSUME TypeInv, GrantInv, UNCHANGED <<minted, store, grants, owed>>,
         \A t \in Threads : op[t].pc \in {"save", "audit"} \/ op'[t].pc \in {"save", "audit"}
                            => op'[t] = op[t]
  PROVE  GrantInv'
<1>1. SavingRows' = SavingRows
  BY DEF SavingRows
<1>2. /\ DurableRows(store)' = DurableRows(store) /\ DurableRows(grants)' = DurableRows(grants)
      /\ GrantIds' = GrantIds
  BY DEF DurableRows, GrantIds
<1>3. \A t \in Threads : op'[t].pc \in {"save", "audit"} =>
        op[t].pc = op'[t].pc /\ op'[t].row = op[t].row
  OBVIOUS
<1>4. \A t \in Threads : op'[t].pc # "save" => op[t].pc # "save"
  OBVIOUS
<1>5. QED BY <1>1, <1>2, <1>3, <1>4 DEF GrantInv

\* Another thread's step leaves whoever stores or audits a row.
LEMMA OthersDecide ==
  ASSUME TypeInv, NEW t \in Threads, \A u \in Threads \ {t} : Kept(u)
  PROVE  \A u \in Threads \ {t} :
           /\ op[u].pc \in {"save", "audit"} \/ op'[u].pc \in {"save", "audit"} => op'[u] = op[u]
           /\ op'[u].pc = op[u].pc
  BY KeptType DEF KeptFields

LEMMA DecideGrants ==
  ASSUME TypeInv, LockInv, GrantInv, NEW t \in Threads, NEW a \in Approvals,
         NEW choice \in Choices, Decide(t, a, choice), choice # "deny"
  PROVE  GrantInv'
<1>1. /\ MintedKept /\ Len(minted') \notin GrantIds
      /\ GrantIds' = GrantIds \cup {Len(minted')} /\ Len(minted') = Len(minted) + 1
      /\ minted'[Len(minted')] = [ask |-> a, kind |-> choice]
      /\ store' = (store \ Superseded(a, choice)) \cup {Len(minted')}
  BY DecideEffect
<1>2. UNCHANGED <<grants, owed>> /\ op[t] = Idle /\ ~Locked("decision_lock")
  BY DEF Decide, history
<1>3. /\ choice \in {"once", "always", "never"}
      /\ store \subseteq GrantIds /\ grants \subseteq GrantIds
  BY StoreAssumption DEF StoreAssumption, TypeInv, TypeOK
<1>4. PICK pc \in {"save", "audit"} :
        /\ pc = IF choice \in Durable THEN "save" ELSE "audit"
        /\ Step(t, [pc |-> pc, lock |-> "decision_lock", item |-> a, row |-> Len(minted')])
  BY <1>1 DEF Decide
<1>5. /\ op'[t] = [pc |-> pc, lock |-> "decision_lock", item |-> a, row |-> Len(minted')]
      /\ \A u \in Threads \ {t} : Kept(u)
  BY <1>4, ThreadStep
<1>6. op'[t].pc = pc /\ op'[t].row = Len(minted')
  BY <1>5
<1>7. \A u \in Threads : op[u].pc \notin {"save", "audit"}
  BY <1>2, OneDecider DEF Locked
<1>8. \A u \in Threads \ {t} : op'[u].pc \notin {"save", "audit"}
  BY <1>5, <1>7, OthersDecide
<1>9. minted'[Len(minted')].kind = choice
  BY <1>1
<1>10. \A g \in GrantIds : minted'[g] = minted[g]
  BY <1>1 DEF MintedKept
<1>11. SavingRows = {}
  BY <1>7 DEF SavingRows
<1>12. \A g \in DurableRows(store)' \ SavingRows' : g \in grants'
  <2>1. choice \in Durable => Len(minted') \in SavingRows'
    BY <1>4, <1>6 DEF SavingRows
  <2>2. \A g \in DurableRows(store)' : g # Len(minted') => g \in DurableRows(store)
    BY <1>1, <1>3, <1>10 DEF DurableRows
  <2>3. Len(minted') \in DurableRows(store)' => choice \in Durable
    BY <1>9 DEF DurableRows
  <2>4. QED BY <1>2, <1>11, <2>1, <2>2, <2>3 DEF GrantInv
<1>13. ASSUME op'[t].pc # "save", NEW g \in DurableRows(grants)' \ store'
       PROVE  g \in owed'
  <2>1. choice = "once"
    BY <1>3, <1>4, <1>6, <1>13 DEF Durable
  <2>2. g \in DurableRows(grants) /\ g \in GrantIds
    BY <1>2, <1>3, <1>10 DEF DurableRows
  <2>3. Source(minted[g].kind) # Source(choice)
    BY <2>1, <2>2 DEF DurableRows, Durable, Source
  <2>4. g \notin store
    BY <1>1, <1>13, <2>3 DEF Superseded
  <2>5. QED BY <1>2, <1>7, <2>2, <2>4 DEF GrantInv
<1>14. ASSUME NEW g \in grants' \ DurableRows(grants)'
       PROVE  \E h \in GrantIds' : h > g /\ minted'[h].kind = "always"
  <2>1. g \in grants \ DurableRows(grants)
    BY <1>2, <1>3, <1>10 DEF DurableRows
  <2>2. PICK h \in GrantIds : h > g /\ minted[h].kind = "always"
    BY <2>1 DEF GrantInv
  <2>3. QED BY <1>1, <1>10, <2>2
<1>15. \A u \in Threads :
         /\ op'[u].pc \in {"save", "audit"} => op'[u].row = Len(minted')
         /\ op'[u].pc = "save" => minted'[op'[u].row].kind \in Durable
         /\ op'[u].pc = "audit" => minted'[op'[u].row].kind \in {"once", "always"}
  <2>1. pc = "audit" => choice \in {"once", "always"}
    BY <1>3, <1>4 DEF Durable
  <2>2. QED BY <1>4, <1>6, <1>8, <1>9, <2>1
<1>16. QED BY <1>12, <1>13, <1>14, <1>15 DEF GrantInv

\* A row that is being stored or audited is the newest one.
LEMMA NewestRow ==
  ASSUME TypeInv, GrantInv, NEW t \in Threads, op[t].pc \in {"save", "audit"},
         op[t].row \in GrantIds, NEW g \in GrantIds, g # op[t].row
  PROVE  op[t].row > g
<1>1. op[t].row = Len(minted) /\ Len(minted) \in Nat /\ GrantIds = 1 .. Len(minted)
  BY LenProperties DEF GrantInv, TypeInv, TypeOK, GrantIds
<1>2. QED BY <1>1

LEMMA SaveGrants ==
  ASSUME TypeInv, LockInv, GrantInv, NEW t \in Threads, SaveRow(t) \/ AuditRow(t)
  PROVE  GrantInv'
<1>1. op[t].pc \in {"save", "audit"} /\ minted' = minted
  BY DEF SaveRow, AuditRow
<1>2. op[t] \in DecideRec /\ \A u \in Threads \ {t} : op[u].pc \notin {"save", "audit"}
  BY <1>1, OneDecider
<1>3. GrantIds' = GrantIds /\ op[t].row \in GrantIds
      /\ store \subseteq GrantIds /\ grants \subseteq GrantIds
  BY <1>1, <1>2 DEF GrantIds, DecideRec, TypeInv, TypeOK
<1>4. Done(t) \/ \E pc \in {"audit", "drop"} :
                   Step(t, [op[t] EXCEPT !.pc = pc]) /\ (pc = "audit" => op[t].pc = "save")
  BY DEF SaveRow, AuditRow
<1>5. \A u \in Threads \ {t} : Kept(u)
  BY <1>4, ThreadStep DEF Done
<1>6. \A u \in Threads \ {t} : op'[u].pc \notin {"save", "audit"}
  BY <1>2, <1>5, OthersDecide
<1>7. op'[t] = Idle \/ \E pc \in {"audit", "drop"} : op'[t] = [op[t] EXCEPT !.pc = pc]
  BY <1>4, ThreadStep DEF Done
<1>8. op'[t].pc # "save" /\ (op'[t].pc = "audit" => op'[t].row = op[t].row)
  BY <1>2, <1>7 DEF Idle, DecideRec
<1>9. SavingRows' = {}
  BY <1>6, <1>8 DEF SavingRows
<1>10. op'[t].pc = "audit" => op[t].pc = "save" /\ minted[op[t].row].kind = "always"
  <2>1. CASE SaveRow(t)
    <3>1. Done(t) \/ Step(t, [op[t] EXCEPT !.pc = "drop"])
          \/ (Step(t, [op[t] EXCEPT !.pc = "audit"]) /\ minted[op[t].row].kind = "always")
      BY <2>1 DEF SaveRow
    <3>2. op'[t] = Idle \/ op'[t] = [op[t] EXCEPT !.pc = "drop"]
          \/ minted[op[t].row].kind = "always"
      BY <3>1, ThreadStep DEF Done
    <3>3. [op[t] EXCEPT !.pc = "drop"].pc = "drop"
      BY <1>2 DEF DecideRec
    <3>4. op'[t].pc \in {"idle", "drop"} \/ minted[op[t].row].kind = "always"
      BY <3>2, <3>3, IdlePc
    <3>5. op[t].pc = "save"
      BY <2>1 DEF SaveRow
    <3>6. QED BY <3>4, <3>5
  <2>2. CASE AuditRow(t)
    <3>1. op'[t] = Idle \/ op'[t] = [op[t] EXCEPT !.pc = "drop"]
      BY <2>2, ThreadStep DEF AuditRow, Done
    <3>2. [op[t] EXCEPT !.pc = "drop"].pc = "drop"
      BY <1>2 DEF DecideRec
    <3>3. op'[t].pc \in {"idle", "drop"}
      BY <3>1, <3>2, IdlePc
    <3>4. QED BY <3>3
  <2>3. QED BY <2>1, <2>2
<1>11. \A u \in Threads :
         /\ op'[u].pc \in {"save", "audit"} => op'[u].row = Len(minted')
         /\ op'[u].pc = "save" => minted'[op'[u].row].kind \in Durable
         /\ op'[u].pc = "audit" => minted'[op'[u].row].kind \in {"once", "always"}
  <2>1. op[t].row = Len(minted)
    BY <1>1 DEF GrantInv
  <2>2. QED BY <1>1, <1>6, <1>8, <1>10, <2>1
<1>12. \A rows : DurableRows(rows)' = {g \in rows' : minted[g].kind \in Durable}
  BY <1>1 DEF DurableRows
<1>13. QED
  <2>1. CASE grants' = store' /\ owed' = {} /\ store' \subseteq store
             /\ minted[op[t].row].kind = "always"
    <3>1. \A g \in grants' \ DurableRows(grants)' : op[t].row > g
      <4>1. ASSUME NEW g \in grants' \ DurableRows(grants)'
            PROVE  g \in GrantIds /\ g # op[t].row
        BY <1>1, <1>3, <2>1 DEF DurableRows, Durable
      <4>2. QED BY <1>1, <1>3, <4>1, NewestRow
    <3>2. QED BY <1>1, <1>3, <1>11, <2>1, <3>1 DEF GrantInv, DurableRows
  <2>2. CASE grants' = DurableRows(store) /\ owed' = {} /\ store' = store
    BY <1>1, <1>11, <2>2 DEF GrantInv, DurableRows
  <2>3. CASE /\ grants' = grants /\ owed' = owed \cup (grants \ store')
             /\ store' = store \ {op[t].row}
    <3>1. DurableRows(store)' \subseteq grants
      <4>1. SavingRows \subseteq {op[t].row}
        BY <1>2 DEF SavingRows
      <4>2. QED BY <1>1, <2>3, <4>1 DEF GrantInv, DurableRows
    <3>2. \A g \in grants' \ DurableRows(grants)' :
            \E h \in GrantIds' : h > g /\ minted'[h].kind = "always"
      BY <1>1, <1>3, <2>3 DEF GrantInv, DurableRows
    <3>3. QED BY <1>11, <2>3, <3>1, <3>2 DEF GrantInv, DurableRows
  <2>4. CASE /\ op[t].pc = "audit" /\ UNCHANGED <<grants, owed>>
             /\ store' = store \/ (store' = store \ {op[t].row}
                                   /\ minted[op[t].row].kind # "always")
    <3>1. minted[op[t].row].kind \in {"once", "always"}
      BY <2>4 DEF GrantInv
    <3>2. \A u \in Threads : op[u].pc # "save"
      BY <1>2, <2>4
    <3>3. SavingRows = {}
      BY <3>2 DEF SavingRows
    <3>4. DurableRows(store)' \subseteq grants'
      BY <1>1, <2>4, <3>3 DEF GrantInv, DurableRows
    <3>5. DurableRows(grants)' \ store' \subseteq owed'
      <4>1. DurableRows(grants) \ store \subseteq owed
        BY <3>2 DEF GrantInv
      <4>2. DurableRows(grants)' \ store' \subseteq DurableRows(grants) \ store
        BY <1>1, <2>4, <3>1 DEF DurableRows, Durable
      <4>3. QED BY <2>4, <4>1, <4>2
    <3>6. \A g \in grants' \ DurableRows(grants)' :
            \E h \in GrantIds' : h > g /\ minted'[h].kind = "always"
      BY <1>1, <1>3, <2>4 DEF GrantInv, DurableRows
    <3>7. QED BY <1>11, <3>4, <3>5, <3>6 DEF GrantInv
  <2>5. CASE SaveRow(t)
    BY <2>1, <2>2, <2>3, <2>5 DEF SaveRow, Save, SaveFails, TrySaved, DurableSaved
  <2>6. CASE AuditRow(t)
    <3>1. \/ UNCHANGED <<store, grants, owed>>
          \/ /\ store' = store \ {op[t].row} /\ minted[op[t].row].kind = "always"
             /\ Save(store') \/ SaveFails(store')
          \/ /\ store' = store \ {op[t].row} /\ minted[op[t].row].kind # "always"
             /\ UNCHANGED <<grants, owed>>
      BY <2>6 DEF AuditRow, TrySaved
    <3>2. op[t].pc = "audit"
      BY <2>6 DEF AuditRow
    <3>3. QED BY <2>1, <2>3, <2>4, <3>1, <3>2 DEF Save, SaveFails
  <2>7. QED BY <2>5, <2>6

LEMMA GrantsKept ==
  ASSUME TypeInv, LockInv, GrantInv, [Next]_vars
  PROVE  GrantInv'
<1>1. CASE UNCHANGED vars
  <2>1. UNCHANGED <<minted, store, grants, owed>> /\ op' = op
    BY <1>1 DEF vars, memory, history
  <2>2. QED BY <2>1, RowsUntouched
<1>2. ASSUME NEW t \in Threads, Moves(t), UNCHANGED <<minted, store, grants, owed>>,
             op[t].pc \notin {"save", "audit"}, op'[t].pc \notin {"save", "audit"}
      PROVE  GrantInv'
  <2>1. \A u \in Threads \ {t} :
          op[u].pc \in {"save", "audit"} \/ op'[u].pc \in {"save", "audit"} => op'[u] = op[u]
    BY <1>2, OthersDecide DEF Moves
  <2>2. QED BY <1>2, <2>1, RowsUntouched
<1>3. Idle.pc = "idle"
  BY DEF Idle
<1>4. ASSUME NEW t \in Threads, Caller(t)
      PROVE  GrantInv'
  <2>1. UNCHANGED <<minted, store, grants, owed>>
    BY <1>4 DEF Caller, FileApproval, JoinApproval, FileQuestion, memory, history
  <2>2. /\ op[t].pc \notin {"save", "audit"} /\ op'[t].pc \notin {"save", "audit"} /\ Moves(t)
    BY <1>3, <1>4, CallerMoves
  <2>3. QED BY <1>2, <2>1, <2>2
<1>5. ASSUME NEW t \in Threads, NEW q \in Questions, Answer(t, q)
      PROVE  GrantInv'
  <2>1. UNCHANGED <<minted, store, grants, owed>> /\ op[t] = Idle
        /\ Step(t, [pc |-> "close", lock |-> "needs_resolve", item |-> q])
    BY <1>5 DEF Answer, memory, history
  <2>2. op'[t] = [pc |-> "close", lock |-> "needs_resolve", item |-> q]
    BY <2>1, ThreadStep
  <2>3. Moves(t)
    BY <1>5, PersonMoves DEF Person
  <2>4. QED BY <1>2, <1>3, <2>1, <2>2, <2>3
<1>6. ASSUME NEW t \in Threads, NEW a \in Approvals, NEW choice \in Choices,
             Decide(t, a, choice)
      PROVE  GrantInv'
  <2>1. CASE choice # "deny"
    BY <1>6, <2>1, DecideGrants
  <2>2. CASE choice = "deny"
    <3>1. UNCHANGED <<minted, store, grants, owed>> /\ op[t] = Idle
          /\ Step(t, [pc |-> "drop", lock |-> "decision_lock", item |-> a])
      BY <1>6, <2>2 DEF Decide, history
    <3>2. op'[t] = [pc |-> "drop", lock |-> "decision_lock", item |-> a]
      BY <3>1, ThreadStep
    <3>3. Moves(t)
      BY <1>6, PersonMoves DEF Person
    <3>4. QED BY <1>2, <1>3, <3>1, <3>2, <3>3
  <2>3. QED BY <2>1, <2>2
<1>7. ASSUME NEW t \in Threads, SaveRow(t) \/ AuditRow(t)
      PROVE  GrantInv'
  BY <1>7, SaveGrants
<1>8. ASSUME NEW t \in Threads, Drop(t) \/ Close(t)
      PROVE  GrantInv'
  <2>1. UNCHANGED <<minted, store, grants, owed>> /\ op[t].pc \notin {"save", "audit"}
    BY <1>8 DEF Drop, Close, history
  <2>2. op[t] \in AnswerRec \cup DenyRec \cup DecideRec
    BY <1>8, OpByPc DEF Drop, Close, TypeInv
  <2>3. [op[t] EXCEPT !.pc = "close"].pc = "close"
    BY <2>2 DEF AnswerRec, DenyRec, DecideRec
  <2>4. op'[t].pc \notin {"save", "audit"}
    <3>1. \E o : /\ o = Idle \/ o.pc = "filed" \/ o = [op[t] EXCEPT !.pc = "close"]
                 /\ Step(t, o) \/ op' = [Unsettled(op) EXCEPT ![t] = o]
      <4>1. [pc |-> "filed", lock |-> op[t].lock].pc = "filed"
        OBVIOUS
      <4>2. QED BY <1>8, <4>1 DEF Drop, Close, Done
    <3>2. QED BY <1>3, <2>3, <3>1, ThreadStep
  <2>5. Moves(t)
    BY <1>8, DecisionMoves DEF Decision
  <2>6. QED BY <1>2, <2>1, <2>4, <2>5
<1>9. ASSUME NEW t \in Threads, PersistQueue(t)
      PROVE  GrantInv'
  <2>1. UNCHANGED <<minted, store, grants, owed>>
    BY <1>9 DEF PersistQueue, CopyPending, CopyItems, OpenTmp, WriteTmp, Rename, RenameFails,
                Clean, SaveQueueFails, memory, history
  <2>2. QED BY <1>2, <1>9, <2>1, PersistMoves
<1>10. ASSUME NEW g \in store, Revoke(g)
       PROVE  GrantInv'
  <2>1. UNCHANGED <<minted, op>> /\ store' = store \ {g}
    BY <1>10 DEF Revoke
  <2>2. SavingRows' = SavingRows /\ GrantIds' = GrantIds
    BY <2>1 DEF SavingRows, GrantIds
  <2>3. CASE grants' = DurableRows(store') /\ owed' = {}
    BY <2>1, <2>2, <2>3 DEF GrantInv, DurableRows
  <2>4. CASE grants' = grants /\ owed' = owed \cup (grants \ store')
    BY <2>1, <2>2, <2>4 DEF GrantInv, DurableRows
  <2>5. QED BY <1>10, <2>3, <2>4 DEF Revoke, Save, SaveFails, DurableSaved
<1>11. CASE Restart
  <2>1. UNCHANGED <<minted, grants>> /\ store' = grants /\ owed' = {}
        /\ op' = [t \in Threads |-> Idle]
    BY <1>11 DEF Restart
  <2>2. \A t \in Threads : op'[t].pc \notin {"save", "audit"}
    BY <1>3, <2>1
  <2>3. GrantIds' = GrantIds
    BY <2>1 DEF GrantIds
  <2>4. QED BY <2>1, <2>2, <2>3 DEF GrantInv, DurableRows
<1>12. QED
  BY <1>1, <1>4, <1>5, <1>6, <1>7, <1>8, <1>9, <1>10, <1>11 DEF Next, Person, Decision

LEMMA GrantInvariance == Spec => [](TypeInv /\ LockInv /\ GrantInv)
<1>1. Init => LockInv /\ GrantInv
  BY DEF Init, LockInv, GrantInv, DurableRows, Idle, SavingRows
<1>2. TypeInv /\ TypeInv' /\ LockInv /\ GrantInv /\ [Next]_vars => LockInv' /\ GrantInv'
  BY LockKept, GrantsKept
<1>3. QED BY <1>1, <1>2, TypeInvariance, PTL DEF Spec

\* The grant file and the rows in force agree about durable rows, through any
\* number of decisions, revocations, failed saves and audits and restarts of
\* approve_pending and revoke_locked.
THEOREM GrantsSurvive == Spec => []GrantsFaithful
<1>1. ASSUME TypeInv, LockInv, GrantInv
      PROVE  GrantsFaithful
  <2>1. SavingRows \subseteq Deciding
    BY DEF SavingRows, Deciding
  <2>2. ~Locked("decision_lock") => \A t \in Threads : op[t].pc # "save"
    BY <1>1, OneDecider DEF Locked
  <2>3. QED BY <1>1, <2>1, <2>2 DEF GrantsFaithful, GrantInv
<1>2. QED BY <1>1, GrantInvariance, PTL

-------------------------------------------------------------------------------
(* The items that threads decide or close.                                    *)

\* The item of a thread that decides or closes it, and the lock that goes with it.
LEMMA DeciderItem ==
  ASSUME TypeInv, NEW t \in Threads, op[t].pc \in Deciders
  PROVE  /\ op[t] # Idle /\ op[t].item \in Items
         /\ op[t].item \in Approvals => op[t].lock = "decision_lock"
         /\ op[t].item \in Questions => op[t].lock = "needs_resolve"
<1>1. op[t] \in AnswerRec \cup DenyRec \cup DecideRec
  BY OpByPc DEF Deciders, TypeInv
<1>2. QED
  BY <1>1, IdlePc, StoreAssumption
     DEF StoreAssumption, Deciders, AnswerRec, DenyRec, DecideRec, Items

\* Steps of t that leave what the others decide.
LEMMA AskOthers ==
  ASSUME TypeInv, AskInv, NEW t \in Threads, \A u \in Threads \ {t} : Kept(u),
         pending' \subseteq pending, UNCHANGED item,
         op'[t].pc \in Deciders =>
           /\ item[op'[t].item] = "open"
           /\ op'[t].pc = "close" => op'[t].item \notin pending'
  PROVE  AskInv'
<1>1. \A u \in Threads \ {t} : op'[u].pc = op[u].pc /\ (op[u].pc \in Deciders => op'[u] = op[u])
  BY KeptType DEF KeptFields, Deciders
<1>2. QED BY <1>1 DEF AskInv, Deciders

LEMMA AsksKept ==
  ASSUME TypeInv, TypeInv', LockInv, AskInv, [Next]_vars
  PROVE  AskInv'
<1>1. CASE UNCHANGED vars
  BY <1>1 DEF vars, memory, AskInv, Deciders
<1>2. ASSUME NEW t \in Threads, Caller(t)
      PROVE  AskInv'
  <2>1. op'[t].pc = "filed" /\ \A u \in Threads \ {t} : Kept(u)
    BY <1>2, CallerMoves DEF Moves
  <2>2. \A u \in Threads : /\ op'[u].pc \in Deciders => op'[u] = op[u]
    BY <2>1, KeptType DEF KeptFields, Deciders
  <2>3. ASSUME NEW i \in Items, item[i] = "absent", item' = [item EXCEPT ![i] = "open"],
               pending' \subseteq pending \cup {i}
        PROVE  AskInv'
    <3>1. item \in [Items -> {"absent", "open", "closed"}] /\ pending \subseteq Items
      BY DEF TypeInv, TypeOK, Items
    <3>2. \A j \in Items : item[j] = "open" => item'[j] = "open" /\ j # i
      BY <2>3, <3>1
    <3>3. \A a \in pending' : item'[a] = "open"
      BY <2>3, <3>1, <3>2 DEF AskInv
    <3>4. \A u \in Threads : op'[u].pc \in Deciders =>
            /\ op[u].pc = op'[u].pc /\ op[u].item = op'[u].item
            /\ op'[u].item \in Items /\ item[op'[u].item] = "open"
      BY <2>2, DeciderItem DEF AskInv
    <3>5. QED BY <2>3, <3>2, <3>3, <3>4 DEF AskInv, Deciders
  <2>4. CASE UNCHANGED <<item, pending>>
    BY <2>1, <2>4, AskOthers DEF Deciders
  <2>5. QED BY <1>2, <2>3, <2>4 DEF Caller, FileApproval, JoinApproval, FileQuestion, Items, memory
<1>3. ASSUME NEW t \in Threads, NEW q \in Questions, Answer(t, q)
      PROVE  AskInv'
  <2>1. UNCHANGED <<item, pending>> /\ item[q] = "open"
        /\ Step(t, [pc |-> "close", lock |-> "needs_resolve", item |-> q])
    BY <1>3 DEF Answer, memory
  <2>2. /\ op'[t] = [pc |-> "close", lock |-> "needs_resolve", item |-> q]
        /\ \A u \in Threads \ {t} : Kept(u)
    BY <2>1, ThreadStep
  <2>3. q \notin pending
    BY StoreAssumption DEF StoreAssumption, TypeInv, TypeOK
  <2>4. QED BY <2>1, <2>2, <2>3, AskOthers
<1>4. ASSUME NEW t \in Threads, NEW a \in Approvals, NEW choice \in Choices,
             Decide(t, a, choice)
      PROVE  AskInv'
  <2>1. UNCHANGED <<item, pending>> /\ item[a] = "open"
    BY <1>4 DEF Decide, AskInv
  <2>2. PICK o : Step(t, o) /\ o.item = a /\ o.pc # "close"
    BY <1>4 DEF Decide
  <2>3. op'[t] = o /\ \A u \in Threads \ {t} : Kept(u)
    BY <2>2, ThreadStep
  <2>4. QED BY <2>1, <2>2, <2>3, AskOthers
<1>5. ASSUME NEW t \in Threads, SaveRow(t) \/ AuditRow(t) \/ Drop(t)
      PROVE  AskInv'
  <2>1. op[t] \in DenyRec \cup DecideRec /\ item[op[t].item] = "open"
    BY <1>5, OpByPc DEF SaveRow, AuditRow, Drop, TypeInv, AskInv, Deciders
  <2>2. PICK o : /\ Step(t, o)
                 /\ \/ o = Idle /\ pending' = pending
                    \/ (\E pc \in {"audit", "drop"} : o = [op[t] EXCEPT !.pc = pc])
                       /\ pending' = pending
                    \/ o = [op[t] EXCEPT !.pc = "close"] /\ pending' = pending \ {op[t].item}
    BY <1>5 DEF SaveRow, AuditRow, Drop, Done
  <2>3. \A pc : [op[t] EXCEPT !.pc = pc].pc = pc /\ [op[t] EXCEPT !.pc = pc].item = op[t].item
    BY <2>1 DEF DenyRec, DecideRec
  <2>4. /\ o.pc \in Deciders => o.item = op[t].item
        /\ o.pc = "close" => pending' = pending \ {op[t].item}
        /\ pending' \subseteq pending
    <3>1. CASE o = Idle /\ pending' = pending
      BY <3>1, IdlePc DEF Deciders
    <3>2. ASSUME NEW pc \in {"audit", "drop"}, o = [op[t] EXCEPT !.pc = pc], pending' = pending
          PROVE  o.pc = pc /\ o.item = op[t].item
      BY <2>3, <3>2
    <3>3. QED BY <2>2, <2>3, <3>1, <3>2
  <2>5. op'[t] = o /\ \A u \in Threads \ {t} : Kept(u)
    BY <2>2, ThreadStep
  <2>6. item' = item
    BY <1>5 DEF SaveRow, AuditRow, Drop
  <2>7. op'[t].pc = "close" => op'[t].item \notin pending'
    BY <2>4, <2>5 DEF Deciders
  <2>8. QED BY <2>1, <2>4, <2>5, <2>6, <2>7, AskOthers
<1>6. ASSUME NEW t \in Threads, Close(t)
      PROVE  AskInv'
  <2>1. op[t].pc = "close" /\ pending' = pending /\ item[op[t].item] = "open"
        /\ op[t].item \notin pending
    BY <1>6 DEF Close, AskInv, Deciders
  <2>2. PICK o \in {Idle, [pc |-> "filed", lock |-> op[t].lock]} :
          Step(t, o) \/ op' = [Unsettled(op) EXCEPT ![t] = o]
    BY <1>6 DEF Close, Done
  <2>3. op'[t].pc \in {"idle", "filed"} /\ \A u \in Threads \ {t} : Kept(u)
    BY <2>2, ThreadStep, IdlePc
  <2>4. CASE UNCHANGED item
    BY <2>1, <2>3, <2>4, AskOthers DEF Deciders
  <2>5. CASE item' = [item EXCEPT ![op[t].item] = "closed"]
    <3>1. item \in [Items -> {"absent", "open", "closed"}] /\ pending \subseteq Items
      BY DEF TypeInv, TypeOK, Items
    <3>2. \A i \in Items \ {op[t].item} : item'[i] = item[i]
      BY <2>5, <3>1
    <3>3. \A u \in Threads \ {t} : op'[u].pc = op[u].pc /\ (op[u].pc \in Deciders => op'[u] = op[u])
      BY <2>3, KeptType DEF KeptFields, Deciders
    <3>4. ASSUME NEW u \in Threads \ {t}, op[u].pc \in Deciders
          PROVE  op[u].item # op[t].item /\ op[u].item \in Items
      <4>1. op[t] # Idle /\ op[u] # Idle /\ op[t].item \in Approvals \cup Questions
            /\ op[u].item \in Items
        BY <2>1, <3>4, DeciderItem DEF Deciders, Items
      <4>2. op[t].item = op[u].item => op[t].lock = op[u].lock /\ op[t].lock # "none"
        BY <2>1, <3>4, <4>1, DeciderItem DEF Deciders
      <4>3. QED BY <4>1, <4>2 DEF LockInv
    <3>5. \A a \in pending' : item'[a] = "open"
      BY <2>1, <3>1, <3>2 DEF AskInv
    <3>6. \A u \in Threads : op'[u].pc \in Deciders =>
            /\ u # t /\ op[u].pc = op'[u].pc /\ op'[u].item = op[u].item
            /\ item'[op[u].item] = "open"
      BY <2>3, <3>2, <3>3, <3>4 DEF AskInv, Deciders
    <3>7. QED BY <2>1, <3>5, <3>6 DEF AskInv, Deciders
  <2>6. QED BY <1>6, <2>4, <2>5 DEF Close
<1>7. ASSUME NEW t \in Threads, PersistQueue(t)
      PROVE  AskInv'
  <2>1. UNCHANGED <<item, pending>>
    BY <1>7 DEF PersistQueue, CopyPending, CopyItems, OpenTmp, WriteTmp, Rename, RenameFails,
                Clean, SaveQueueFails, memory
  <2>2. op'[t].pc \notin Deciders /\ \A u \in Threads \ {t} : Kept(u)
    BY <1>7, PersistMoves DEF Moves, Deciders
  <2>3. QED BY <2>1, <2>2, AskOthers
<1>8. ASSUME NEW g \in store, Revoke(g)
      PROVE  AskInv'
  BY <1>8 DEF Revoke, AskInv, Deciders
<1>9. CASE Restart
  <2>1. /\ op' = [t \in Threads |-> Idle] /\ pending' = queue.items \cap Approvals
        /\ \A i \in Items : i \in queue.items => item'[i] = "open"
    BY <1>9 DEF Restart, RestoredAsks
  <2>2. QED BY <2>1, IdlePc DEF AskInv, Deciders, Items
<1>10. QED
  BY <1>1, <1>2, <1>3, <1>4, <1>5, <1>6, <1>7, <1>8, <1>9 DEF Next, Person, Decision

-------------------------------------------------------------------------------
(* The saves of the queue.                                                    *)

SavePcs == {"items", "open", "write", "rename", "clean"}

\* The step of t leaves the saves of others, or meets them and says so.
Leaves(t) ==
  \/ doubt' = doubt /\ \A u \in Threads \ {t} : op'[u] = op[u]
  \/ doubt' = TRUE /\ \A u \in Threads \ {t} : op'[u] = Unsettled(op)[u]

LEMMA SavingIs == ASSUME NEW t \in Threads PROVE Saving(t) <=> op[t].pc \in SavePcs
BY DEF Saving, Writing, SavePcs

LEMMA LeavesEffect ==
  ASSUME TypeInv, NEW t \in Threads, Leaves(t), NEW u \in Threads \ {t}
  PROVE  /\ op'[u].pc = op[u].pc
         /\ op[u].pc \in SavePcs /\ op'[u].alone => op'[u] = op[u]
         /\ ~doubt' => ~doubt /\ op'[u] = op[u]
         /\ op[u].pc \in Writing => op'[u].at = op[u].at /\ op'[u].items = op[u].items
         /\ op'[u] # op[u] => op[u].pc \in SavePcs /\ ~op'[u].alone
<1>1. op \in [Threads -> Op] /\ op[u] \in Op /\ doubt \in BOOLEAN
  BY DEF TypeInv, TypeOK
<1>2. CASE doubt' = doubt /\ op'[u] = op[u]
  BY <1>2
<1>3. ASSUME doubt' = TRUE, op'[u] = Unsettled(op)[u]
      PROVE  /\ op'[u].pc = op[u].pc
             /\ op[u].pc \in SavePcs /\ op'[u].alone => op'[u] = op[u]
             /\ ~doubt' => ~doubt /\ op'[u] = op[u]
             /\ op[u].pc \in Writing => op'[u].at = op[u].at /\ op'[u].items = op[u].items
             /\ op'[u] # op[u] => op[u].pc \in SavePcs /\ ~op'[u].alone
  <2>1. CASE op[u] \notin SaveRec
    <3>1. op'[u] = op[u]
      BY <1>1, <1>3, <2>1, UnsettledEffect
    <3>2. QED BY <1>3, <3>1
  <2>2. ASSUME op[u] \in SaveRec
        PROVE  /\ op'[u].pc = op[u].pc /\ op'[u].alone = FALSE /\ op[u].pc \in SavePcs
               /\ op[u].pc \in Writing => op'[u].at = op[u].at /\ op'[u].items = op[u].items
    <3>1. op'[u] = [op[u] EXCEPT !.alone = FALSE]
      BY <1>1, <1>3, <2>2, UnsettledEffect
    <3>2. op[u] \in WriteRec => op'[u].at = op[u].at /\ op'[u].items = op[u].items
      BY <3>1 DEF WriteRec
    <3>3. op[u].pc \in Writing => op[u] \in WriteRec
      BY <1>1, OpByPc DEF Writing
    <3>4. op'[u].pc = op[u].pc /\ op'[u].alone = FALSE /\ op[u].pc \in SavePcs
      BY <2>2, <3>1 DEF SaveRec, CopyRec, OpenRec, WriteRec, SavePcs
    <3>5. QED BY <3>2, <3>3, <3>4
  <2>3. QED BY <1>3, <2>1, <2>2
<1>4. QED BY <1>2, <1>3 DEF Leaves

\* Every step of a thread but the ones that remove or replace the temporary
\* file leaves the saves of others.
LEMMA StepLeaves ==
  ASSUME TypeInv, NEW t \in Threads,
         \/ Caller(t) \/ Person(t) \/ Decision(t)
         \/ CopyPending(t) \/ CopyItems(t) \/ OpenTmp(t) \/ WriteTmp(t) \/ SaveQueueFails(t)
         \/ RenameFails(t)
  PROVE  Leaves(t)
<1>1. /\ op \in [Threads -> Op] /\ Unsettled(op) \in [Threads -> Op]
  BY UnsettledEffect DEF TypeInv
<1>2. ASSUME NEW o, doubt' = doubt, Step(t, o)
      PROVE  Leaves(t)
  BY <1>1, <1>2 DEF Leaves, Step
<1>3. ASSUME NEW o, doubt' = TRUE, op' = [Unsettled(op) EXCEPT ![t] = o]
      PROVE  Leaves(t)
  BY <1>1, <1>3 DEF Leaves
<1>4. CASE Caller(t)
  BY <1>2, <1>4 DEF Caller, FileApproval, JoinApproval, FileQuestion, history
<1>5. CASE Person(t)
  <2>1. doubt' = doubt /\ \E o : Step(t, o)
    BY <1>5 DEF Person, Answer, Decide, history
  <2>2. QED BY <1>2, <2>1
<1>6. CASE Decision(t)
  <2>1. \/ doubt' = doubt /\ \E o : Step(t, o)
        \/ doubt' = TRUE /\ \E o : op' = [Unsettled(op) EXCEPT ![t] = o]
    BY <1>6 DEF Decision, SaveRow, AuditRow, Drop, Close, Done, history
  <2>2. QED BY <1>2, <1>3, <2>1
<1>7. CASE CopyPending(t)
  <2>1. \/ doubt' = doubt /\ \E o : Step(t, o)
        \/ doubt' = TRUE /\ \E o : op' = [Unsettled(op) EXCEPT ![t] = o]
    BY <1>7 DEF CopyPending
  <2>2. QED BY <1>2, <1>3, <2>1
<1>8. CASE CopyItems(t) \/ OpenTmp(t) \/ WriteTmp(t)
  <2>1. doubt' = doubt /\ \E o : Step(t, o)
    BY <1>8 DEF CopyItems, OpenTmp, WriteTmp, history
  <2>2. QED BY <1>2, <2>1
<1>9. CASE SaveQueueFails(t)
  BY <1>3, <1>9 DEF SaveQueueFails
<1>10. CASE RenameFails(t)
  BY <1>1, <1>10 DEF RenameFails, Leaves
<1>11. QED BY <1>4, <1>5, <1>6, <1>7, <1>8, <1>9, <1>10

\* A step that neither starts nor ends writing leaves who writes.
LEMMA WriterAside ==
  ASSUME TypeInv, WriterInv, NEW t \in Threads, Leaves(t),
         op[t].pc \notin Writing, op'[t].pc \notin Writing, UNCHANGED <<queue, tmp, shared>>
  PROVE  WriterInv'
<1>1. \A u \in Threads \ {t} :
        /\ op'[u].pc = op[u].pc
        /\ op[u].pc \in SavePcs /\ op'[u].alone => op'[u] = op[u]
        /\ op[u].pc \in Writing => op'[u].at = op[u].at /\ op'[u].items = op[u].items
  BY LeavesEffect
<1>2. \A u \in Threads : op'[u].pc \in Writing => u # t /\ op[u].pc = op'[u].pc
  BY <1>1
<1>3. ASSUME NEW u \in Threads, op'[u].pc \in Writing, op'[u].alone \/ ~shared'
      PROVE  /\ \A w \in Threads : w # u => op'[w].pc \notin Writing
             /\ op'[u].pc = "write" => op'[u].at = "tmp" /\ tmp' = Empty
             /\ op'[u].pc = "rename" => tmp' = Whole(op'[u].items)
  <2>1. /\ u # t /\ op[u].pc = op'[u].pc /\ (op[u].alone \/ ~shared)
        /\ op'[u].at = op[u].at /\ op'[u].items = op[u].items
    BY <1>1, <1>2, <1>3 DEF Writing, SavePcs
  <2>2. /\ \A w \in Threads : w # u => op[w].pc \notin Writing
        /\ op[u].pc = "write" => op[u].at = "tmp" /\ tmp = Empty
        /\ op[u].pc = "rename" => tmp = Whole(op[u].items)
    BY <1>3, <2>1 DEF WriterInv
  <2>3. QED BY <1>2, <2>1, <2>2
<1>4. QED BY <1>3 DEF WriterInv, Writing

\* A step that is not of a save leaves who saves alone and who writes.
LEMMA AsideKept ==
  ASSUME TypeInv, AloneInv, WriterInv, NEW t \in Threads, Leaves(t),
         op[t].pc \notin SavePcs, op'[t].pc \notin SavePcs, UNCHANGED <<queue, tmp, shared>>
  PROVE  AloneInv' /\ WriterInv'
<1>1. \A u \in Threads \ {t} :
        /\ op'[u].pc = op[u].pc
        /\ op[u].pc \in SavePcs /\ op'[u].alone => op'[u] = op[u]
        /\ ~doubt' => ~doubt /\ op'[u] = op[u]
        /\ op[u].pc \in Writing => op'[u].at = op[u].at /\ op'[u].items = op[u].items
  BY LeavesEffect
<1>2. \A u \in Threads : op'[u].pc \in SavePcs =>
        u # t /\ op[u].pc = op'[u].pc /\ (op'[u].alone => op[u].alone)
  BY <1>1
<1>3. AloneInv'
  <2>1. \A u, w \in Threads : op'[u].pc \in SavePcs /\ op'[w].pc \in SavePcs /\ op'[u].alone => u = w
    BY <1>2, SavingIs DEF AloneInv
  <2>2. \A u \in Threads : op'[u].pc = "clean" => ~op'[u].alone /\ shared'
    BY <1>2 DEF AloneInv, SavePcs
  <2>3. ~doubt' => \A u \in Threads : op'[u].pc \in SavePcs => op'[u].alone
    BY <1>1, <1>2, SavingIs DEF AloneInv
  <2>4. QED BY <2>1, <2>2, <2>3 DEF AloneInv, Saving, Writing, SavePcs
<1>4. WriterInv'
  BY WriterAside DEF Writing, SavePcs
<1>5. QED BY <1>3, <1>4

\* While something is owed a save, nothing is said of the copies.
LEMMA OwingFresh ==
  ASSUME NEW t \in Threads, op'[t].pc \in {"filed", "close"}
  PROVE  FreshInv'
BY DEF FreshInv, Owing

\* Copies stay as fresh as they are while nothing listed changes.
LEMMA AsideFresh ==
  ASSUME TypeInv, FreshInv, NEW t \in Threads, Leaves(t), UNCHANGED <<item, pending, queue>>,
         op[t].pc \notin SavePcs \cup {"filed", "close"}, op'[t].pc \notin SavePcs
  PROVE  FreshInv'
<1>1. \A u \in Threads \ {t} :
        /\ op'[u].pc = op[u].pc
        /\ op[u].pc \in SavePcs /\ op'[u].alone => op'[u] = op[u]
        /\ ~doubt' => ~doubt /\ op'[u] = op[u]
  BY LeavesEffect
<1>2. Listed' = Listed
  BY DEF Listed, Open
<1>3. ~Owing' => ~Owing
  BY <1>1 DEF Owing
<1>4. ASSUME NEW u \in Threads, op'[u].pc \in SavePcs, op'[u].alone, ~Owing'
      PROVE  /\ op'[u].pc = "items" => op'[u].pending = pending'
             /\ op'[u].pc \in {"open", "write", "rename"} => op'[u].items = Listed'
  <2>1. op'[u] = op[u]
    BY <1>1, <1>4
  <2>2. Saving(u) /\ op[u].alone /\ ~Owing
    BY <1>3, <1>4, <2>1, SavingIs
  <2>3. QED BY <1>2, <2>1, <2>2 DEF FreshInv
<1>5. ASSUME ~doubt', ~Owing', \A u \in Threads : op'[u].pc \notin SavePcs
      PROVE  queue'.items = Listed'
  <2>1. \A u \in Threads : ~Saving(u)
    BY <1>1, <1>5, SavingIs
  <2>2. (t \in Threads /\ Threads = {t}) \/ ~doubt
    BY <1>1, <1>5
  <2>3. ~doubt
    BY <1>5, <2>2 DEF Leaves
  <2>4. QED BY <1>2, <1>3, <1>5, <2>1, <2>3 DEF FreshInv
<1>6. QED BY <1>4, <1>5 DEF FreshInv, Saving, Writing, SavePcs

\* A thread that goes on with its save keeps who is alone.
LEMMA SaverGoesOn ==
  ASSUME TypeInv, AloneInv, NEW t \in Threads, NEW o, Step(t, o), op[t].pc \in SavePcs,
         o.pc \in SavePcs \ {"clean"}, o.alone = op[t].alone, doubt' = doubt, shared => shared'
  PROVE  AloneInv'
<1>1. op'[t] = o /\ \A u \in Threads \ {t} : op'[u] = op[u]
  BY DEF Step, TypeInv
<1>2. \A u \in Threads : op'[u].alone = op[u].alone /\ (op'[u].pc \in SavePcs <=> op[u].pc \in SavePcs)
                         /\ (op'[u].pc = "clean" => op[u].pc = "clean")
  BY <1>1
<1>3. /\ \A u, w \in Threads : op'[u].pc \in SavePcs /\ op'[w].pc \in SavePcs /\ op'[u].alone => u = w
      /\ \A u \in Threads : op'[u].pc = "clean" => ~op'[u].alone /\ shared'
      /\ ~doubt' => \A u \in Threads : op'[u].pc \in SavePcs => op'[u].alone
  BY <1>2, SavingIs DEF AloneInv
<1>4. QED BY <1>3 DEF AloneInv, Saving, Writing, SavePcs

\* Only the copies of a thread that saves alone matter.
LEMMA SaverFresh ==
  ASSUME NEW t \in Threads, AloneInv', op'[t].pc \in SavePcs,
         op'[t].alone /\ ~Owing' =>
           /\ op'[t].pc = "items" => op'[t].pending = pending'
           /\ op'[t].pc \in {"open", "write", "rename"} => op'[t].items = Listed'
  PROVE  FreshInv'
<1>1. \A u \in Threads : op'[u].pc \in SavePcs /\ op'[u].alone => u = t
  BY DEF AloneInv, Saving, Writing, SavePcs
<1>2. \A u \in Threads : op'[u].pc \in SavePcs /\ op'[u].alone /\ ~Owing' =>
        /\ op'[u].pc = "items" => op'[u].pending = pending'
        /\ op'[u].pc \in {"open", "write", "rename"} => op'[u].items = Listed'
  BY <1>1
<1>3. QED BY <1>2 DEF FreshInv, Saving, Writing, SavePcs

\* A save that ends takes the doubt with it only if nobody else saves.
LEMMA SaverEnds ==
  ASSUME TypeInv, AloneInv, NEW t \in Threads, op[t].pc \in SavePcs,
         op'[t] = Idle, \A u \in Threads \ {t} : Kept(u), shared' = shared,
         ~doubt' => \A u \in Threads \ {t} : op[u].pc \notin SavePcs,
         ~doubt' /\ ~Owing' => queue'.items = Listed'
  PROVE  AloneInv' /\ FreshInv'
<1>1. \A u \in Threads \ {t} :
        op'[u].pc = op[u].pc /\ (op[u].pc \in SavePcs /\ op'[u].alone => op[u].alone)
  BY KeptType, SavingIs DEF KeptFields
<1>2. \A u \in Threads : op'[u].pc \in SavePcs => u # t /\ op[u].pc = op'[u].pc
  BY <1>1, IdlePc DEF SavePcs
<1>3. \A u \in Threads : op'[u].pc \in SavePcs => ~op'[u].alone
  BY <1>1, <1>2, SavingIs DEF AloneInv
<1>4. \A u \in Threads : op'[u].pc = "clean" => shared'
  BY <1>2 DEF AloneInv, SavePcs
<1>5. ~doubt' => \A u \in Threads : op'[u].pc \notin SavePcs
  BY <1>2
<1>6. AloneInv'
  BY <1>3, <1>4, <1>5 DEF AloneInv, Saving, Writing, SavePcs
<1>7. FreshInv'
  BY <1>3 DEF FreshInv, Saving, Writing, SavePcs
<1>8. QED BY <1>6, <1>7

LEMMA CopyPendingKept ==
  ASSUME TypeInv, AloneInv, WriterInv, NEW t \in Threads, CopyPending(t)
  PROVE  AloneInv' /\ WriterInv' /\ FreshInv'
<1>1. Leaves(t) /\ op[t].pc = "filed" /\ UNCHANGED <<item, pending, queue, tmp, shared>>
  BY StepLeaves DEF CopyPending, memory
<1>2. \A u \in Threads \ {t} :
        /\ op'[u].pc = op[u].pc
        /\ op[u].pc \in SavePcs /\ op'[u].alone => op'[u] = op[u]
  BY <1>1, LeavesEffect
<1>3. PICK b \in BOOLEAN : b <=> \A u \in Threads \ {t} : ~Saving(u)
  OBVIOUS
<1>4. b = ({u \in Threads \ {t} : Saving(u)} = {})
  BY <1>3
<1>5. PICK o : /\ o = [pc |-> "items", lock |-> op[t].lock, alone |-> b, pending |-> pending]
               /\ b => Step(t, o) /\ UNCHANGED doubt
               /\ ~b => op' = [Unsettled(op) EXCEPT ![t] = o] /\ doubt' = TRUE
  BY <1>4 DEF CopyPending
<1>6. op'[t].pc = "items" /\ op'[t].alone = b /\ op'[t].pending = pending
  BY <1>5, ThreadStep
<1>7. ~b => \A u \in Threads \ {t} : op[u].pc \in SavePcs => ~op'[u].alone
  <2>1. SUFFICES ASSUME ~b, NEW u \in Threads \ {t}, op[u].pc \in SavePcs
                 PROVE  ~op'[u].alone
    OBVIOUS
  <2>2. op \in [Threads -> Op] /\ op[u] \in SaveRec
    BY <2>1, OpByPc DEF TypeInv, SavePcs, SaveRec
  <2>3. op'[u] = Unsettled(op)[u]
    BY <1>5, <2>1, <2>2, UnsettledEffect
  <2>4. op'[u] = [op[u] EXCEPT !.alone = FALSE]
    BY <2>2, <2>3, UnsettledEffect
  <2>5. QED BY <2>2, <2>4 DEF SaveRec, CopyRec, OpenRec, WriteRec
<1>8. \A u \in Threads : op'[u].pc \in SavePcs /\ op'[u].alone => u = t \/ (Saving(u) /\ op[u].alone)
  BY <1>2, SavingIs
<1>9. AloneInv'
  <2>1. \A u \in Threads \ {t} : op'[u].pc \in SavePcs => ~b /\ Saving(u)
    BY <1>2, <1>3, SavingIs
  <2>2. \A u, w \in Threads : op'[u].pc \in SavePcs /\ op'[w].pc \in SavePcs /\ op'[u].alone => u = w
    BY <1>2, <1>6, <1>7, <2>1
  <2>3. \A u \in Threads : op'[u].pc = "clean" => ~op'[u].alone /\ shared'
    BY <1>1, <1>2, <1>6 DEF AloneInv, SavePcs
  <2>4. ~doubt' => \A u \in Threads : op'[u].pc \in SavePcs => op'[u].alone
    BY <1>5, <1>6, <2>1
  <2>5. QED BY <2>2, <2>3, <2>4 DEF AloneInv, Saving, Writing, SavePcs
<1>10. WriterInv'
  BY <1>1, <1>6, WriterAside DEF Writing
<1>11. FreshInv'
  BY <1>1, <1>6, <1>9, SaverFresh DEF SavePcs
<1>12. QED BY <1>9, <1>10, <1>11

LEMMA CopyItemsKept ==
  ASSUME TypeInv, AloneInv, WriterInv, FreshInv, NEW t \in Threads, CopyItems(t)
  PROVE  AloneInv' /\ WriterInv' /\ FreshInv'
<1>1. Leaves(t) /\ op[t].pc = "items"
      /\ UNCHANGED <<item, pending, queue, tmp, shared, doubt>>
  BY StepLeaves DEF CopyItems, memory, history
<1>2. PICK o : /\ o.pc = "open" /\ o.alone = op[t].alone /\ Step(t, o)
               /\ o.items = {i \in Items : Open(i) /\ (i \in Questions \/ i \in op[t].pending)}
  <2>1. PICK o : /\ o = [pc |-> "open", lock |-> op[t].lock, alone |-> op[t].alone,
                         items |-> {i \in Items : Open(i) /\ (i \in Questions \/ i \in op[t].pending)}]
                 /\ Step(t, o)
    BY DEF CopyItems
  <2>2. QED BY <2>1
<1>3. op'[t] = o
  BY <1>2, ThreadStep
<1>4. AloneInv'
  BY <1>1, <1>2, SaverGoesOn DEF SavePcs
<1>5. WriterInv'
  BY <1>1, <1>2, <1>3, WriterAside DEF Writing
<1>6. ~Owing' => ~Owing
  <2>1. \A u \in Threads \ {t} : op'[u].pc = op[u].pc
    BY <1>1, LeavesEffect
  <2>2. QED BY <1>1, <2>1 DEF Owing
<1>7. op'[t].alone /\ ~Owing' => op'[t].items = Listed'
  BY <1>1, <1>2, <1>3, <1>6, SavingIs DEF FreshInv, Listed, SavePcs, Open
<1>8. FreshInv'
  BY <1>2, <1>3, <1>4, <1>7, SaverFresh DEF SavePcs
<1>9. QED BY <1>4, <1>5, <1>8

\* The copies of a thread that goes on writing are as fresh as they were.
LEMMA WriterFresh ==
  ASSUME TypeInv, FreshInv, AloneInv', NEW t \in Threads, NEW o, Step(t, o),
         UNCHANGED <<item, pending>>, op[t].pc \in {"open", "write"},
         o.pc \in {"write", "rename"}, o.items = op[t].items, o.alone = op[t].alone
  PROVE  FreshInv'
<1>1. op'[t] = o /\ \A u \in Threads \ {t} : op'[u] = op[u]
  BY DEF Step, TypeInv
<1>2. ~Owing' => ~Owing
  BY <1>1 DEF Owing
<1>3. op'[t].alone /\ ~Owing' => op'[t].items = Listed'
  BY <1>1, <1>2, SavingIs DEF FreshInv, Listed, Open, SavePcs
<1>4. QED BY <1>1, <1>3, SaverFresh DEF SavePcs

LEMMA OpenTmpKept ==
  ASSUME TypeInv, AloneInv, WriterInv, FreshInv, NEW t \in Threads, OpenTmp(t)
  PROVE  AloneInv' /\ WriterInv' /\ FreshInv'
<1>1. /\ op[t].pc = "open" /\ UNCHANGED <<item, pending, queue, doubt>> /\ tmp' = Empty
      /\ shared' <=> (shared \/ \E u \in Threads : op[u].pc \in Writing)
  BY DEF OpenTmp, memory
<1>2. PICK o : /\ o.pc = "write" /\ o.alone = op[t].alone /\ Step(t, o)
               /\ o.items = op[t].items /\ o.at = "tmp"
  BY DEF OpenTmp
<1>3. op'[t] = o /\ \A u \in Threads \ {t} : op'[u] = op[u]
  BY <1>2 DEF Step, TypeInv
<1>4. AloneInv'
  BY <1>1, <1>2, SaverGoesOn DEF SavePcs
<1>5. FreshInv'
  BY <1>1, <1>2, <1>4, WriterFresh
<1>6. ASSUME NEW u \in Threads, op'[u].pc \in Writing, op'[u].alone \/ ~shared'
      PROVE  u = t /\ \A w \in Threads \ {t} : op'[w].pc \notin Writing
  <2>1. Saving(t) /\ \A w \in Threads : op[w].pc \in Writing => Saving(w)
    BY <1>1 DEF Saving, Writing
  <2>2. CASE ~shared'
    BY <1>1, <1>3, <1>6, <2>2
  <2>3. CASE op'[u].alone
    BY <1>2, <1>3, <1>6, <2>1, <2>3 DEF AloneInv
  <2>4. QED BY <1>6, <2>2, <2>3
<1>7. WriterInv'
  <2>1. ~shared' => queue'.state \notin {"broken", "empty"}
    BY <1>1 DEF WriterInv
  <2>2. QED BY <1>1, <1>2, <1>3, <1>6, <2>1 DEF WriterInv, Writing
<1>8. QED BY <1>4, <1>5, <1>7

LEMMA WriteTmpKept ==
  ASSUME TypeInv, AloneInv, WriterInv, FreshInv, NEW t \in Threads, WriteTmp(t)
  PROVE  AloneInv' /\ WriterInv' /\ FreshInv'
<1>1. /\ op[t] \in WriteRec /\ op[t].pc = "write"
      /\ UNCHANGED <<item, pending, doubt, shared>>
  BY OpByPc DEF WriteTmp, TypeInv, memory, history
<1>2. PICK o : /\ o.pc = "rename" /\ o.alone = op[t].alone /\ Step(t, o)
               /\ o.items = op[t].items
  BY <1>1 DEF WriteTmp, WriteRec
<1>3. op'[t] = o /\ \A u \in Threads \ {t} : op'[u] = op[u]
  BY <1>2 DEF Step, TypeInv
<1>4. AloneInv'
  BY <1>1, <1>2, SaverGoesOn DEF SavePcs
<1>5. FreshInv'
  BY <1>1, <1>2, <1>4, WriterFresh
<1>6. op[t].alone \/ ~shared => tmp' = Whole(op[t].items) /\ queue' = queue
  BY <1>1 DEF WriteTmp, WriterInv, Written, Writing
<1>7. WriterInv'
  <2>1. ~shared' => queue'.state \notin {"broken", "empty"}
    BY <1>1, <1>6 DEF WriterInv
  <2>2. ASSUME NEW u \in Threads, op'[u].pc \in Writing, op'[u].alone \/ ~shared'
        PROVE  u = t
    BY <1>1, <1>3, <2>2 DEF WriterInv, Writing
  <2>3. \A w \in Threads \ {t} : op'[w].pc \in Writing => op[w].pc \in Writing
    BY <1>3
  <2>4. op'[t].alone \/ ~shared' => \A w \in Threads \ {t} : op'[w].pc \notin Writing
    BY <1>1, <1>2, <1>3, <2>3 DEF WriterInv, Writing
  <2>5. QED BY <1>1, <1>2, <1>3, <1>6, <2>1, <2>2, <2>4 DEF WriterInv
<1>8. QED BY <1>4, <1>5, <1>7

\* The other writers, when one of them ends or goes on to clean up: none was alone.
LEMMA WriterEnds ==
  ASSUME TypeInv, WriterInv, NEW t \in Threads, op[t].pc \in Writing,
         op'[t].pc \notin Writing, \A u \in Threads \ {t} : Kept(u), shared' = shared,
         ~shared => queue'.state \notin {"broken", "empty"}
  PROVE  WriterInv'
<1>1. \A u \in Threads \ {t} :
        op'[u].pc = op[u].pc /\ (op[u].pc \in Writing /\ op'[u].alone => op[u].alone)
  BY KeptType DEF KeptFields, Saving
<1>2. \A u \in Threads : op'[u].pc \in Writing => ~(op'[u].alone \/ ~shared')
  <2>1. SUFFICES ASSUME NEW u \in Threads, op'[u].pc \in Writing, op'[u].alone \/ ~shared'
                 PROVE  FALSE
    OBVIOUS
  <2>2. u # t /\ op[u].pc \in Writing /\ (op[u].alone \/ ~shared)
    BY <1>1, <2>1
  <2>3. QED BY <2>2 DEF WriterInv
<1>3. QED BY <1>2 DEF WriterInv, Writing

LEMMA RenameKept ==
  ASSUME TypeInv, AloneInv, WriterInv, FreshInv, NEW t \in Threads, Rename(t)
  PROVE  AloneInv' /\ WriterInv' /\ FreshInv'
<1>1. /\ op[t].pc = "rename" /\ UNCHANGED <<item, pending, shared>> /\ queue' = tmp
      /\ doubt' = (doubt /\ ~op[t].alone)
  BY DEF Rename, memory, Settled
<1>2. op'[t] = Idle /\ \A u \in Threads \ {t} : Kept(u)
  BY ThreadStep DEF Rename
<1>3. op[t].pc \in SavePcs /\ op[t].pc \in Writing /\ Saving(t)
  BY <1>1 DEF SavePcs, Writing, Saving
<1>4. ~doubt' => op[t].alone
  BY <1>1, <1>3 DEF AloneInv
<1>5. ~doubt' => \A u \in Threads \ {t} : op[u].pc \notin SavePcs
  BY <1>3, <1>4, SavingIs DEF AloneInv
<1>6. op[t].alone \/ ~shared => tmp = Whole(op[t].items)
  BY <1>1, <1>3 DEF WriterInv
<1>7. ~doubt' /\ ~Owing' => queue'.items = Listed'
  <2>1. ~Owing' => ~Owing
    <3>1. \A u \in Threads \ {t} : op'[u].pc = op[u].pc
      BY <1>2, KeptType DEF KeptFields
    <3>2. QED BY <1>1, <3>1 DEF Owing
  <2>2. op[t].alone /\ ~Owing => op[t].items = Listed
    BY <1>1, <1>3 DEF FreshInv
  <2>3. Listed' = Listed
    BY <1>1 DEF Listed, Open
  <2>4. QED BY <1>1, <1>4, <1>6, <2>1, <2>2, <2>3 DEF Whole
<1>8. AloneInv' /\ FreshInv'
  BY <1>1, <1>2, <1>3, <1>5, <1>7, SaverEnds
<1>9. WriterInv'
  <2>1. ~shared => queue'.state \notin {"broken", "empty"}
    BY <1>1, <1>6 DEF Whole
  <2>2. QED BY <1>1, <1>2, <1>3, <2>1, IdlePc, WriterEnds DEF Writing
<1>10. QED BY <1>8, <1>9

LEMMA RenameFailsKept ==
  ASSUME TypeInv, AloneInv, WriterInv, NEW t \in Threads, RenameFails(t)
  PROVE  AloneInv' /\ WriterInv' /\ FreshInv'
<1>1. /\ op[t].pc = "rename" /\ UNCHANGED <<item, pending, queue, shared>> /\ tmp = Absent
      /\ doubt' = TRUE
  BY DEF RenameFails, memory
<1>2. /\ op[t] \in WriteRec /\ op'[t] = [op[t] EXCEPT !.alone = FALSE, !.pc = "clean"]
      /\ \A u \in Threads \ {t} : Kept(u)
  BY RenameFailsEffect
<1>3. op'[t].pc = "clean" /\ ~op'[t].alone
  BY <1>2 DEF WriteRec
<1>4. op[t].pc \in Writing /\ Saving(t)
  BY <1>1 DEF Writing, Saving
<1>5. shared /\ ~op[t].alone
  BY <1>1, <1>4 DEF WriterInv, Whole, Absent
<1>6. \A u \in Threads \ {t} :
        op'[u].pc = op[u].pc /\ (Saving(u) /\ op'[u].alone => op[u].alone)
  BY <1>2, KeptType DEF KeptFields
<1>7. \A u \in Threads : op'[u].pc \in SavePcs => ~op'[u].alone
  BY <1>3, <1>4, <1>6, SavingIs DEF AloneInv
<1>8. AloneInv'
  BY <1>1, <1>5, <1>7 DEF AloneInv, Saving, Writing, SavePcs
<1>9. FreshInv'
  BY <1>3, <1>8, SaverFresh DEF SavePcs
<1>10. WriterInv'
  BY <1>1, <1>2, <1>3, <1>4, <1>5, WriterEnds DEF Writing
<1>11. QED BY <1>8, <1>9, <1>10

LEMMA CleanKept ==
  ASSUME TypeInv, AloneInv, WriterInv, NEW t \in Threads, Clean(t)
  PROVE  AloneInv' /\ WriterInv' /\ FreshInv'
<1>1. op[t].pc = "clean" /\ UNCHANGED <<item, pending, queue, shared, doubt>>
  BY DEF Clean, memory, history
<1>2. op'[t] = Idle /\ \A u \in Threads \ {t} : Kept(u)
  BY CleanEffect
<1>3. op[t].pc \in SavePcs /\ Saving(t) /\ ~op[t].alone /\ shared /\ doubt
  BY <1>1 DEF SavePcs, Saving, AloneInv
<1>4. doubt'
  BY <1>1, <1>3
<1>5. AloneInv' /\ FreshInv'
  BY <1>1, <1>2, <1>3, <1>4, SaverEnds
<1>6. \A u \in Threads : op'[u].pc \in Writing => Saving(u) /\ u # t /\ (op'[u].alone => op[u].alone)
  <2>1. op'[t].pc \notin Writing
    BY <1>2, IdlePc DEF Writing
  <2>2. QED BY <1>2, <2>1, KeptType DEF KeptFields, Saving
<1>7. \A u \in Threads : op'[u].pc \in Writing => ~op'[u].alone
  BY <1>3, <1>6 DEF AloneInv
<1>8. WriterInv'
  BY <1>1, <1>3, <1>7 DEF WriterInv, Writing
<1>9. QED BY <1>5, <1>8

LEMMA SaveQueueFailsKept ==
  ASSUME TypeInv, AloneInv, WriterInv, NEW t \in Threads, SaveQueueFails(t)
  PROVE  AloneInv' /\ WriterInv' /\ FreshInv'
<1>1. /\ op[t].pc \in {"open", "write"} /\ UNCHANGED <<item, pending, shared>> /\ doubt'
  BY DEF SaveQueueFails, memory
<1>2. op'[t] = Idle /\ \A u \in Threads \ {t} : Kept(u)
  BY ThreadStep DEF SaveQueueFails
<1>3. AloneInv' /\ FreshInv'
  BY <1>1, <1>2, SaverEnds DEF SavePcs
<1>4. CASE op[t].pc = "open"
  <2>1. UNCHANGED <<tmp, queue>>
    BY <1>4 DEF SaveQueueFails
  <2>2. QED BY <1>1, <1>2, <1>3, <1>4, <2>1, IdlePc, StepLeaves, WriterAside DEF Writing
<1>5. CASE op[t].pc = "write"
  <2>1. ~shared => queue'.state \notin {"broken", "empty"}
    BY <1>5 DEF SaveQueueFails, WriterInv, Writing
  <2>2. QED BY <1>1, <1>2, <1>3, <1>5, <2>1, IdlePc, WriterEnds DEF Writing
<1>6. QED BY <1>1, <1>4, <1>5

\* What callers, people and decisions do besides saving the queue.
LEMMA AsideStep ==
  ASSUME TypeInv, AskInv, AloneInv, WriterInv, FreshInv, NEW t \in Threads,
         Caller(t) \/ Person(t) \/ Decision(t)
  PROVE  AloneInv' /\ WriterInv' /\ FreshInv'
<1>1. Leaves(t) /\ UNCHANGED <<queue, tmp, shared>>
  <2>1. UNCHANGED <<queue, tmp, shared>>
    BY DEF Caller, Person, Decision, FileApproval, JoinApproval, FileQuestion, Answer, Decide,
           SaveRow, AuditRow, Drop, Close, history
  <2>2. QED BY <2>1, StepLeaves
<1>2. op[t].pc \in {"idle"} \cup Deciders
  BY CallerMoves, PersonMoves, DecisionMoves, IdlePc
<1>3. ASSUME op'[t].pc \in {"filed", "close"}
      PROVE  AloneInv' /\ WriterInv' /\ FreshInv'
  BY <1>1, <1>2, <1>3, AsideKept, OwingFresh DEF SavePcs, Deciders
<1>4. ASSUME op'[t].pc \in {"idle", "save", "audit", "drop"},
             op[t].pc \in {"idle", "save", "audit"}, UNCHANGED <<item, pending>>
      PROVE  AloneInv' /\ WriterInv' /\ FreshInv'
  BY <1>1, <1>4, AsideKept, AsideFresh DEF SavePcs
<1>5. CASE Caller(t)
  BY <1>3, <1>5, CallerMoves
<1>6. CASE Person(t)
  <2>1. op'[t].pc \in Deciders /\ op[t] = Idle /\ UNCHANGED <<item, pending>>
    BY <1>6, PersonMoves DEF Person, Answer, Decide, memory
  <2>2. QED BY <1>3, <1>4, <2>1, IdlePc DEF Deciders
<1>7. CASE SaveRow(t) \/ AuditRow(t)
  <2>1. op[t] \in DecideRec /\ op[t].pc \in {"save", "audit"} /\ UNCHANGED <<item, pending>>
    BY <1>7, OpByPc DEF SaveRow, AuditRow, TypeInv
  <2>2. \A pc : [op[t] EXCEPT !.pc = pc].pc = pc
    BY <2>1 DEF DecideRec
  <2>3. PICK o : /\ Step(t, o)
                 /\ o = Idle \/ \E pc \in {"audit", "drop"} : o = [op[t] EXCEPT !.pc = pc]
    BY <1>7 DEF SaveRow, AuditRow, Done
  <2>4. o.pc \in {"idle", "audit", "drop"} /\ op'[t] = o
    BY <2>2, <2>3, IdlePc, ThreadStep
  <2>5. QED BY <1>4, <2>1, <2>4
<1>8. CASE Drop(t)
  <2>1. op[t] \in DenyRec \cup DecideRec /\ Step(t, [op[t] EXCEPT !.pc = "close"])
    BY <1>8, OpByPc DEF Drop, TypeInv
  <2>2. op'[t].pc = "close"
    BY <2>1, ThreadStep DEF DenyRec, DecideRec
  <2>3. QED BY <1>3, <2>2
<1>9. CASE Close(t)
  <2>1. op[t].pc = "close" /\ item[op[t].item] = "open"
    BY <1>9 DEF Close, AskInv, Deciders
  <2>2. CASE Step(t, [pc |-> "filed", lock |-> op[t].lock])
    <3>1. op'[t] = [pc |-> "filed", lock |-> op[t].lock]
      BY <2>2, ThreadStep
    <3>2. QED BY <1>3, <3>1
  <2>3. CASE op' = [Unsettled(op) EXCEPT ![t] = Idle] /\ doubt' = TRUE
    <3>1. op'[t].pc = "idle" /\ op \in [Threads -> Op] /\ Unsettled(op) \in [Threads -> Op]
      BY <2>3, ThreadStep, IdlePc, UnsettledEffect DEF TypeInv
    <3>2. \A u \in Threads : op'[u].pc \in SavePcs => ~op'[u].alone
      <4>1. SUFFICES ASSUME NEW u \in Threads, op'[u].pc \in SavePcs
                     PROVE  ~op'[u].alone
        OBVIOUS
      <4>2. u # t /\ op[u].pc \in SavePcs
        BY <1>1, <3>1, <4>1, LeavesEffect DEF SavePcs
      <4>3. op'[u] = Unsettled(op)[u] /\ op[u] \in SaveRec
        BY <2>3, <3>1, <4>2, OpByPc DEF SavePcs, SaveRec
      <4>4. op'[u] = [op[u] EXCEPT !.alone = FALSE]
        BY <3>1, <4>3, UnsettledEffect
      <4>5. QED BY <4>3, <4>4 DEF SaveRec, CopyRec, OpenRec, WriteRec
    <3>3. FreshInv'
      BY <2>3, <3>2 DEF FreshInv, Saving, Writing, SavePcs
    <3>4. QED BY <1>1, <2>1, <3>1, <3>3, AsideKept DEF SavePcs
  <2>4. QED BY <1>9, <2>1, <2>2, <2>3 DEF Close
<1>10. QED BY <1>5, <1>6, <1>7, <1>8, <1>9 DEF Decision

LEMMA RestartKept ==
  ASSUME TypeInv, Restart
  PROVE  AloneInv' /\ WriterInv' /\ FreshInv'
<1>1. \A t \in Threads : op'[t].pc = "idle"
  BY IdlePc DEF Restart
<1>2. queue \in FileText /\ queue.items \subseteq Items
  BY DEF TypeInv, TypeOK, File
<1>3. queue.state \in {"broken", "empty"} => queue.items = {}
  BY <1>2 DEF FileText, Whole, Absent, Broken, Empty
<1>4. queue'.items = queue.items /\ queue'.state \notin {"broken", "empty"}
  <2>1. CASE queue.state \in {"broken", "empty"}
    BY <1>3, <2>1 DEF Restart, Whole
  <2>2. CASE queue.state \notin {"broken", "empty"}
    BY <2>2 DEF Restart
  <2>3. QED BY <2>1, <2>2
<1>5. Listed' = queue.items
  <2>1. /\ pending' = queue.items \cap Approvals
        /\ \A i \in Items : item'[i] = "open" <=> i \in queue.items
    BY DEF Restart, RestoredAsks
  <2>2. QED BY <1>2, <2>1 DEF Listed, Open, Items
<1>6. AloneInv' /\ WriterInv'
  BY <1>1, <1>4 DEF AloneInv, WriterInv, Saving, Writing
<1>7. FreshInv'
  BY <1>1, <1>4, <1>5 DEF FreshInv, Saving, Writing
<1>8. QED BY <1>6, <1>7

LEMMA SavesKept ==
  ASSUME TypeInv, AskInv, AloneInv, WriterInv, FreshInv, [Next]_vars
  PROVE  AloneInv' /\ WriterInv' /\ FreshInv'
<1>1. CASE UNCHANGED <<item, pending, op, queue, tmp, doubt, shared>>
  BY <1>1 DEF AloneInv, WriterInv, FreshInv, Saving, Owing, Listed, Open
<1>2. ASSUME NEW t \in Threads, PersistQueue(t)
      PROVE  AloneInv' /\ WriterInv' /\ FreshInv'
  BY <1>2, CopyPendingKept, CopyItemsKept, OpenTmpKept, WriteTmpKept, RenameKept,
     RenameFailsKept, CleanKept, SaveQueueFailsKept DEF PersistQueue
<1>3. UNCHANGED vars \/ (\E g \in store : Revoke(g)) =>
        UNCHANGED <<item, pending, op, queue, tmp, doubt, shared>>
  BY DEF vars, memory, history, Revoke
<1>4. QED BY <1>1, <1>2, <1>3, AsideStep, RestartKept DEF Next

LEMMA StoreInvariance == Spec => []IInv
<1>1. Init => AskInv /\ AloneInv /\ WriterInv /\ FreshInv
  <2>1. SUFFICES ASSUME Init
                 PROVE  AskInv /\ AloneInv /\ WriterInv /\ FreshInv
    OBVIOUS
  <2>2. /\ \A t \in Threads : op[t].pc = "idle"
        /\ queue = Absent /\ pending = {} /\ item = [i \in Items |-> "absent"]
    BY <2>1, IdlePc DEF Init
  <2>3. Listed = {}
    BY <2>2 DEF Listed, Open
  <2>4. QED BY <2>2, <2>3 DEF AskInv, AloneInv, WriterInv, FreshInv, Deciders, Saving, Writing,
                             Absent
<1>2. TypeInv /\ TypeInv' /\ LockInv /\ AskInv /\ AloneInv /\ WriterInv /\ FreshInv /\ [Next]_vars
        => AskInv' /\ AloneInv' /\ WriterInv' /\ FreshInv'
  BY AsksKept, SavesKept
<1>3. QED BY <1>1, <1>2, GrantInvariance, PTL DEF Spec, IInv

\* The queue file says what the host would list once nothing is under way and
\* no write failed and no saves met, and its seal breaks only if two saves had
\* needs-you.tmp open together: for any number of threads saving at once
\* (persist_queue, save, write_private), any failures and restarts between any
\* two of their steps.
THEOREM QueueSurvives == Spec => []QueueFaithful
<1>1. ASSUME IInv
      PROVE  QueueFaithful
  <2>1. Quiet => ~Owing /\ \A t \in Threads : ~Saving(t)
    BY IdlePc DEF Quiet, Owing, Saving, Writing
  <2>2. QED BY <1>1, <2>1 DEF IInv, FreshInv, WriterInv, QueueFaithful
<1>2. QED BY <1>1, StoreInvariance, PTL
=============================================================================
