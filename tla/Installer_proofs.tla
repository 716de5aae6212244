--------------------------- MODULE Installer_proofs ---------------------------
(***************************************************************************)
(* Proofs about the installer, for every number of processes, versions and *)
(* integration paths, of starts, crashes and edits.                        *)
(*                                                                         *)
(* TypeInv has the shapes, with what each step of an operation finds in    *)
(* its record (Placed), and is inductive alone: an XIs lemma says what     *)
(* action X does to the state, in fields and paths, and that it keeps      *)
(* TypeInv.  It is enough for TypeOK.                                      *)
(*                                                                         *)
(* WorkInv adds what the disk is like (DiskInv) and what each process has  *)
(* achieved (Phase).  It is inductive while one process works at a time    *)
(* (Apart): an XKeeps lemma says that X keeps it.  SharedInv, from the     *)
(* integration lock, and the hypothesis LaunchersApart give Apart.  The    *)
(* three invariants follow, and with the lemmas XPromised the refinement   *)
(* of Installation.  LateInv adds what a process that has looked at a path *)
(* still knows of it, as long as nobody edits it, for ForeignContentKept.  *)
(***************************************************************************)
EXTENDS Installer, FiniteSetTheorems, SequenceTheorems, TLAPS

Plain == Files \cup Profiles
AnyPlace == UNION {Places(q) : q \in Paths}
Chg(s) == {s[i] : i \in DOMAIN s}
Reaches(s) == {c.path : c \in Chg(s)}
Distinct(s) == \A i, j \in DOMAIN s : s[i].path = s[j].path => i = j

\* What a transaction may do to a path, and a removal.
TxChange ==
  {c \in [path: Paths, before: AnyPlace, after: AnyPlace] :
     IF c.path \in Profiles
     THEN c.before \in ProfileTexts /\ c.after \in ProfileTexts /\ c.after.block = "yes"
     ELSE c.after \in Versions /\ c.before \in Contents}
RemovalChange == [path: Files \cup Bundles, before: Versions, after: {"absent"}]
StripChange == {c \in [path: Profiles, before: ProfileTexts, after: ProfileTexts] :
                  c.after.block = "no"}
Tasks == TxChange \cup RemovalChange \cup StripChange
Tx == [before: Receipts \cup {None}, after: Receipts, changes: Seq(TxChange)]

\* Where a process stands.
Between  == {"ready", "prepare", "copy", "journal", "finish"}
Removing == {"unregister", "strip", "remove", "delete", "bundle", "generation"}
Forward  == {"apply", "swap", "verify", "commit"}
Backward == {"undo", "put", "clear", "tear", "restore", "undone"}
Outside  == {"idle", "lock", "shared", "unlink"}
Listed   == {"apply", "swap", "undo", "put", "clear", "tear", "restore"}
Steps    == Between \cup Removing \cup Forward \cup Backward \cup Outside \cup {"locked"}

\* What a process has at each step.
OpRecord ==
  [kind: Activating \cup {"register", "uninstall", "launch"}, pc: Steps,
   target: Versions \cup {None}, base: Versions \cup {None}, modify: BOOLEAN,
   todo: Seq(Tasks), tx: Tx \cup {None}, then: {"stop", "go"}]

Placed(o) ==
  /\ o.kind \in Activating \/ o.pc = "generation" => o.target \in Versions
  /\ o.pc \in {"prepare", "verify", "finish"} => o.kind \in Activating
  /\ o.pc \in {"copy", "journal"} \cup Forward => o.kind \in Activating \cup {"register"}
  /\ o.pc \in Removing \cup {"unlink"} => o.kind = "uninstall"
  /\ o.pc \in {"copy", "journal"} \cup Forward \cup Backward => o.tx \in Tx
  /\ o.pc \in Listed =>
       o.todo \in Seq(TxChange) /\ Chg(o.todo) \subseteq Chg(o.tx.changes)
  /\ o.pc \in Removing \ {"strip"} => o.todo \in Seq(RemovalChange)
  /\ o.pc = "strip" => /\ o.todo # <<>> /\ Head(o.todo) \in StripChange
                        /\ Tail(o.todo) \in Seq(RemovalChange)
  /\ o.pc = "put" => o.todo # <<>> /\ Head(o.todo).path \notin Bundles
  /\ o.pc \in {"swap", "clear", "tear", "restore", "bundle"} =>
       o.todo # <<>> /\ Head(o.todo).path \in Bundles
  /\ o.kind = "launch" => o.pc \in {"idle", "lock", "locked"} \cup Backward

Op == {o \in OpRecord : Placed(o)}

Locks == 0 .. Cardinality(Procs) + 1

TypeInv ==
  /\ disk \in [Paths -> AnyPlace] /\ \A q \in Paths : disk[q] \in Places(q)
  /\ aside \in Contents
  /\ receipt \in Receipts \cup {None}
  /\ journal \in Tx \cup {None}
  /\ generations \in [Versions -> {"absent", "whole", "damaged", "torn"}]
  /\ op \in [Procs -> Op]
  /\ held \in [Procs -> Locks] /\ lockFile \in Locks
  /\ shared \in Procs \cup {None}
  /\ cut \in BOOLEAN /\ touched \subseteq Paths

-------------------------------------------------------------------------------
(* Types.                                                                      *)

LEMMA Given ==
  /\ Profiles \subseteq Paths /\ Bundles \subseteq Paths /\ Files \subseteq Paths
  /\ Paths = Files \cup Bundles \cup Profiles
  /\ Files \cap Bundles = {} /\ Files \cap Profiles = {} /\ Profiles \cap Bundles = {}
  /\ \A a, b \in Bundles : a = b
  /\ Versions \cap {"absent", "foreign", "link", "torn"} = {}
  /\ None \notin Versions /\ None \notin Procs /\ None \notin Receipts
  /\ Kinds \subseteq Activating \cup {"register", "uninstall", "launch"}
  BY InstallerAssumption, NoneIsNothing DEF InstallerAssumption, Files, Activating

LEMMA PlaceTypes ==
  /\ \A q \in Paths : Places(q) \subseteq AnyPlace
  /\ \A q \in Profiles : Places(q) = ProfileTexts
  /\ \A q \in Files \cup Bundles : Places(q) = Contents
  BY Given DEF Places, AnyPlace

LEMMA TxIsTransaction == Tx \subseteq Transactions /\ None \notin Tx
<1>1. TxChange \subseteq [path: Paths, before: AnyPlace, after: AnyPlace]
  BY DEF TxChange
<1>2. Seq(TxChange) \subseteq Seq([path: Paths, before: AnyPlace, after: AnyPlace])
  BY <1>1, SeqMonotonic
<1>3. Tx \subseteq Transactions
  BY <1>2 DEF Tx, Transactions, AnyPlace
<1>4. QED BY <1>3, NoneIsNothing

LEMMA ChangeIsTyped ==
  ASSUME NEW c \in TxChange \cup Tasks
  PROVE  /\ c.path \in Paths
         /\ {c.before, c.after} \subseteq Places(c.path)
         /\ c.path \in Files \cup Bundles => c.before \in Contents /\ c.after \in Contents
<1>1. CASE c \in RemovalChange
  BY <1>1, Given, PlaceTypes DEF RemovalChange, Contents
<1>2. CASE c \in StripChange
  BY <1>2, Given, PlaceTypes DEF StripChange
<1>3. CASE c \in TxChange
  <2>1. CASE c.path \in Profiles
    BY <1>3, <2>1, Given, PlaceTypes DEF TxChange
  <2>2. CASE c.path \notin Profiles
    BY <1>3, <2>2, Given, PlaceTypes DEF TxChange, Contents
  <2>3. QED BY <2>1, <2>2
<1>4. QED BY <1>1, <1>2, <1>3 DEF Tasks

LEMMA TaskLists ==
  /\ Seq(TxChange) \subseteq Seq(Tasks) /\ Seq(RemovalChange) \subseteq Seq(Tasks)
<1>1. TxChange \subseteq Tasks /\ RemovalChange \subseteq Tasks
  BY DEF Tasks
<1>2. QED BY <1>1, SeqMonotonic

\* Sequences as lists of things to do.
LEMMA TailOf ==
  ASSUME NEW S, NEW s \in Seq(S), s # <<>>
  PROVE  /\ Tail(s) \in Seq(S) /\ Head(s) \in S /\ Head(s) \in Chg(s)
         /\ Chg(s) = {Head(s)} \cup Chg(Tail(s))
         /\ Len(s) \in Nat \ {0} /\ 1 \in DOMAIN s /\ Head(s) = s[1]
         /\ DOMAIN Tail(s) = 1 .. Len(s) - 1
         /\ \A i \in DOMAIN Tail(s) : i + 1 \in DOMAIN s /\ Tail(s)[i] = s[i + 1]
<1>1. Tail(s) \in Seq(S) /\ Head(s) \in S /\ Len(s) \in Nat \ {0} /\ DOMAIN s = 1 .. Len(s)
      /\ Head(s) = s[1] /\ Len(Tail(s)) = Len(s) - 1
      /\ \A i \in 1 .. Len(Tail(s)) : Tail(s)[i] = s[i + 1]
  BY HeadTailProperties, LenProperties, ElementOfSeq
<1>2. DOMAIN Tail(s) = 1 .. Len(s) - 1
  BY <1>1, LenProperties
<1>3. Chg(s) = {Head(s)} \cup Chg(Tail(s))
  <2>1. ASSUME NEW i \in DOMAIN s PROVE s[i] \in {Head(s)} \cup Chg(Tail(s))
    <3>1. CASE i = 1
      BY <1>1, <3>1
    <3>2. CASE i # 1
      <4>1. i - 1 \in DOMAIN Tail(s) /\ Tail(s)[i - 1] = s[i]
        BY <1>1, <1>2, <3>2
      <4>2. QED BY <4>1 DEF Chg
    <3>3. QED BY <3>1, <3>2
  <2>2. ASSUME NEW i \in DOMAIN Tail(s) PROVE Tail(s)[i] \in Chg(s)
    <3>1. i + 1 \in DOMAIN s /\ Tail(s)[i] = s[i + 1]
      BY <1>1, <1>2
    <3>2. QED BY <3>1 DEF Chg
  <2>3. Head(s) \in Chg(s)
    BY <1>1 DEF Chg
  <2>4. QED BY <2>1, <2>2, <2>3 DEF Chg
<1>4. QED BY <1>1, <1>2, <1>3

LEMMA BackwardsOf ==
  ASSUME NEW S, NEW s \in Seq(S)
  PROVE  Backwards(s) \in Seq(S) /\ Chg(Backwards(s)) = Chg(s)
<1>1. Len(s) \in Nat /\ DOMAIN s = 1 .. Len(s) /\ \A i \in 1 .. Len(s) : s[i] \in S
  BY LenProperties, ElementOfSeq
<1>2. \A i \in 1 .. Len(s) : Len(s) + 1 - i \in 1 .. Len(s) /\ Len(s) + 1 - (Len(s) + 1 - i) = i
  BY <1>1
<1>3. Backwards(s) \in [1 .. Len(s) -> S]
  BY <1>1, <1>2 DEF Backwards
<1>4. Backwards(s) \in Seq(S)
  BY <1>1, <1>3, IsASeq
<1>5. DOMAIN Backwards(s) = 1 .. Len(s)
      /\ \A i \in 1 .. Len(s) : Backwards(s)[i] = s[Len(s) + 1 - i]
  BY DEF Backwards
<1>6. ASSUME NEW i \in 1 .. Len(s) PROVE s[i] \in Chg(Backwards(s))
  <2>1. Backwards(s)[Len(s) + 1 - i] = s[i]
    BY <1>1, <1>2, <1>5
  <2>2. QED BY <1>2, <1>5, <2>1 DEF Chg
<1>7. ASSUME NEW i \in 1 .. Len(s) PROVE Backwards(s)[i] \in Chg(s)
  BY <1>1, <1>2, <1>5 DEF Chg
<1>8. QED BY <1>1, <1>4, <1>5, <1>6, <1>7 DEF Chg

LEMMA ChgOf ==
  ASSUME NEW S, NEW s \in Seq(S)
  PROVE  Chg(s) \subseteq S /\ (s = <<>> => Chg(s) = {})
<1>1. DOMAIN s = 1 .. Len(s) /\ \A i \in 1 .. Len(s) : s[i] \in S
  BY LenProperties, ElementOfSeq
<1>2. s = <<>> => DOMAIN s = {}
  BY EmptySeq
<1>3. QED BY <1>1, <1>2 DEF Chg

\* InOrder lists each chosen path once.
LEMMA Listing ==
  ASSUME NEW chosen \in SUBSET Paths, NEW order \in InOrder(chosen)
  PROVE  /\ order \in Seq(chosen) /\ DOMAIN order = 1 .. Cardinality(chosen)
         /\ Cardinality(chosen) \in Nat
         /\ {order[i] : i \in DOMAIN order} = chosen
         /\ \A i, j \in DOMAIN order : order[i] = order[j] => i = j
<1>1. IsFiniteSet(Paths)
  <2>1. Len(Order) \in Nat /\ DOMAIN Order = 1 .. Len(Order)
    BY InstallerAssumption, LenProperties DEF InstallerAssumption
  <2>2. IsFiniteSet(1 .. Len(Order))
    BY <2>1, FS_Interval
  <2>3. Order \in [1 .. Len(Order) -> Paths]
    BY InstallerAssumption, LenProperties DEF InstallerAssumption
  <2>4. \A q \in Paths : \E i \in 1 .. Len(Order) : Order[i] = q
    BY <2>1 DEF Paths
  <2>5. Order \in Surjection(1 .. Len(Order), Paths)
    BY <2>3, <2>4 DEF Surjection
  <2>6. QED BY <2>2, <2>5, FS_Surjection
<1>2. IsFiniteSet(chosen) /\ Cardinality(chosen) \in Nat
  BY <1>1, FS_Subset, FS_CardinalityType
<1> DEFINE n == Cardinality(chosen)
<1>3. order \in [1 .. n -> chosen]
  BY DEF InOrder
<1>4. ASSUME NEW i \in 1 .. n, NEW j \in 1 .. n, i < j PROVE order[i] # order[j]
  BY <1>3, <1>4, InstallerAssumption, LenProperties DEF InOrder, InstallerAssumption
<1>5. \A i, j \in 1 .. n : order[i] = order[j] => i = j
  BY <1>2, <1>4
<1>6. order \in Injection(1 .. n, chosen)
  BY <1>3, <1>5 DEF Injection, IsInjective
<1>7. Cardinality(1 .. n) = Cardinality(chosen)
  BY <1>2, FS_Interval
<1>8. order \in Surjection(1 .. n, chosen)
  BY <1>2, <1>6, <1>7, FS_Injection
<1>9. order \in Seq(chosen) /\ DOMAIN order = 1 .. n
  BY <1>2, <1>3, IsASeq
<1>10. {order[i] : i \in DOMAIN order} = chosen
  BY <1>3, <1>8, <1>9 DEF Surjection
<1>11. QED BY <1>2, <1>5, <1>9, <1>10

\* A step of a process changes its own record only.
LEMMA PutOp ==
  ASSUME op \in [Procs -> Op], NEW p \in Procs, NEW r, r \in Op, op' = [op EXCEPT ![p] = r]
  PROVE  op' \in [Procs -> Op] /\ op'[p] = r /\ \A q \in Procs \ {p} : op'[q] = op[q]
  OBVIOUS

\* The record of a process that goes on to x with l left to do.
Moved(o, x, l) ==
  [kind |-> o.kind, pc |-> x, target |-> o.target, base |-> o.base, modify |-> o.modify,
   todo |-> l, tx |-> o.tx, then |-> o.then]

LEMMA OpFields ==
  ASSUME NEW o \in Op
  PROVE  /\ o.kind \in Activating \cup {"register", "uninstall", "launch"} /\ o.pc \in Steps
         /\ o.target \in Versions \cup {None} /\ o.base \in Versions \cup {None}
         /\ o.modify \in BOOLEAN /\ o.todo \in Seq(Tasks)
         /\ o.tx \in Tx \cup {None} /\ o.then \in {"stop", "go"}
         /\ \A x : [o EXCEPT !.pc = x] = Moved(o, x, o.todo)
         /\ \A x, l : [o EXCEPT !.pc = x, !.todo = l] = Moved(o, x, l)
<1>1. o \in OpRecord
  BY DEF Op
<1>2. \A x : [o EXCEPT !.pc = x] = Moved(o, x, o.todo)
  BY <1>1 DEF OpRecord, Moved
<1>3. ASSUME NEW x, NEW l PROVE [o EXCEPT !.pc = x, !.todo = l] = Moved(o, x, l)
  <2>1. [Moved(o, x, o.todo) EXCEPT !.todo = l] = Moved(o, x, l)
    BY DEF Moved
  <2>2. QED BY <1>2, <2>1, Zenon
<1>4. QED BY <1>1, <1>2, <1>3 DEF OpRecord

LEMMA MovedFields ==
  ASSUME NEW o, NEW x, NEW l
  PROVE  LET m == Moved(o, x, l) IN
         /\ m.kind = o.kind /\ m.pc = x /\ m.target = o.target /\ m.base = o.base
         /\ m.modify = o.modify /\ m.todo = l /\ m.tx = o.tx /\ m.then = o.then
  BY DEF Moved

LEMMA MovedIsRecord ==
  ASSUME NEW o \in Op, NEW x \in Steps, NEW l \in Seq(Tasks)
  PROVE  Moved(o, x, l) \in OpRecord
  BY OpFields DEF Moved, OpRecord

LEMMA GotoIs ==
  ASSUME op \in [Procs -> Op], NEW p \in Procs, NEW x, Goto(p, x),
         Moved(op[p], x, op[p].todo) \in Op
  PROVE  /\ op' \in [Procs -> Op] /\ \A q \in Procs \ {p} : op'[q] = op[q]
         /\ op'[p] = Moved(op[p], x, op[p].todo)
<1>1. op' = [op EXCEPT ![p] = [op[p] EXCEPT !.pc = x]]
  BY DEF Goto
<1>2. [op[p] EXCEPT !.pc = x] = Moved(op[p], x, op[p].todo)
  BY OpFields
<1>3. QED BY <1>1, <1>2, PutOp

LEMMA AdvanceIs ==
  ASSUME op \in [Procs -> Op], NEW p \in Procs, NEW x, Advance(p, x),
         Moved(op[p], x, Tail(op[p].todo)) \in Op
  PROVE  /\ op' \in [Procs -> Op] /\ \A q \in Procs \ {p} : op'[q] = op[q]
         /\ op'[p] = Moved(op[p], x, Tail(op[p].todo))
<1>1. op' = [op EXCEPT ![p] = [op[p] EXCEPT !.pc = x, !.todo = Tail(op[p].todo)]]
  BY DEF Advance
<1>2. [op[p] EXCEPT !.pc = x, !.todo = Tail(op[p].todo)] = Moved(op[p], x, Tail(op[p].todo))
  <2>1. op[p] \in Op
    OBVIOUS
  <2>2. \A y, l : [op[p] EXCEPT !.pc = y, !.todo = l] = Moved(op[p], y, l)
    BY <2>1, OpFields, Zenon
  <2>3. QED BY <2>2, Zenon
<1>3. QED BY <1>1, <1>2, PutOp

LEMMA IdleIsOp == Idle \in Op
<1>1. <<>> \in Seq(Tasks)
  BY EmptySeq
<1>2. Idle \in OpRecord
  BY <1>1 DEF Idle, OpRecord, Steps, Outside
<1>3. Placed(Idle)
  BY DEF Idle, Placed, Activating, Removing, Forward, Backward, Listed
<1>4. QED BY <1>2, <1>3 DEF Op

LEMMA InitTypes == ASSUME Init PROVE TypeInv
<1>1. PICK v \in Versions, links \in BOOLEAN, installed \in BOOLEAN :
        /\ receipt = IF ~installed THEN None
                     ELSE [active |-> v, previous |-> None, path |-> FALSE,
                           owned |-> [q \in Files \cup Bundles |-> v]]
        /\ disk = [q \in Paths |->
                     CASE q \in Profiles -> [text |-> "old", block |-> "no"]
                       [] q \in Bundles /\ links /\ ~installed -> "link"
                       [] OTHER -> IF installed THEN v ELSE "absent"]
        /\ generations = [w \in Versions |->
                            IF installed /\ w = v THEN "whole" ELSE "absent"]
        /\ journal = None /\ aside = "absent"
        /\ op = [p \in Procs |-> Idle]
        /\ held = [p \in Procs |-> 0]
        /\ lockFile = IF installed THEN 1 ELSE 0
        /\ shared = None
        /\ cut = FALSE /\ touched = {} /\ late = [p \in Procs |-> {}]
        /\ starts = 0 /\ crashes = 0 /\ edits = 0
  BY DEF Init
<1>2. \A q \in Paths : disk[q] \in Places(q)
  <2>1. ASSUME NEW q \in Profiles PROVE disk[q] \in Places(q)
    <3>1. disk[q] = [text |-> "old", block |-> "no"]
      BY <1>1, Given
    <3>2. QED BY <3>1, PlaceTypes DEF ProfileTexts
  <2>2. ASSUME NEW q \in Paths, q \notin Profiles PROVE disk[q] \in Places(q)
    <3>1. disk[q] \in {"link", "absent", v}
      BY <1>1, <2>2
    <3>2. QED BY <2>2, <3>1, Given, PlaceTypes DEF Contents
  <2>3. QED BY <2>1, <2>2
<1>3. disk \in [Paths -> AnyPlace]
  <2>1. \A q \in Paths : disk[q] \in AnyPlace
    BY <1>2, PlaceTypes
  <2>2. disk = [q \in Paths |-> disk[q]]
    BY <1>1
  <2>3. QED BY <2>1, <2>2
<1>4. receipt \in Receipts \cup {None}
  BY <1>1 DEF Receipts
<1>5. op \in [Procs -> Op]
  BY <1>1, IdleIsOp
<1>6. Cardinality(Procs) \in Nat
  BY InstallerAssumption, FS_CardinalityType DEF InstallerAssumption
<1>7. held \in [Procs -> Locks] /\ lockFile \in Locks
  BY <1>1, <1>6 DEF Locks
<1>8. aside \in Contents /\ generations \in [Versions -> {"absent", "whole", "damaged", "torn"}]
  BY <1>1 DEF Contents
<1>9. QED BY <1>1, <1>2, <1>3, <1>4, <1>5, <1>7, <1>8 DEF TypeInv

LEMMA ReturnIs ==
  ASSUME TypeInv, NEW p \in Procs, Return(p)
  PROVE  /\ op' \in [Procs -> Op] /\ op'[p] = Idle /\ \A q \in Procs \ {p} : op'[q] = op[q]
         /\ held' \in [Procs -> Locks] /\ lockFile' = lockFile
         /\ shared' \in {shared, None} /\ (shared = p => shared' = None)
         /\ held'[p] = 0 /\ \A q \in Procs \ {p} : held'[q] = held[q]
<1>1. 0 \in Locks
  BY InstallerAssumption, FS_CardinalityType DEF InstallerAssumption, Locks
<1>2. QED BY <1>1, IdleIsOp DEF Return, TypeInv

\* Where a change goes, its contents fit.
LEMMA PutContent ==
  ASSUME TypeInv, NEW q \in Paths, NEW d \in Places(q), disk' = [disk EXCEPT ![q] = d]
  PROVE  /\ disk' \in [Paths -> AnyPlace] /\ \A r \in Paths : disk'[r] \in Places(r)
         /\ disk'[q] = d /\ \A r \in Paths \ {q} : disk'[r] = disk[r]
<1>1. disk'[q] = d /\ \A r \in Paths \ {q} : disk'[r] = disk[r]
  BY DEF TypeInv
<1>2. QED BY <1>1, PlaceTypes DEF TypeInv

LEMMA UndoingIs ==
  ASSUME TypeInv, NEW p \in Procs, NEW then \in {"stop", "go"}, Undoing(p, then), journal # None,
         op[p].kind = "launch" => op[p].pc # "idle"
  PROVE  /\ op' \in [Procs -> Op] /\ \A q \in Procs \ {p} : op'[q] = op[q]
         /\ op'[p].kind = op[p].kind /\ op'[p].pc = "undo" /\ op'[p].target = op[p].target
         /\ op'[p].base = op[p].base /\ op'[p].modify = op[p].modify
         /\ op'[p].todo = Backwards(journal.changes) /\ op'[p].tx = journal
         /\ op'[p].then = then
         /\ Chg(op'[p].todo) = Chg(journal.changes)
<1> DEFINE o == op[p]
           l == Backwards(journal.changes)
           m == [kind |-> o.kind, pc |-> "undo", target |-> o.target, base |-> o.base,
                 modify |-> o.modify, todo |-> l, tx |-> journal, then |-> then]
<1>1. o \in Op /\ o \in OpRecord /\ Placed(o)
  BY DEF TypeInv, Op
<1>2. journal \in Tx /\ journal.changes \in Seq(TxChange)
  BY DEF TypeInv, Tx
<1>3. l \in Seq(TxChange) /\ Chg(l) = Chg(journal.changes)
  BY <1>2, BackwardsOf
<1>4. l \in Seq(Tasks)
  BY <1>3, TaskLists
<1>5. m \in OpRecord
  BY <1>1, <1>2, <1>4 DEF OpRecord, Steps, Backward
<1>6. Placed(m)
  BY <1>1, <1>2, <1>3 DEF Placed, Activating, Removing, Forward, Backward, Listed
<1>7. op' = [op EXCEPT ![p] = [o EXCEPT !.pc = "undo", !.tx = journal, !.then = then, !.todo = l]]
  BY DEF Undoing
<1>8. [o EXCEPT !.pc = "undo", !.tx = journal, !.then = then, !.todo = l] = m
  <2> DEFINE a == Moved(o, "undo", o.todo)
             b == [kind |-> o.kind, pc |-> "undo", target |-> o.target, base |-> o.base,
                   modify |-> o.modify, todo |-> o.todo, tx |-> journal, then |-> o.then]
             c == [kind |-> o.kind, pc |-> "undo", target |-> o.target, base |-> o.base,
                   modify |-> o.modify, todo |-> o.todo, tx |-> journal, then |-> then]
  <2>1. [o EXCEPT !.pc = "undo"] = a
    BY <1>1, OpFields
  <2>2. [a EXCEPT !.tx = journal] = b
    BY DEF Moved
  <2>3. [b EXCEPT !.then = then] = c
    OBVIOUS
  <2>4. [c EXCEPT !.todo = l] = m
    OBVIOUS
  <2> HIDE DEF a, b, c, m
  <2>5. QED BY <2>1, <2>2, <2>3, <2>4, Zenon
<1>9. m \in Op
  BY <1>5, <1>6 DEF Op
<1>10. QED BY <1>3, <1>7, <1>8, <1>9, PutOp DEF TypeInv

\* The record of a process that begins an operation.
Begun(kind, target, base, modify) ==
  [kind |-> kind, pc |-> "lock", target |-> target, base |-> base, modify |-> modify,
   todo |-> <<>>, tx |-> None, then |-> "stop"]

LEMMA BeginIs ==
  ASSUME TypeInv, NEW p \in Procs, NEW kind \in Kinds, NEW target \in Versions \cup {None},
         NEW base \in Versions \cup {None}, NEW modify \in BOOLEAN,
         kind \in Activating => target \in Versions, Begin(p, kind, target, base, modify)
  PROVE  /\ op' \in [Procs -> Op] /\ op'[p] = Begun(kind, target, base, modify)
         /\ \A q \in Procs \ {p} : op'[q] = op[q]
<1>1. [Idle EXCEPT !.kind = kind, !.pc = "lock", !.target = target, !.base = base,
                   !.modify = modify] = Begun(kind, target, base, modify)
  <2>1. \E f : Idle = [kind |-> "launch", pc |-> "idle", target |-> None, base |-> None,
                       modify |-> f, todo |-> <<>>, tx |-> None, then |-> "stop"]
    BY DEF Idle
  <2>2. PICK f : Idle = [kind |-> "launch", pc |-> "idle", target |-> None, base |-> None,
                         modify |-> f, todo |-> <<>>, tx |-> None, then |-> "stop"]
    BY <2>1
  <2> DEFINE a == [Idle EXCEPT !.kind = kind]
             b == [a EXCEPT !.pc = "lock"]
             c == [b EXCEPT !.target = target]
             d == [c EXCEPT !.base = base]
             e == [d EXCEPT !.modify = modify]
  <2>3. a = [kind |-> kind, pc |-> "idle", target |-> None, base |-> None, modify |-> f,
             todo |-> <<>>, tx |-> None, then |-> "stop"]
    BY <2>2
  <2> HIDE DEF a
  <2>4. b = [kind |-> kind, pc |-> "lock", target |-> None, base |-> None, modify |-> f,
             todo |-> <<>>, tx |-> None, then |-> "stop"]
    BY <2>3
  <2> HIDE DEF b
  <2>5. c = [kind |-> kind, pc |-> "lock", target |-> target, base |-> None, modify |-> f,
             todo |-> <<>>, tx |-> None, then |-> "stop"]
    BY <2>4
  <2> HIDE DEF c
  <2>6. d = [kind |-> kind, pc |-> "lock", target |-> target, base |-> base, modify |-> f,
             todo |-> <<>>, tx |-> None, then |-> "stop"]
    BY <2>5
  <2> HIDE DEF d
  <2>7. e = [kind |-> kind, pc |-> "lock", target |-> target, base |-> base,
             modify |-> modify, todo |-> <<>>, tx |-> None, then |-> "stop"]
    BY <2>6
  <2>8. QED BY <2>7 DEF a, b, c, d, Begun
<1>2. op' = [op EXCEPT ![p] = Begun(kind, target, base, modify)]
  BY <1>1, Zenon DEF Begin
<1>3. <<>> \in Seq(Tasks)
  BY EmptySeq
<1>4. Begun(kind, target, base, modify) \in OpRecord
  BY <1>3, Given DEF Begun, OpRecord, Steps, Outside
<1>5. Placed(Begun(kind, target, base, modify))
  BY DEF Begun, Placed, Removing, Forward, Backward, Listed
<1>6. Begun(kind, target, base, modify) \in Op
  BY <1>4, <1>5 DEF Op
<1>7. QED BY <1>2, <1>6, PutOp DEF TypeInv

LEMMA StartIs ==
  ASSUME TypeInv, NEW p \in Procs, Start(p)
  PROVE  /\ op' \in [Procs -> Op] /\ \A q \in Procs \ {p} : op'[q] = op[q]
         /\ \E kind \in Kinds, target \in Versions \cup {None}, base \in Versions \cup {None},
              modify \in BOOLEAN : op'[p] = Begun(kind, target, base, modify)
         /\ op[p].pc = "idle"
         /\ UNCHANGED <<disk, aside, installation, locks, cut, touched, crashes, edits>>
<1>1. PICK kind \in Kinds :
       \/ /\ kind = "install"
          /\ \E v \in Versions, m \in BOOLEAN : Begin(p, kind, v, None, m)
       \/ /\ kind = "update" /\ receipt # None
          /\ \E v \in Versions :
               Begin(p, kind, v, receipt.active, receipt.path)
       \/ /\ kind = "rollback" /\ receipt # None /\ receipt.previous # None
          /\ generations[receipt.previous] = "whole"
          /\ Begin(p, kind, receipt.previous, None, receipt.path)
       \/ /\ kind \in {"register", "uninstall", "launch"}
          /\ Begin(p, kind, None, None, FALSE)
  BY DEF Start
<1>2. receipt # None => /\ receipt.active \in Versions /\ receipt.path \in BOOLEAN
                        /\ receipt.previous \in Versions \cup {None}
  BY DEF TypeInv, Receipts
<1>3. \E target \in Versions \cup {None}, base \in Versions \cup {None}, modify \in BOOLEAN :
        (kind \in Activating => target \in Versions) /\ Begin(p, kind, target, base, modify)
  <2>1. CASE kind = "install" /\ \E v \in Versions, m \in BOOLEAN : Begin(p, kind, v, None, m)
    BY <2>1
  <2>2. CASE kind = "update" /\ receipt # None
             /\ \E v \in Versions : Begin(p, kind, v, receipt.active, receipt.path)
    BY <1>2, <2>2
  <2>3. CASE kind = "rollback" /\ receipt # None /\ receipt.previous # None
             /\ Begin(p, kind, receipt.previous, None, receipt.path)
    BY <1>2, <2>3
  <2>4. CASE kind \in {"register", "uninstall", "launch"} /\ Begin(p, kind, None, None, FALSE)
    BY <2>4 DEF Activating
  <2>5. QED BY <1>1, <2>1, <2>2, <2>3, <2>4
<1>4. PICK target \in Versions \cup {None}, base \in Versions \cup {None}, modify \in BOOLEAN :
        (kind \in Activating => target \in Versions) /\ Begin(p, kind, target, base, modify)
  BY <1>3
<1>5. QED BY <1>4, BeginIs DEF Start

\* What an operation in its own step says of its record.
LEMMA Here ==
  ASSUME TypeInv, NEW p \in Procs
  PROVE  /\ op[p] \in Op /\ op[p] \in OpRecord /\ Placed(op[p])
         /\ op[p].pc \in Steps /\ op[p].todo \in Seq(Tasks)
  BY DEF TypeInv, Op, OpRecord

LEMMA GoesTo ==
  ASSUME TypeInv, NEW p \in Procs, NEW x \in Steps, Goto(p, x),
         Placed(Moved(op[p], x, op[p].todo))
  PROVE  /\ op' \in [Procs -> Op] /\ \A q \in Procs \ {p} : op'[q] = op[q]
         /\ op'[p] = Moved(op[p], x, op[p].todo)
<1>1. Moved(op[p], x, op[p].todo) \in Op
  BY Here, MovedIsRecord DEF Op
<1>2. QED BY <1>1, GotoIs DEF TypeInv

LEMMA AdvancesTo ==
  ASSUME TypeInv, NEW p \in Procs, NEW x \in Steps, Advance(p, x), op[p].todo # <<>>,
         Placed(Moved(op[p], x, Tail(op[p].todo)))
  PROVE  /\ op' \in [Procs -> Op] /\ \A q \in Procs \ {p} : op'[q] = op[q]
         /\ op'[p] = Moved(op[p], x, Tail(op[p].todo))
<1>1. Tail(op[p].todo) \in Seq(Tasks)
  BY Here, TailOf
<1>2. Moved(op[p], x, Tail(op[p].todo)) \in Op
  BY <1>1, Here, MovedIsRecord DEF Op
<1>3. QED BY <1>2, AdvanceIs DEF TypeInv

\* A step that changes nothing but where its process stands.
Still == UNCHANGED <<disk, aside, installation, cut, touched>>

LEMMA LockChannelIs ==
  ASSUME TypeInv, NEW p \in Procs, LockChannel(p)
  PROVE  /\ TypeInv' /\ Still /\ shared' = shared
         /\ op[p].pc = "lock" /\ \A q \in Procs \ {p} : op'[q] = op[q]
         /\ op'[p] = Moved(op[p], IF op[p].kind = "launch" THEN "locked" ELSE "shared", op[p].todo)
         /\ lockFile' \in Locks \ {0} /\ held' = [held EXCEPT ![p] = lockFile']
         /\ lockFile # 0 => lockFile' = lockFile
         /\ \A q \in Procs : held[q] # lockFile'
<1> DEFINE x == IF op[p].kind = "launch" THEN "locked" ELSE "shared"
<1>1. Placed(Moved(op[p], x, op[p].todo)) /\ x \in Steps
  BY Here, MovedFields DEF Placed, Steps, Outside, Between, Removing, Forward, Backward, Listed,
                           LockChannel
<1>2. /\ op' \in [Procs -> Op] /\ \A q \in Procs \ {p} : op'[q] = op[q]
      /\ op'[p] = Moved(op[p], x, op[p].todo)
  BY <1>1, GoesTo DEF LockChannel
<1> DEFINE n == Cardinality(Procs)
<1>3. n \in Nat /\ IsFiniteSet(Procs)
  BY InstallerAssumption, FS_CardinalityType DEF InstallerAssumption
<1>4. \E i \in 1 .. n + 1 : \A q \in Procs : held[q] # i
  <2>1. SUFFICES ASSUME \A i \in 1 .. n + 1 : \E q \in Procs : held[q] = i PROVE FALSE
    OBVIOUS
  <2> DEFINE f == [i \in 1 .. n + 1 |-> CHOOSE q \in Procs : held[q] = i]
  <2>2. \A i \in 1 .. n + 1 : f[i] \in Procs /\ held[f[i]] = i
    BY <2>1
  <2>3. f \in [1 .. n + 1 -> Procs]
    BY <2>2
  <2> HIDE DEF f
  <2>4. IsFiniteSet(1 .. n + 1) /\ Cardinality(1 .. n + 1) = n + 1
    BY <1>3, FS_Interval
  <2>5. \E i, j \in 1 .. n + 1 : i # j /\ f[i] = f[j]
    BY <1>3, <2>3, <2>4, FS_PigeonHole
  <2>6. QED BY <2>2, <2>5
<1>5. /\ lockFile' \in Locks \ {0}
      /\ lockFile # 0 => lockFile' = lockFile
      /\ \A q \in Procs : held[q] # lockFile'
  BY <1>3, <1>4 DEF LockChannel, TypeInv, Locks
<1>6. held' \in [Procs -> Locks] /\ held' = [held EXCEPT ![p] = lockFile']
  BY <1>5 DEF LockChannel, TypeInv
<1>7. UNCHANGED <<disk, aside, installation, shared, cut, touched, counts>> /\ op[p].pc = "lock"
  BY DEF LockChannel
<1>8. TypeInv'
  BY <1>2, <1>5, <1>6, <1>7 DEF TypeInv, installation
<1>9. QED BY <1>2, <1>5, <1>6, <1>7, <1>8 DEF Still

LEMMA LockIntegrationsIs ==
  ASSUME TypeInv, NEW p \in Procs, LockIntegrations(p)
  PROVE  /\ TypeInv' /\ Still /\ UNCHANGED <<held, lockFile>> /\ shared = None /\ shared' = p
         /\ op[p].pc = "shared" /\ \A q \in Procs \ {p} : op'[q] = op[q]
         /\ op'[p] = Moved(op[p], "locked", op[p].todo)
<1>1. Placed(Moved(op[p], "locked", op[p].todo)) /\ "locked" \in Steps
  BY Here, MovedFields DEF Placed, Steps, Between, Removing, Forward, Backward, Listed, LockIntegrations
<1>2. /\ op' \in [Procs -> Op] /\ \A q \in Procs \ {p} : op'[q] = op[q]
      /\ op'[p] = Moved(op[p], "locked", op[p].todo)
  BY <1>1, GoesTo DEF LockIntegrations
<1>3. QED BY <1>2 DEF LockIntegrations, TypeInv, installation, Still

\* What an operation holds, after any step that leaves the locks alone or lets go.
LEMMA RecoverIs ==
  ASSUME TypeInv, NEW p \in Procs, Recover(p)
  PROVE  /\ TypeInv' /\ Still /\ op[p].pc = "locked"
         /\ \A q \in Procs \ {p} : op'[q] = op[q]
         /\ \/ /\ journal # None /\ Undoing(p, "go") /\ UNCHANGED locks
               /\ op'[p].kind = op[p].kind /\ op'[p].pc = "undo" /\ op'[p].target = op[p].target
               /\ op'[p].base = op[p].base /\ op'[p].modify = op[p].modify
               /\ op'[p].tx = journal /\ op'[p].then = "go"
               /\ Chg(op'[p].todo) = Chg(journal.changes)
            \/ journal = None /\ op[p].kind = "launch" /\ op'[p] = Idle /\ Return(p)
            \/ /\ journal = None /\ op[p].kind # "launch" /\ UNCHANGED locks
               /\ op'[p] = Moved(op[p], "ready", op[p].todo)
<1>1. UNCHANGED <<disk, aside, installation, cut, touched, counts>> /\ op[p].pc = "locked"
  BY DEF Recover
<1>2. CASE journal # None /\ Undoing(p, "go") /\ UNCHANGED locks
  BY <1>1, <1>2, UndoingIs DEF TypeInv, installation, locks, Still
<1>3. CASE journal = None /\ op[p].kind = "launch" /\ Return(p)
  BY <1>1, <1>3, ReturnIs DEF TypeInv, installation, Still
<1>4. CASE journal = None /\ op[p].kind # "launch" /\ Goto(p, "ready") /\ UNCHANGED locks
  <2>1. Placed(Moved(op[p], "ready", op[p].todo)) /\ "ready" \in Steps
    BY <1>1, <1>4, Here, MovedFields DEF Placed, Steps, Between, Removing, Forward, Backward, Listed
  <2>2. /\ op' \in [Procs -> Op] /\ \A q \in Procs \ {p} : op'[q] = op[q]
        /\ op'[p] = Moved(op[p], "ready", op[p].todo)
    BY <1>4, <2>1, GoesTo
  <2>3. QED BY <1>1, <1>4, <2>2 DEF TypeInv, installation, locks, Still
<1>5. QED BY <1>2, <1>3, <1>4 DEF Recover

LEMMA TodoIs ==
  ASSUME TypeInv, NEW p \in Procs, op[p].todo # <<>>,
         op[p].pc \in {"apply", "swap", "undo", "put", "clear", "tear", "restore"}
  PROVE  /\ op[p].tx \in Tx /\ op[p].todo \in Seq(TxChange)
         /\ Change(p) \in TxChange /\ Change(p) \in Chg(op[p].tx.changes)
         /\ Tail(op[p].todo) \in Seq(TxChange)
         /\ Chg(op[p].todo) = {Change(p)} \cup Chg(Tail(op[p].todo))
         /\ Chg(Tail(op[p].todo)) \subseteq Chg(op[p].tx.changes)
<1>1. op[p].tx \in Tx /\ op[p].todo \in Seq(TxChange)
      /\ Chg(op[p].todo) \subseteq Chg(op[p].tx.changes)
  BY Here DEF Placed, Forward, Backward, Listed
<1>2. /\ Tail(op[p].todo) \in Seq(TxChange) /\ Head(op[p].todo) \in TxChange
      /\ Chg(op[p].todo) = {Head(op[p].todo)} \cup Chg(Tail(op[p].todo))
  BY <1>1, TailOf
<1>3. QED BY <1>1, <1>2 DEF Change

LEMMA ShorterTodo ==
  ASSUME TypeInv, NEW p \in Procs, op[p].todo # <<>>,
         op[p].pc \in {"apply", "swap", "undo", "put", "clear", "tear", "restore"}, NEW x \in {"apply", "undo"},
         x = "apply" => op[p].pc \in {"apply", "swap"}
  PROVE  Placed(Moved(op[p], x, Tail(op[p].todo))) /\ x \in Steps
<1>1. /\ op[p].tx \in Tx /\ Tail(op[p].todo) \in Seq(TxChange)
      /\ Chg(Tail(op[p].todo)) \subseteq Chg(op[p].tx.changes)
  BY TodoIs
<1> DEFINE m == Moved(op[p], x, Tail(op[p].todo))
<1>2. /\ m.kind = op[p].kind /\ m.pc = x /\ m.target = op[p].target /\ m.tx = op[p].tx
      /\ m.todo = Tail(op[p].todo)
  BY MovedFields
<1>3. Placed(op[p])
  BY Here
<1> HIDE DEF m
<1>4. op[p].kind \in Activating => m.target \in Versions
  BY <1>2, <1>3 DEF Placed
<1>5. x = "apply" => op[p].kind \in Activating \cup {"register"}
  BY <1>3 DEF Placed, Forward
<1>6. m.kind = "launch" => m.pc = "undo"
  BY <1>2, <1>5 DEF Activating
<1>7. Placed(m)
  BY <1>1, <1>2, <1>4, <1>5, <1>6 DEF Placed, Removing, Forward, Backward, Listed
<1>8. QED BY <1>7 DEF m, Steps, Forward, Backward

\* One path changes and its process goes on to the next.
LEMMA AdvanceTypes ==
  ASSUME TypeInv, NEW p \in Procs, op[p].todo # <<>>,
         op[p].pc \in {"apply", "swap", "undo", "put", "clear", "tear", "restore"}, NEW x \in {"apply", "undo"},
         x = "apply" => op[p].pc \in {"apply", "swap"}, Advance(p, x)
  PROVE  /\ op' \in [Procs -> Op] /\ \A q \in Procs \ {p} : op'[q] = op[q]
         /\ op'[p] = Moved(op[p], x, Tail(op[p].todo))
  BY ShorterTodo, AdvancesTo

LEMMA FindOursIs ==
  ASSUME TypeInv, NEW p \in Procs, FindOurs(p)
  PROVE  /\ TypeInv' /\ Still /\ UNCHANGED locks /\ \A q \in Procs \ {p} : op'[q] = op[q]
         /\ op[p].pc = "undo" /\ op[p].todo # <<>> /\ Change(p).path \in Plain
         /\ \/ disk[Change(p).path] = Change(p).after /\ op'[p] = Moved(op[p], "put", op[p].todo)
            \/ /\ disk[Change(p).path] # Change(p).after
               /\ op'[p] = Moved(op[p], "undo", Tail(op[p].todo))
<1>1. /\ op[p].pc = "undo" /\ op[p].todo # <<>> /\ Change(p).path \notin Bundles
      /\ Still /\ UNCHANGED locks
  BY DEF FindOurs, At, Still
<1>2. Change(p) \in TxChange /\ Change(p).path \in Plain
  BY <1>1, TodoIs, ChangeIsTyped, Given DEF Plain, Listed, Tasks
<1>3. CASE disk[Change(p).path] = Change(p).after /\ Goto(p, "put")
  <2>1. Placed(Moved(op[p], "put", op[p].todo)) /\ "put" \in Steps
    BY <1>1, Here, MovedFields DEF Placed, Change, Steps, Removing, Forward, Backward, Listed
  <2>2. /\ op' \in [Procs -> Op] /\ \A q \in Procs \ {p} : op'[q] = op[q]
        /\ op'[p] = Moved(op[p], "put", op[p].todo)
    BY <1>3, <2>1, GoesTo
  <2>3. QED BY <1>1, <1>2, <1>3, <2>2 DEF TypeInv, installation, locks, Still
<1>4. CASE disk[Change(p).path] # Change(p).after /\ Advance(p, "undo")
  <2>1. /\ op' \in [Procs -> Op] /\ \A q \in Procs \ {p} : op'[q] = op[q]
        /\ op'[p] = Moved(op[p], "undo", Tail(op[p].todo))
    BY <1>1, <1>4, AdvanceTypes DEF Listed
  <2>2. QED BY <1>1, <1>2, <1>4, <2>1 DEF TypeInv, installation, locks, Still
<1>5. QED BY <1>3, <1>4 DEF FindOurs

LEMMA PutBackIs ==
  ASSUME TypeInv, NEW p \in Procs, PutBack(p)
  PROVE  /\ TypeInv' /\ \A q \in Procs \ {p} : op'[q] = op[q]
         /\ op'[p] = Moved(op[p], "undo", Tail(op[p].todo))
         /\ op[p].pc = "put" /\ op[p].todo # <<>> /\ Change(p).path \in Plain
         /\ \A q \in Paths \ {Change(p).path} : disk'[q] = disk[q]
         /\ disk'[Change(p).path] = Change(p).before
         /\ UNCHANGED <<aside, installation, locks, cut, touched, counts>>
<1>1. /\ op[p].pc = "put" /\ op[p].todo # <<>>
      /\ UNCHANGED <<aside, installation, locks, cut, touched, counts>> /\ Advance(p, "undo")
      /\ disk' = [disk EXCEPT ![Change(p).path] = Change(p).before]
  BY DEF PutBack, At
<1>2. Change(p) \in TxChange
  BY <1>1, TodoIs DEF Listed
<1>3. Change(p).path \in Paths /\ Change(p).before \in Places(Change(p).path)
  BY <1>2, ChangeIsTyped DEF Tasks
<1>4. Change(p).path \in Plain
  BY <1>1, <1>3, Here, Given DEF Plain, Placed, Change
<1>5. /\ op' \in [Procs -> Op] /\ \A q \in Procs \ {p} : op'[q] = op[q]
      /\ op'[p] = Moved(op[p], "undo", Tail(op[p].todo))
  BY <1>1, AdvanceTypes DEF Listed
<1>6. /\ disk' \in [Paths -> AnyPlace] /\ \A r \in Paths : disk'[r] \in Places(r)
      /\ \A q \in Paths \ {Change(p).path} : disk'[q] = disk[q]
      /\ disk'[Change(p).path] = Change(p).before
  BY <1>1, <1>3, PutContent
<1>7. TypeInv'
  BY <1>1, <1>5, <1>6 DEF TypeInv, installation, locks
<1>8. QED BY <1>1, <1>4, <1>5, <1>6, <1>7

LEMMA FindBundleIs ==
  ASSUME TypeInv, NEW p \in Procs, FindBundle(p)
  PROVE  /\ TypeInv' /\ Still /\ UNCHANGED locks /\ \A q \in Procs \ {p} : op'[q] = op[q]
         /\ op'[p] = Moved(op[p], IF OursToRemove(Change(p)) THEN "clear" ELSE "restore",
                           op[p].todo)
         /\ op[p].pc = "undo" /\ op[p].todo # <<>> /\ Change(p).path \in Bundles
<1> DEFINE x == IF OursToRemove(Change(p)) THEN "clear" ELSE "restore"
<1>1. /\ op[p].pc = "undo" /\ op[p].todo # <<>> /\ Change(p).path \in Bundles
      /\ Still /\ UNCHANGED locks /\ Goto(p, x)
  BY DEF FindBundle, At, Still
<1>2. x \in {"clear", "restore"}
  OBVIOUS
<1> HIDE DEF x
<1>3. Placed(Moved(op[p], x, op[p].todo)) /\ x \in Steps
  BY <1>1, <1>2, Here, MovedFields DEF Placed, Change, Steps, Removing, Forward, Backward, Listed
<1>4. /\ op' \in [Procs -> Op] /\ \A q \in Procs \ {p} : op'[q] = op[q]
      /\ op'[p] = Moved(op[p], x, op[p].todo)
  BY <1>1, <1>3, GoesTo
<1>5. TypeInv'
  BY <1>1, <1>4 DEF TypeInv, installation, locks, Still
<1>6. QED BY <1>1, <1>4, <1>5 DEF x

LEMMA TearBundleIs ==
  ASSUME TypeInv, NEW p \in Procs, TearBundle(p)
  PROVE  /\ TypeInv' /\ \A q \in Procs \ {p} : op'[q] = op[q]
         /\ op'[p] = Moved(op[p], "tear", op[p].todo)
         /\ op[p].pc = "clear" /\ op[p].todo # <<>> /\ Change(p).path \in Bundles
         /\ disk[Change(p).path] # "absent"
         /\ \A q \in Paths \ {Change(p).path} : disk'[q] = disk[q]
         /\ disk'[Change(p).path] = "torn"
         /\ UNCHANGED <<aside, installation, locks, cut, touched, counts>>
<1>1. /\ op[p].pc = "clear" /\ op[p].todo # <<>> /\ disk[Change(p).path] # "absent"
      /\ UNCHANGED <<aside, installation, locks, cut, touched, counts>> /\ Goto(p, "tear")
      /\ disk' = [disk EXCEPT ![Change(p).path] = "torn"]
  BY DEF TearBundle, At
<1>2. Placed(Moved(op[p], "tear", op[p].todo)) /\ "tear" \in Steps
      /\ Change(p).path \in Bundles
  BY <1>1, Here, MovedFields DEF Placed, Change, Steps, Removing, Forward, Backward, Listed
<1>3. /\ op' \in [Procs -> Op] /\ \A q \in Procs \ {p} : op'[q] = op[q]
      /\ op'[p] = Moved(op[p], "tear", op[p].todo)
  BY <1>1, <1>2, GoesTo
<1>4. "torn" \in Places(Change(p).path) /\ Change(p).path \in Paths
  BY <1>2, Given, PlaceTypes DEF Contents
<1>5. /\ disk' \in [Paths -> AnyPlace] /\ \A r \in Paths : disk'[r] \in Places(r)
      /\ \A q \in Paths \ {Change(p).path} : disk'[q] = disk[q]
      /\ disk'[Change(p).path] = "torn"
  BY <1>1, <1>4, PutContent
<1>6. TypeInv'
  BY <1>1, <1>3, <1>5 DEF TypeInv, installation, locks
<1>7. QED BY <1>1, <1>2, <1>3, <1>5, <1>6

LEMMA DropBundleIs ==
  ASSUME TypeInv, NEW p \in Procs, DropBundle(p)
  PROVE  /\ TypeInv' /\ \A q \in Procs \ {p} : op'[q] = op[q]
         /\ op'[p] = Moved(op[p], "restore", op[p].todo)
         /\ op[p].pc = "tear" /\ op[p].todo # <<>> /\ Change(p).path \in Bundles
         /\ disk[Change(p).path] = "torn"
         /\ \A q \in Paths \ {Change(p).path} : disk'[q] = disk[q]
         /\ disk'[Change(p).path] = "absent"
         /\ UNCHANGED <<aside, installation, locks, cut, touched, counts>>
<1>1. /\ op[p].pc = "tear" /\ op[p].todo # <<>>
      /\ UNCHANGED <<aside, installation, locks, cut, touched, counts>> /\ Goto(p, "restore")
      /\ disk[Change(p).path] = "torn" /\ disk' = [disk EXCEPT ![Change(p).path] = "absent"]
  BY DEF DropBundle, At
<1>2. Placed(Moved(op[p], "restore", op[p].todo)) /\ "restore" \in Steps
      /\ Change(p).path \in Bundles
  BY <1>1, Here, MovedFields DEF Placed, Change, Steps, Removing, Forward, Backward, Listed
<1>3. /\ op' \in [Procs -> Op] /\ \A q \in Procs \ {p} : op'[q] = op[q]
      /\ op'[p] = Moved(op[p], "restore", op[p].todo)
  BY <1>1, <1>2, GoesTo
<1>4. "absent" \in Places(Change(p).path) /\ Change(p).path \in Paths
  BY <1>2, Given, PlaceTypes DEF Contents
<1>5. /\ disk' \in [Paths -> AnyPlace] /\ \A r \in Paths : disk'[r] \in Places(r)
      /\ \A q \in Paths \ {Change(p).path} : disk'[q] = disk[q]
      /\ disk'[Change(p).path] = "absent"
  BY <1>1, <1>4, PutContent
<1>6. TypeInv'
  BY <1>1, <1>3, <1>5 DEF TypeInv, installation, locks
<1>7. QED BY <1>1, <1>2, <1>3, <1>5, <1>6

LEMMA RestoreBundleIs ==
  ASSUME TypeInv, NEW p \in Procs, RestoreBundle(p)
  PROVE  /\ TypeInv' /\ \A q \in Procs \ {p} : op'[q] = op[q]
         /\ op'[p] = Moved(op[p], "undo", Tail(op[p].todo))
         /\ op[p].pc = "restore" /\ op[p].todo # <<>> /\ Change(p).path \in Bundles
         /\ \A q \in Paths \ {Change(p).path} : disk'[q] = disk[q]
         /\ \/ /\ aside # "absent" /\ disk[Change(p).path] = "absent"
               /\ disk'[Change(p).path] = aside /\ aside' = "absent"
            \/ disk' = disk /\ aside' = aside
         /\ UNCHANGED <<installation, locks, cut, touched, counts>>
<1>1. /\ op[p].pc = "restore" /\ op[p].todo # <<>>
      /\ UNCHANGED <<installation, locks, cut, touched, counts>> /\ Advance(p, "undo")
  BY DEF RestoreBundle, At
<1>2. Change(p).path \in Bundles
  BY <1>1, Here DEF Placed, Change
<1>3. /\ op' \in [Procs -> Op] /\ \A q \in Procs \ {p} : op'[q] = op[q]
      /\ op'[p] = Moved(op[p], "undo", Tail(op[p].todo))
  BY <1>1, AdvanceTypes
<1>4. aside \in Places(Change(p).path) /\ Change(p).path \in Paths /\ "absent" \in Contents
  BY <1>2, Given, PlaceTypes DEF Contents, TypeInv
<1>5. \/ /\ aside # "absent" /\ disk[Change(p).path] = "absent"
         /\ disk' = [disk EXCEPT ![Change(p).path] = aside] /\ aside' = "absent"
      \/ disk' = disk /\ aside' = aside
  BY DEF RestoreBundle
<1>6. /\ disk' \in [Paths -> AnyPlace] /\ \A r \in Paths : disk'[r] \in Places(r)
      /\ \A q \in Paths \ {Change(p).path} : disk'[q] = disk[q]
      /\ \/ /\ aside # "absent" /\ disk[Change(p).path] = "absent"
            /\ disk'[Change(p).path] = aside /\ aside' = "absent"
         \/ disk' = disk /\ aside' = aside
  <2>1. CASE disk' = disk /\ aside' = aside
    BY <2>1 DEF TypeInv
  <2>2. CASE /\ aside # "absent" /\ disk[Change(p).path] = "absent"
             /\ disk' = [disk EXCEPT ![Change(p).path] = aside] /\ aside' = "absent"
    BY <1>4, <2>2, PutContent
  <2>3. QED BY <1>5, <2>1, <2>2
<1>7. TypeInv'
  BY <1>1, <1>3, <1>4, <1>6 DEF TypeInv, installation, locks
<1>8. QED BY <1>1, <1>2, <1>3, <1>6, <1>7

LEMMA RestoreReceiptIs ==
  ASSUME TypeInv, NEW p \in Procs, RestoreReceipt(p)
  PROVE  /\ TypeInv' /\ \A q \in Procs \ {p} : op'[q] = op[q]
         /\ op'[p] = Moved(op[p], "undone", op[p].todo)
         /\ op[p].pc = "undo" /\ op[p].todo = <<>> /\ receipt' = op[p].tx.before
         /\ UNCHANGED <<disk, aside, journal, generations, locks, cut, touched, counts>>
<1>1. /\ op[p].pc = "undo" /\ op[p].todo = <<>> /\ receipt' = op[p].tx.before
      /\ UNCHANGED <<disk, aside, journal, generations, locks, cut, touched, counts>>
      /\ Goto(p, "undone")
  BY DEF RestoreReceipt, Done
<1>2. Placed(Moved(op[p], "undone", op[p].todo)) /\ "undone" \in Steps /\ op[p].tx \in Tx
  BY <1>1, Here, MovedFields DEF Placed, Steps, Removing, Forward, Backward, Listed
<1>3. /\ op' \in [Procs -> Op] /\ \A q \in Procs \ {p} : op'[q] = op[q]
      /\ op'[p] = Moved(op[p], "undone", op[p].todo)
  BY <1>1, <1>2, GoesTo
<1>4. receipt' \in Receipts \cup {None}
  BY <1>1, <1>2 DEF Tx
<1>5. TypeInv'
  BY <1>1, <1>3, <1>4 DEF TypeInv, locks
<1>6. QED BY <1>1, <1>3, <1>5

LEMMA ClearUndoneIs ==
  ASSUME TypeInv, NEW p \in Procs, ClearUndone(p)
  PROVE  /\ TypeInv' /\ \A q \in Procs \ {p} : op'[q] = op[q]
         /\ op[p].pc = "undone" /\ journal' = None
         /\ \/ op[p].then = "go" /\ op'[p] = Moved(op[p], "locked", op[p].todo) /\ UNCHANGED locks
            \/ op[p].then = "stop" /\ op'[p] = Idle /\ Return(p)
         /\ UNCHANGED <<disk, aside, receipt, generations, cut, touched, counts>>
<1>1. /\ op[p].pc = "undone" /\ journal' = None
      /\ UNCHANGED <<disk, aside, receipt, generations, cut, touched, counts>>
  BY DEF ClearUndone
<1>2. CASE op[p].then = "go" /\ Goto(p, "locked") /\ UNCHANGED locks
  <2>1. Placed(Moved(op[p], "locked", op[p].todo)) /\ "locked" \in Steps
    BY <1>1, Here, MovedFields DEF Placed, Steps, Removing, Forward, Backward, Listed
  <2>2. /\ op' \in [Procs -> Op] /\ \A q \in Procs \ {p} : op'[q] = op[q]
        /\ op'[p] = Moved(op[p], "locked", op[p].todo)
    BY <1>2, <2>1, GoesTo
  <2>3. QED BY <1>1, <1>2, <2>2 DEF TypeInv, locks
<1>3. CASE op[p].then # "go" /\ Return(p)
  <2>1. op[p].then = "stop"
    BY <1>3, Here, OpFields
  <2>2. QED BY <1>1, <1>3, <2>1, ReturnIs DEF TypeInv
<1>4. QED BY <1>2, <1>3 DEF ClearUndone

LEMMA StageIs ==
  ASSUME TypeInv, NEW p \in Procs, Stage(p)
  PROVE  /\ TypeInv' /\ \A q \in Procs \ {p} : op'[q] = op[q]
         /\ op'[p] = Moved(op[p], "prepare", op[p].todo)
         /\ op[p].pc = "ready" /\ op[p].kind \in Activating /\ op[p].target \in Versions
         /\ op[p].kind = "update" => receipt # None /\ receipt.active = op[p].base
         /\ generations[op[p].target] \in {"absent", "whole"}
         /\ generations'[op[p].target] = "whole"
         /\ \A v \in Versions \ {op[p].target} : generations'[v] = generations[v]
         /\ UNCHANGED <<disk, aside, receipt, journal, locks, cut, touched, counts>>
<1>1. /\ op[p].pc = "ready" /\ op[p].kind \in Activating
      /\ op[p].kind = "update" => receipt # None /\ receipt.active = op[p].base
      /\ generations[op[p].target] \in {"absent", "whole"}
      /\ generations' = [generations EXCEPT ![op[p].target] = "whole"]
      /\ UNCHANGED <<disk, aside, receipt, journal, locks, cut, touched, counts>>
      /\ Goto(p, "prepare")
  BY DEF Stage
<1>2. op[p].target \in Versions
  BY <1>1, Here DEF Placed
<1>3. Placed(Moved(op[p], "prepare", op[p].todo)) /\ "prepare" \in Steps
  BY <1>1, <1>2, Here, MovedFields DEF Placed, Activating, Steps, Between, Removing, Forward,
                                       Backward, Listed
<1>4. /\ op' \in [Procs -> Op] /\ \A q \in Procs \ {p} : op'[q] = op[q]
      /\ op'[p] = Moved(op[p], "prepare", op[p].todo)
  BY <1>1, <1>3, GoesTo
<1>5. /\ generations' \in [Versions -> {"absent", "whole", "damaged", "torn"}]
      /\ generations'[op[p].target] = "whole"
      /\ \A v \in Versions \ {op[p].target} : generations'[v] = generations[v]
  BY <1>1, <1>2 DEF TypeInv
<1>6. TypeInv'
  BY <1>1, <1>4, <1>5 DEF TypeInv, locks
<1>7. QED BY <1>1, <1>2, <1>4, <1>5, <1>6

LEMMA TransactionIs ==
  ASSUME TypeInv, NEW p \in Procs, NEW after \in Receipts, NEW chosen \in SUBSET Paths,
         \A q \in chosen \ Profiles : /\ after.owned[q] \in Versions
                                      /\ disk[q] \in Versions \cup {"absent", "link"},
         op[p].kind \in Activating \cup {"register"}, op[p].pc \in {"ready", "prepare"},
         Transaction(p, after, chosen)
  PROVE  /\ op' \in [Procs -> Op] /\ \A q \in Procs \ {p} : op'[q] = op[q]
         /\ op'[p].kind = op[p].kind /\ op'[p].pc = "copy" /\ op'[p].target = op[p].target
         /\ op'[p].base = op[p].base /\ op'[p].modify = op[p].modify
         /\ op'[p].tx \in Tx /\ op'[p].tx.before = receipt /\ op'[p].tx.after = after
         /\ Reaches(op'[p].tx.changes) = chosen /\ Distinct(op'[p].tx.changes)
         /\ \A c \in Chg(op'[p].tx.changes) :
              /\ c.path \in chosen /\ c.before = disk[c.path]
              /\ c.after = IF c.path \in Profiles THEN [disk[c.path] EXCEPT !.block = "yes"]
                           ELSE after.owned[c.path]
<1>1. PICK order \in InOrder(chosen) :
        op' = [op EXCEPT ![p].pc = "copy",
                         ![p].tx = [before |-> receipt, after |-> after,
                                    changes |-> Changes(after, order)]]
  BY DEF Transaction
<1> DEFINE n == Cardinality(chosen)
           l == Changes(after, order)
           t == [before |-> receipt, after |-> after, changes |-> l]
           o == op[p]
           m == [kind |-> o.kind, pc |-> "copy", target |-> o.target, base |-> o.base,
                 modify |-> o.modify, todo |-> o.todo, tx |-> t, then |-> o.then]
<1>2. /\ order \in Seq(chosen) /\ DOMAIN order = 1 .. n
      /\ {order[i] : i \in DOMAIN order} = chosen /\ n \in Nat
      /\ \A i, j \in DOMAIN order : order[i] = order[j] => i = j
  BY Listing
<1>3. /\ DOMAIN l = 1 .. n
      /\ \A i \in 1 .. n :
           /\ l[i].path = order[i] /\ l[i].before = disk[order[i]]
           /\ l[i].after = IF order[i] \in Profiles THEN [disk[order[i]] EXCEPT !.block = "yes"]
                           ELSE after.owned[order[i]]
           /\ l[i] = [path |-> order[i], before |-> disk[order[i]],
                      after |-> IF order[i] \in Profiles
                                THEN [disk[order[i]] EXCEPT !.block = "yes"]
                                ELSE after.owned[order[i]]]
  BY <1>2 DEF Changes
<1> HIDE DEF l
<1>4. ASSUME NEW i \in 1 .. n PROVE l[i] \in TxChange
  <2> DEFINE q == order[i]
  <2>1. q \in chosen /\ q \in Paths /\ disk[q] \in AnyPlace /\ disk[q] \in Places(q)
    BY <1>2 DEF TypeInv
  <2>2. CASE q \in Profiles
    <3>1. disk[q] \in ProfileTexts
      BY <2>1, <2>2, PlaceTypes
    <3>2. [disk[q] EXCEPT !.block = "yes"] \in ProfileTexts
          /\ [disk[q] EXCEPT !.block = "yes"].block = "yes"
      BY <3>1 DEF ProfileTexts
    <3>3. [disk[q] EXCEPT !.block = "yes"] \in AnyPlace
      BY <2>1, <2>2, <3>2, PlaceTypes
    <3>4. l[i] = [path |-> q, before |-> disk[q], after |-> [disk[q] EXCEPT !.block = "yes"]]
      BY <1>3, <2>2
    <3>5. ASSUME NEW d \in ProfileTexts, d \in AnyPlace, d.block = "yes"
          PROVE  [path |-> q, before |-> disk[q], after |-> d] \in TxChange
      BY <2>1, <2>2, <3>1, <3>5 DEF TxChange
    <3>6. QED BY <3>2, <3>3, <3>4, <3>5
  <2>3. CASE q \notin Profiles
    <3>1. after.owned[q] \in Versions /\ disk[q] \in Versions \cup {"absent", "link"}
      BY <2>1, <2>3
    <3>2. after.owned[q] \in AnyPlace
      BY <2>1, <2>3, <3>1, Given, PlaceTypes DEF Contents
    <3>3. l[i] = [path |-> q, before |-> disk[q], after |-> after.owned[q]]
      BY <1>3, <2>3
    <3>4. QED BY <2>1, <2>3, <3>1, <3>2, <3>3 DEF TxChange, Contents
  <2>4. QED BY <2>2, <2>3
<1>5. n \in Nat
  BY <1>2
<1>6. l \in Seq(TxChange)
  <2>1. l \in [1 .. n -> TxChange]
    BY <1>3, <1>4 DEF l, Changes
  <2>2. QED BY <1>5, <2>1, IsASeq
<1>7. t \in Tx
  BY <1>6 DEF Tx, TypeInv
<1>8. o \in OpRecord /\ Placed(o)
  BY Here
<1>9. m \in OpRecord
  BY <1>7, <1>8 DEF OpRecord, Steps, Between
<1>10. Placed(m)
  <2>1. o.kind \in Activating => o.target \in Versions
    BY <1>8 DEF Placed
  <2> HIDE DEF t
  <2>2. QED BY <1>7, <2>1 DEF Placed, Removing, Forward, Backward, Listed, Activating
<1>11. [o EXCEPT !.pc = "copy", !.tx = t] = m
  <2>1. [o EXCEPT !.pc = "copy"] = Moved(o, "copy", o.todo)
    BY Here, OpFields
  <2> HIDE DEF t
  <2>2. [Moved(o, "copy", o.todo) EXCEPT !.tx = t] = m
    BY DEF Moved
  <2>3. QED BY <2>1, <2>2, Zenon
<1>12. op' = [op EXCEPT ![p] = m]
  <2>1. op' = [op EXCEPT ![p] = [o EXCEPT !.pc = "copy", !.tx = t]]
    BY <1>1 DEF l
  <2>2. QED BY <1>11, <2>1, Zenon
<1> HIDE DEF m
<1>13. op' \in [Procs -> Op] /\ op'[p] = m /\ \A q \in Procs \ {p} : op'[q] = op[q]
  BY <1>9, <1>10, <1>12, PutOp DEF Op, TypeInv
<1>14. /\ m.kind = o.kind /\ m.pc = "copy" /\ m.target = o.target /\ m.base = o.base
       /\ m.modify = o.modify /\ m.tx = t /\ t.before = receipt /\ t.after = after
       /\ t.changes = l
  BY DEF m
<1>15. /\ Reaches(l) = chosen /\ Distinct(l)
       /\ \A c \in Chg(l) :
            /\ c.path \in chosen /\ c.before = disk[c.path]
            /\ c.after = IF c.path \in Profiles THEN [disk[c.path] EXCEPT !.block = "yes"]
                         ELSE after.owned[c.path]
  <2>1. Distinct(l)
    <3>1. \A i \in 1 .. n : l[i].path = order[i]
      BY <1>3
    <3>2. QED BY <1>2, <1>3, <3>1 DEF Distinct
  <2>2. ASSUME NEW c \in Chg(l)
        PROVE  /\ c.path \in chosen /\ c.before = disk[c.path]
               /\ c.after = IF c.path \in Profiles THEN [disk[c.path] EXCEPT !.block = "yes"]
                            ELSE after.owned[c.path]
    <3>1. PICK i \in 1 .. n : c = l[i]
      BY <1>3 DEF Chg
    <3>2. c.path = order[i] /\ order[i] \in chosen
      BY <1>2, <1>3, <3>1
    <3>3. /\ c.before = disk[order[i]]
          /\ c.after = IF order[i] \in Profiles THEN [disk[order[i]] EXCEPT !.block = "yes"]
                       ELSE after.owned[order[i]]
      BY <1>3, <3>1
    <3>4. QED BY <3>2, <3>3
  <2>3. ASSUME NEW q \in chosen PROVE q \in Reaches(l)
    <3>1. PICK i \in 1 .. n : q = order[i]
      BY <1>2
    <3>2. l[i] \in Chg(l) /\ l[i].path = q
      BY <1>3, <3>1 DEF Chg
    <3>3. QED BY <3>2 DEF Reaches
  <2>4. QED BY <2>1, <2>2, <2>3 DEF Reaches
<1>16. QED BY <1>7, <1>13, <1>14, <1>15

\* What the transaction of p sets out to do, given the paths it takes.
Registers(p) == op[p].modify \/ (receipt # None /\ receipt.path)
Taken == {q \in Files \cup Bundles : Replaceable(q)}
Displaced(p) == IF receipt = None THEN None
                ELSE IF receipt.active = op[p].target THEN receipt.previous
                ELSE receipt.active

LEMMA ReceiptIs ==
  ASSUME TypeInv
  PROVE  /\ receipt # None => /\ receipt \in Receipts /\ receipt.active \in Versions
                              /\ receipt.previous \in Versions \cup {None}
                              /\ receipt.path \in BOOLEAN
                              /\ receipt.owned \in [Files \cup Bundles -> Versions \cup {None}]
         /\ \A q \in Files \cup Bundles : Owner(receipt, q) \in Versions \cup {None}
<1>1. receipt # None => receipt \in Receipts
  BY DEF TypeInv
<1>2. QED BY <1>1 DEF Receipts, Owner

LEMMA PrepareInstallIs ==
  ASSUME TypeInv, NEW p \in Procs, PrepareInstall(p)
  PROVE  /\ TypeInv' /\ \A q \in Procs \ {p} : op'[q] = op[q]
         /\ op[p].pc = "prepare" /\ op[p].kind \in Activating
         /\ op'[p].kind = op[p].kind /\ op'[p].pc = "copy" /\ op'[p].target = op[p].target
         /\ op'[p].base = op[p].base /\ op'[p].modify = op[p].modify
         /\ op'[p].tx \in Tx /\ op'[p].tx.before = receipt
         /\ op'[p].tx.after.active = op[p].target
         /\ op'[p].tx.after.previous = Displaced(p) /\ op'[p].tx.after.path = Registers(p)
         /\ \A q \in Files \cup Bundles : op'[p].tx.after.owned[q] =
              IF q \in Taken THEN op[p].target ELSE Owner(receipt, q)
         /\ op[p].target \in Versions
         /\ Reaches(op'[p].tx.changes) = Taken \cup IF Registers(p) THEN Unregistered ELSE {}
         /\ Distinct(op'[p].tx.changes)
         /\ \A c \in Chg(op'[p].tx.changes) :
              /\ c.before = disk[c.path]
              /\ c.after = IF c.path \in Profiles THEN [disk[c.path] EXCEPT !.block = "yes"]
                           ELSE op'[p].tx.after.owned[c.path]
         /\ Registers(p) => CanRegister
         /\ aside' = "absent"
         /\ UNCHANGED <<disk, installation, locks, cut, touched, counts>>
<1> DEFINE after == [active |-> op[p].target, previous |-> Displaced(p), path |-> Registers(p),
                     owned |-> [q \in Files \cup Bundles |->
                        IF q \in Taken THEN op[p].target ELSE Owner(receipt, q)]]
           chosen == Taken \cup IF Registers(p) THEN Unregistered ELSE {}
<1>1. /\ op[p].pc = "prepare" /\ aside' = "absent"
      /\ UNCHANGED <<disk, installation, locks, cut, touched, counts>>
      /\ Registers(p) => CanRegister
      /\ Transaction(p, after, chosen)
  BY DEF PrepareInstall, Registers, Displaced, Taken
<1>2. op[p].kind \in Activating /\ op[p].target \in Versions /\ op[p].modify \in BOOLEAN
  BY <1>1, Here, OpFields DEF Placed
<1>3. after \in Receipts
  <2>1. Displaced(p) \in Versions \cup {None}
    BY ReceiptIs DEF Displaced
  <2>2. Registers(p) \in BOOLEAN
    BY <1>2, ReceiptIs DEF Registers
  <2>3. [q \in Files \cup Bundles |-> IF q \in Taken THEN op[p].target ELSE Owner(receipt, q)]
          \in [Files \cup Bundles -> Versions \cup {None}]
    BY <1>2, ReceiptIs
  <2>4. QED BY <1>2, <2>1, <2>2, <2>3 DEF Receipts
<1>4. chosen \in SUBSET Paths
  BY Given DEF Taken, Unregistered
<1>5. /\ after.active = op[p].target /\ after.previous = Displaced(p) /\ after.path = Registers(p)
      /\ \A q \in Files \cup Bundles :
           after.owned[q] = IF q \in Taken THEN op[p].target ELSE Owner(receipt, q)
  OBVIOUS
<1> HIDE DEF after
<1>6. \A q \in chosen \ Profiles : /\ after.owned[q] \in Versions
                                   /\ disk[q] \in Versions \cup {"absent", "link"}
  <2>1. ASSUME NEW q \in Taken
        PROVE  after.owned[q] \in Versions /\ disk[q] \in Versions \cup {"absent", "link"}
    BY <1>2, <1>5, ReceiptIs DEF Taken, Replaceable, Matches
  <2>2. QED BY <2>1 DEF Unregistered
<1> HIDE DEF chosen
<1>7. /\ op' \in [Procs -> Op] /\ \A q \in Procs \ {p} : op'[q] = op[q]
      /\ op'[p].kind = op[p].kind /\ op'[p].pc = "copy" /\ op'[p].target = op[p].target
      /\ op'[p].base = op[p].base /\ op'[p].modify = op[p].modify
      /\ op'[p].tx \in Tx /\ op'[p].tx.before = receipt /\ op'[p].tx.after = after
      /\ Reaches(op'[p].tx.changes) = chosen /\ Distinct(op'[p].tx.changes)
      /\ \A c \in Chg(op'[p].tx.changes) :
           /\ c.path \in chosen /\ c.before = disk[c.path]
           /\ c.after = IF c.path \in Profiles THEN [disk[c.path] EXCEPT !.block = "yes"]
                        ELSE after.owned[c.path]
  BY <1>1, <1>2, <1>3, <1>4, <1>6, TransactionIs
<1>8. TypeInv'
  BY <1>1, <1>7 DEF TypeInv, installation, locks, Contents
<1>9. QED BY <1>1, <1>2, <1>5, <1>7, <1>8 DEF chosen

LEMMA PrepareRegisterIs ==
  ASSUME TypeInv, NEW p \in Procs, PrepareRegister(p)
  PROVE  /\ TypeInv' /\ \A q \in Procs \ {p} : op'[q] = op[q]
         /\ op[p].pc = "ready" /\ op[p].kind = "register"
         /\ op'[p].kind = op[p].kind /\ op'[p].pc = "copy" /\ op'[p].target = op[p].target
         /\ op'[p].base = op[p].base /\ op'[p].modify = op[p].modify
         /\ receipt # None
         /\ op'[p].tx \in Tx /\ op'[p].tx.before = receipt
         /\ op'[p].tx.after = [receipt EXCEPT !.path = TRUE]
         /\ op'[p].tx.after.path /\ op'[p].tx.after.owned = receipt.owned
         /\ Reaches(op'[p].tx.changes) = Unregistered
         /\ Distinct(op'[p].tx.changes)
         /\ \A c \in Chg(op'[p].tx.changes) :
              /\ c.before = disk[c.path] /\ c.path \in Profiles
              /\ c.after = [disk[c.path] EXCEPT !.block = "yes"]
         /\ CanRegister
         /\ UNCHANGED <<disk, aside, installation, locks, cut, touched, counts>>
<1> DEFINE after == [receipt EXCEPT !.path = TRUE]
<1>1. /\ op[p].pc = "ready" /\ op[p].kind = "register" /\ receipt # None /\ CanRegister
      /\ UNCHANGED <<disk, aside, installation, locks, cut, touched, counts>>
      /\ Transaction(p, after, Unregistered)
  BY DEF PrepareRegister
<1>2. receipt \in Receipts
  BY <1>1, ReceiptIs
<1>3. after \in Receipts /\ after.path /\ after.owned = receipt.owned
  BY <1>2 DEF Receipts
<1> HIDE DEF after
<1>4. Unregistered \in SUBSET Paths /\ Unregistered \subseteq Profiles
  BY Given DEF Unregistered
<1>5. /\ op' \in [Procs -> Op] /\ \A q \in Procs \ {p} : op'[q] = op[q]
      /\ op'[p].kind = op[p].kind /\ op'[p].pc = "copy" /\ op'[p].target = op[p].target
      /\ op'[p].base = op[p].base /\ op'[p].modify = op[p].modify
      /\ op'[p].tx \in Tx /\ op'[p].tx.before = receipt /\ op'[p].tx.after = after
      /\ Reaches(op'[p].tx.changes) = Unregistered /\ Distinct(op'[p].tx.changes)
      /\ \A c \in Chg(op'[p].tx.changes) :
           /\ c.path \in Unregistered /\ c.before = disk[c.path]
           /\ c.after = IF c.path \in Profiles THEN [disk[c.path] EXCEPT !.block = "yes"]
                        ELSE after.owned[c.path]
  <2>1. \A q \in Unregistered \ Profiles : /\ after.owned[q] \in Versions
                                           /\ disk[q] \in Versions \cup {"absent", "link"}
    BY <1>4
  <2>2. QED BY <1>1, <1>3, <1>4, <2>1, TransactionIs
<1>6. TypeInv'
  BY <1>1, <1>5 DEF TypeInv, installation, locks
<1>7. QED BY <1>1, <1>3, <1>4, <1>5, <1>6 DEF after

LEMMA BackUpIs ==
  ASSUME TypeInv, NEW p \in Procs, BackUp(p)
  PROVE  /\ TypeInv' /\ Still /\ UNCHANGED locks /\ \A q \in Procs \ {p} : op'[q] = op[q]
         /\ op[p].pc = "copy" /\ op[p].tx \in Tx
         /\ op'[p].kind = op[p].kind /\ op'[p].pc = "journal" /\ op'[p].target = op[p].target
         /\ op'[p].base = op[p].base /\ op'[p].modify = op[p].modify /\ op'[p].tx \in Tx
         /\ op'[p].tx.before = op[p].tx.before /\ op'[p].tx.after = op[p].tx.after
         /\ Reaches(op'[p].tx.changes) = Reaches(op[p].tx.changes)
         /\ Distinct(op[p].tx.changes) => Distinct(op'[p].tx.changes)
         /\ \A d \in Chg(op'[p].tx.changes) : \E c \in Chg(op[p].tx.changes) :
              /\ c.path = d.path /\ c.after = d.after
              /\ d.before = IF c.path \in Bundles THEN c.before ELSE disk[c.path]
<1> DEFINE o == op[p]
           k == o.tx.changes
           l == [i \in DOMAIN k |-> Copied(k[i])]
           t == [before |-> o.tx.before, after |-> o.tx.after, changes |-> l]
           m == [kind |-> o.kind, pc |-> "journal", target |-> o.target, base |-> o.base,
                 modify |-> o.modify, todo |-> o.todo, tx |-> t, then |-> o.then]
<1>1. /\ o.pc = "copy" /\ Still /\ UNCHANGED locks
      /\ op' = [op EXCEPT ![p].pc = "journal", ![p].tx.changes = l]
  BY DEF BackUp, Still
<1>2. /\ o.tx \in Tx /\ k \in Seq(TxChange) /\ o \in Op /\ o \in OpRecord /\ Placed(o)
      /\ DOMAIN k = 1 .. Len(k) /\ Len(k) \in Nat /\ \A i \in DOMAIN k : k[i] \in TxChange
  <2>1. o \in Op /\ o \in OpRecord /\ Placed(o)
    BY Here
  <2>2. o.tx \in Tx
    BY <1>1, <2>1 DEF Placed
  <2>3. k \in Seq(TxChange)
    BY <2>2 DEF Tx
  <2>4. QED BY <2>1, <2>2, <2>3, LenProperties, ElementOfSeq
<1>3. ASSUME NEW c \in TxChange
      PROVE  /\ Copied(c) \in TxChange /\ Copied(c).path = c.path /\ Copied(c).after = c.after
             /\ Copied(c).before = IF c.path \in Bundles THEN c.before ELSE disk[c.path]
  <2>1. CASE c.path \in Bundles
    BY <2>1 DEF Copied
  <2>2. CASE c.path \notin Bundles
    <3>1. c.path \in Paths /\ disk[c.path] \in AnyPlace /\ disk[c.path] \in Places(c.path)
      BY ChangeIsTyped DEF Tasks, TypeInv
    <3>2. Copied(c) = [path |-> c.path, before |-> disk[c.path], after |-> c.after]
      BY <2>2 DEF Copied, TxChange
    <3>3. c.path \in Profiles => disk[c.path] \in ProfileTexts
      BY <3>1, PlaceTypes
    <3>4. c.path \notin Profiles => disk[c.path] \in Contents
      BY <3>1, Given, PlaceTypes
    <3>5. QED BY <2>2, <3>1, <3>2, <3>3, <3>4 DEF TxChange
  <2>3. QED BY <2>1, <2>2
<1>4. DOMAIN l = DOMAIN k /\ \A i \in DOMAIN k : l[i] = Copied(k[i])
  OBVIOUS
<1>5. l \in Seq(TxChange)
  <2>1. l \in [1 .. Len(k) -> TxChange]
    BY <1>2, <1>3
  <2>2. QED BY <1>2, <2>1, IsASeq
<1> HIDE DEF l
<1>6. t \in Tx
  BY <1>2, <1>5 DEF Tx
<1>7. m \in OpRecord
  BY <1>2, <1>6 DEF OpRecord, Steps, Between
<1>8. Placed(m)
  <2> HIDE DEF t
  <2>1. QED BY <1>1, <1>2, <1>6 DEF Placed, Removing, Forward, Backward, Listed, Activating
<1>9. [o EXCEPT !.pc = "journal", !.tx.changes = l] = m
  <2> DEFINE a == Moved(o, "journal", o.todo)
  <2>1. [o EXCEPT !.pc = "journal"] = a
    BY <1>2, OpFields
  <2>2. a.tx = o.tx
    BY DEF Moved
  <2>3. [o.tx EXCEPT !.changes = l] = t
    BY <1>2 DEF Tx
  <2>4. [a EXCEPT !.tx = t] = m
    BY DEF Moved
  <2>5. [a EXCEPT !.tx.changes = l] = [a EXCEPT !.tx = [a.tx EXCEPT !.changes = l]]
    OBVIOUS
  <2>6. [o EXCEPT !.pc = "journal", !.tx.changes = l]
          = [[o EXCEPT !.pc = "journal"] EXCEPT !.tx.changes = l]
    OBVIOUS
  <2> HIDE DEF a, t, m
  <2>7. QED BY <2>1, <2>2, <2>3, <2>4, <2>5, <2>6, Zenon
<1>10. op' = [op EXCEPT ![p] = m]
  <2>1. op' = [op EXCEPT ![p] = [o EXCEPT !.pc = "journal", !.tx.changes = l]]
    BY <1>1
  <2>2. QED BY <1>9, <2>1, Zenon
<1> HIDE DEF m
<1>11. op' \in [Procs -> Op] /\ op'[p] = m /\ \A q \in Procs \ {p} : op'[q] = op[q]
  BY <1>7, <1>8, <1>10, PutOp DEF Op, TypeInv
<1>12. TypeInv'
  BY <1>1, <1>11 DEF TypeInv, installation, locks, Still
<1>13. /\ m.kind = o.kind /\ m.pc = "journal" /\ m.target = o.target /\ m.base = o.base
       /\ m.modify = o.modify /\ m.tx = t /\ t.before = o.tx.before /\ t.after = o.tx.after
       /\ t.changes = l
  BY DEF m
<1>14. \A i \in DOMAIN k : l[i].path = k[i].path
  BY <1>2, <1>3, <1>4
<1>15. Distinct(k) => Distinct(l)
  BY <1>4, <1>14 DEF Distinct
<1>16. Reaches(l) = Reaches(k)
  BY <1>4, <1>14 DEF Reaches, Chg
<1>17. ASSUME NEW d \in Chg(l)
       PROVE  \E c \in Chg(k) :
                /\ c.path = d.path /\ c.after = d.after
                /\ d.before = IF c.path \in Bundles THEN c.before ELSE disk[c.path]
  <2>1. PICK i \in DOMAIN k : d = l[i]
    BY <1>4 DEF Chg
  <2>2. k[i] \in Chg(k) /\ k[i] \in TxChange /\ d = Copied(k[i])
    BY <1>2, <1>4, <2>1 DEF Chg
  <2>3. QED BY <1>3, <2>2
<1> HIDE DEF t
<1>18. QED BY <1>1, <1>2, <1>6, <1>11, <1>12, <1>13, <1>15, <1>16, <1>17

LEMMA WriteJournalIs ==
  ASSUME TypeInv, NEW p \in Procs, WriteJournal(p)
  PROVE  /\ TypeInv' /\ \A q \in Procs \ {p} : op'[q] = op[q]
         /\ op[p].pc = "journal" /\ op[p].tx \in Tx /\ journal' = op[p].tx
         /\ op'[p] = Moved(op[p], "apply", op[p].tx.changes)
         /\ UNCHANGED <<disk, aside, receipt, generations, locks, cut, touched, counts>>
<1> DEFINE o == op[p]
           l == o.tx.changes
<1>1. /\ o.pc = "journal" /\ journal' = o.tx
      /\ op' = [op EXCEPT ![p].pc = "apply", ![p].todo = l]
      /\ UNCHANGED <<disk, aside, receipt, generations, locks, cut, touched, counts>>
  BY DEF WriteJournal
<1>2. o.tx \in Tx /\ l \in Seq(TxChange) /\ o \in Op /\ Placed(o)
  BY <1>1, Here DEF Placed, Tx
<1>3. l \in Seq(Tasks)
  BY <1>2, TaskLists
<1>4. op' = [op EXCEPT ![p] = Moved(o, "apply", l)]
  <2>1. op' = [op EXCEPT ![p] = [o EXCEPT !.pc = "apply", !.todo = l]]
    BY <1>1
  <2>2. \A y, k : [o EXCEPT !.pc = y, !.todo = k] = Moved(o, y, k)
    BY <1>2, OpFields, Zenon
  <2>3. QED BY <2>1, <2>2, Zenon
<1>5. Placed(Moved(o, "apply", l))
  <2> DEFINE m == Moved(o, "apply", l)
  <2>1. /\ m.kind = o.kind /\ m.pc = "apply" /\ m.target = o.target /\ m.tx = o.tx
        /\ m.todo = l
    BY MovedFields
  <2> HIDE DEF m
  <2>2. o.kind \in Activating \cup {"register"} /\ (o.kind \in Activating => m.target \in Versions)
    BY <1>1, <1>2, <2>1 DEF Placed
  <2>3. m.kind # "launch"
    BY <2>1, <2>2 DEF Activating
  <2>4. Placed(m)
    BY <1>2, <2>1, <2>2, <2>3 DEF Placed, Removing, Forward, Backward, Listed
  <2>5. QED BY <2>4 DEF m
<1>6. Moved(o, "apply", l) \in Op
  BY <1>2, <1>3, <1>5, MovedIsRecord DEF Op, Steps, Forward
<1>7. op' \in [Procs -> Op] /\ op'[p] = Moved(o, "apply", l) /\ \A q \in Procs \ {p} : op'[q] = op[q]
  BY <1>4, <1>6, PutOp DEF TypeInv
<1>8. TypeInv'
  BY <1>1, <1>2, <1>7 DEF TypeInv, locks
<1>9. QED BY <1>1, <1>2, <1>7, <1>8

LEMMA ApplyFileIs ==
  ASSUME TypeInv, NEW p \in Procs, ApplyFile(p)
  PROVE  /\ TypeInv' /\ \A q \in Procs \ {p} : op'[q] = op[q]
         /\ op'[p] = Moved(op[p], "apply", Tail(op[p].todo))
         /\ op[p].pc = "apply" /\ op[p].todo # <<>> /\ Change(p).path \in Plain
         /\ \A q \in Paths \ {Change(p).path} : disk'[q] = disk[q]
         /\ disk'[Change(p).path] = Change(p).after
         /\ UNCHANGED <<aside, installation, locks, cut, touched, counts>>
<1>1. /\ op[p].pc = "apply" /\ op[p].todo # <<>> /\ Change(p).path \notin Bundles
      /\ UNCHANGED <<aside, installation, locks, cut, touched, counts>> /\ Advance(p, "apply")
      /\ disk' = [disk EXCEPT ![Change(p).path] = Change(p).after]
  BY DEF ApplyFile, At
<1>2. Change(p) \in TxChange
  BY <1>1, TodoIs
<1>3. Change(p).path \in Paths /\ Change(p).after \in Places(Change(p).path)
  BY <1>2, ChangeIsTyped
<1>4. Change(p).path \in Plain
  BY <1>1, <1>3, Given DEF Plain
<1>5. /\ op' \in [Procs -> Op] /\ \A q \in Procs \ {p} : op'[q] = op[q]
      /\ op'[p] = Moved(op[p], "apply", Tail(op[p].todo))
  BY <1>1, AdvanceTypes
<1>6. /\ disk' \in [Paths -> AnyPlace] /\ \A r \in Paths : disk'[r] \in Places(r)
      /\ \A q \in Paths \ {Change(p).path} : disk'[q] = disk[q]
      /\ disk'[Change(p).path] = Change(p).after
  BY <1>1, <1>3, PutContent
<1>7. TypeInv'
  BY <1>1, <1>5, <1>6 DEF TypeInv, installation, locks
<1>8. QED BY <1>1, <1>4, <1>5, <1>6, <1>7

LEMMA MoveAsideIs ==
  ASSUME TypeInv, NEW p \in Procs, MoveAside(p)
  PROVE  /\ TypeInv' /\ \A q \in Procs \ {p} : op'[q] = op[q]
         /\ op'[p] = Moved(op[p], "swap", op[p].todo)
         /\ op[p].pc = "apply" /\ op[p].todo # <<>> /\ Change(p).path \in Bundles
         /\ Change(p).before # "absent" /\ disk[Change(p).path] # "absent"
         /\ aside' = disk[Change(p).path]
         /\ \A q \in Paths \ {Change(p).path} : disk'[q] = disk[q]
         /\ disk'[Change(p).path] = "absent"
         /\ UNCHANGED <<installation, locks, cut, touched, counts>>
<1>1. /\ op[p].pc = "apply" /\ op[p].todo # <<>> /\ Change(p).path \in Bundles
      /\ Change(p).before # "absent" /\ disk[Change(p).path] # "absent"
      /\ aside' = disk[Change(p).path] /\ Goto(p, "swap")
      /\ disk' = [disk EXCEPT ![Change(p).path] = "absent"]
      /\ UNCHANGED <<installation, locks, cut, touched, counts>>
  BY DEF MoveAside, At
<1>2. Placed(Moved(op[p], "swap", op[p].todo)) /\ "swap" \in Steps
  BY <1>1, Here, MovedFields DEF Placed, Change, Steps, Removing, Forward, Backward, Listed
<1>3. /\ op' \in [Procs -> Op] /\ \A q \in Procs \ {p} : op'[q] = op[q]
      /\ op'[p] = Moved(op[p], "swap", op[p].todo)
  BY <1>1, <1>2, GoesTo
<1>4. "absent" \in Places(Change(p).path) /\ Change(p).path \in Paths
  BY <1>1, Given, PlaceTypes DEF Contents
<1>5. /\ disk' \in [Paths -> AnyPlace] /\ \A r \in Paths : disk'[r] \in Places(r)
      /\ \A q \in Paths \ {Change(p).path} : disk'[q] = disk[q]
      /\ disk'[Change(p).path] = "absent"
  BY <1>1, <1>4, PutContent
<1>6. aside' \in Contents
  BY <1>1, Given, PlaceTypes DEF TypeInv
<1>7. TypeInv'
  BY <1>1, <1>3, <1>5, <1>6 DEF TypeInv, installation, locks
<1>8. QED BY <1>1, <1>3, <1>5, <1>7

LEMMA ActivateBundleIs ==
  ASSUME TypeInv, NEW p \in Procs, ActivateBundle(p)
  PROVE  /\ TypeInv' /\ \A q \in Procs \ {p} : op'[q] = op[q]
         /\ op'[p] = Moved(op[p], "apply", Tail(op[p].todo))
         /\ op[p].pc \in {"swap", "apply"} /\ op[p].todo # <<>> /\ Change(p).path \in Bundles
         /\ op[p].pc = "apply" => Change(p).before = "absent"
         /\ disk[Change(p).path] = "absent"
         /\ \A q \in Paths \ {Change(p).path} : disk'[q] = disk[q]
         /\ disk'[Change(p).path] = Change(p).after
         /\ UNCHANGED <<aside, installation, locks, cut, touched, counts>>
<1>1. /\ op[p].pc \in {"swap", "apply"} /\ op[p].todo # <<>>
      /\ op[p].pc = "apply" => Change(p).path \in Bundles /\ Change(p).before = "absent"
      /\ disk[Change(p).path] = "absent" /\ Advance(p, "apply")
      /\ disk' = [disk EXCEPT ![Change(p).path] = Change(p).after]
      /\ UNCHANGED <<aside, installation, locks, cut, touched, counts>>
  BY DEF ActivateBundle, At
<1>2. Change(p).path \in Bundles
  BY <1>1, Here DEF Placed, Change
<1>3. Change(p) \in TxChange
  BY <1>1, TodoIs
<1>4. Change(p).path \in Paths /\ Change(p).after \in Places(Change(p).path)
  BY <1>3, ChangeIsTyped
<1>5. /\ op' \in [Procs -> Op] /\ \A q \in Procs \ {p} : op'[q] = op[q]
      /\ op'[p] = Moved(op[p], "apply", Tail(op[p].todo))
  BY <1>1, AdvanceTypes
<1>6. /\ disk' \in [Paths -> AnyPlace] /\ \A r \in Paths : disk'[r] \in Places(r)
      /\ \A q \in Paths \ {Change(p).path} : disk'[q] = disk[q]
      /\ disk'[Change(p).path] = Change(p).after
  BY <1>1, <1>4, PutContent
<1>7. TypeInv'
  BY <1>1, <1>5, <1>6 DEF TypeInv, installation, locks
<1>8. QED BY <1>1, <1>2, <1>5, <1>6, <1>7

LEMMA WriteReceiptIs ==
  ASSUME TypeInv, NEW p \in Procs, WriteReceipt(p)
  PROVE  /\ TypeInv' /\ \A q \in Procs \ {p} : op'[q] = op[q]
         /\ op'[p] = Moved(op[p], IF op[p].kind = "register" THEN "commit" ELSE "verify", op[p].todo)
         /\ op[p].pc = "apply" /\ op[p].todo = <<>> /\ receipt' = op[p].tx.after
         /\ UNCHANGED <<disk, aside, journal, generations, locks, cut, touched, counts>>
<1> DEFINE x == IF op[p].kind = "register" THEN "commit" ELSE "verify"
<1>1. /\ op[p].pc = "apply" /\ op[p].todo = <<>> /\ receipt' = op[p].tx.after /\ Goto(p, x)
      /\ UNCHANGED <<disk, aside, journal, generations, locks, cut, touched, counts>>
  BY DEF WriteReceipt, Done
<1>2. op[p].kind \in Activating \cup {"register"} /\ op[p].tx \in Tx /\ Placed(op[p])
  BY <1>1, Here DEF Placed, Forward
<1>3. Placed(Moved(op[p], x, op[p].todo)) /\ x \in Steps
  BY <1>2, MovedFields DEF Placed, Steps, Removing, Forward, Backward, Listed, Activating
<1>4. /\ op' \in [Procs -> Op] /\ \A q \in Procs \ {p} : op'[q] = op[q]
      /\ op'[p] = Moved(op[p], x, op[p].todo)
  BY <1>1, <1>3, GoesTo
<1>5. receipt' \in Receipts \cup {None}
  BY <1>1, <1>2 DEF Tx
<1>6. TypeInv'
  BY <1>1, <1>4, <1>5 DEF TypeInv, locks
<1>7. QED BY <1>1, <1>4, <1>6

LEMMA VerifyIs ==
  ASSUME TypeInv, NEW p \in Procs, Verify(p)
  PROVE  /\ TypeInv' /\ \A q \in Procs \ {p} : op'[q] = op[q]
         /\ op'[p] = Moved(op[p], "commit", op[p].todo) /\ op[p].pc = "verify"
         /\ UNCHANGED <<disk, aside, installation, locks, cut, touched, counts>>
<1>1. /\ op[p].pc = "verify" /\ Goto(p, "commit")
      /\ UNCHANGED <<disk, aside, installation, locks, cut, touched, counts>>
  BY DEF Verify
<1>2. Placed(Moved(op[p], "commit", op[p].todo)) /\ "commit" \in Steps
  BY <1>1, Here, MovedFields DEF Placed, Steps, Removing, Forward, Backward, Listed, Activating
<1>3. /\ op' \in [Procs -> Op] /\ \A q \in Procs \ {p} : op'[q] = op[q]
      /\ op'[p] = Moved(op[p], "commit", op[p].todo)
  BY <1>1, <1>2, GoesTo
<1>4. TypeInv'
  BY <1>1, <1>3 DEF TypeInv, installation, locks
<1>5. QED BY <1>1, <1>3, <1>4

LEMMA ClearJournalIs ==
  ASSUME TypeInv, NEW p \in Procs, ClearJournal(p)
  PROVE  /\ TypeInv' /\ \A q \in Procs \ {p} : op'[q] = op[q]
         /\ op[p].pc = "commit" /\ journal' = None
         /\ \/ op[p].kind = "register" /\ op'[p] = Idle /\ Return(p)
            \/ /\ op[p].kind \in Activating /\ op'[p] = Moved(op[p], "finish", op[p].todo)
               /\ UNCHANGED locks
         /\ cut' = (cut /\ op[p].kind = "register")
         /\ UNCHANGED <<disk, aside, receipt, generations, touched, counts>>
<1>1. /\ op[p].pc = "commit" /\ journal' = None /\ cut' = (cut /\ op[p].kind = "register")
      /\ UNCHANGED <<disk, aside, receipt, generations, touched, counts>>
  BY DEF ClearJournal
<1>2. cut' \in BOOLEAN
  BY <1>1
<1>3. CASE op[p].kind = "register" /\ Return(p)
  <2>1. /\ op' \in [Procs -> Op] /\ op'[p] = Idle /\ \A q \in Procs \ {p} : op'[q] = op[q]
        /\ held' \in [Procs -> Locks] /\ lockFile' = lockFile /\ shared' \in {shared, None}
    BY <1>3, ReturnIs
  <2>2. TypeInv'
    BY <1>1, <1>2, <2>1 DEF TypeInv
  <2>3. QED BY <1>1, <1>3, <2>1, <2>2
<1>4. CASE op[p].kind # "register" /\ Goto(p, "finish") /\ UNCHANGED locks
  <2>1. op[p].kind \in Activating
    BY <1>1, <1>4, Here DEF Placed, Forward
  <2>2. Placed(Moved(op[p], "finish", op[p].todo)) /\ "finish" \in Steps
    BY <1>1, <2>1, Here, MovedFields DEF Placed, Steps, Removing, Forward, Backward, Listed, Between,
                                         Activating
  <2>3. /\ op' \in [Procs -> Op] /\ \A q \in Procs \ {p} : op'[q] = op[q]
        /\ op'[p] = Moved(op[p], "finish", op[p].todo)
    BY <1>4, <2>2, GoesTo
  <2>4. TypeInv'
    BY <1>1, <1>2, <1>4, <2>3 DEF TypeInv, locks
  <2>5. QED BY <1>1, <1>4, <2>1, <2>3, <2>4
<1>5. QED BY <1>3, <1>4 DEF ClearJournal

LEMMA FinishIs ==
  ASSUME TypeInv, NEW p \in Procs, Finish(p)
  PROVE  /\ TypeInv' /\ \A q \in Procs \ {p} : op'[q] = op[q]
         /\ op'[p] = Idle /\ op[p].pc = "finish" /\ aside' \in {aside, "absent"} /\ Return(p)
         /\ UNCHANGED <<disk, installation, cut, touched, counts>>
<1>1. /\ op[p].pc = "finish" /\ aside' \in {aside, "absent"} /\ Return(p)
      /\ UNCHANGED <<disk, installation, cut, touched, counts>>
  BY DEF Finish
<1>2. /\ op' \in [Procs -> Op] /\ op'[p] = Idle /\ \A q \in Procs \ {p} : op'[q] = op[q]
      /\ held' \in [Procs -> Locks] /\ lockFile' = lockFile /\ shared' \in {shared, None}
  BY <1>1, ReturnIs
<1>3. TypeInv'
  BY <1>1, <1>2 DEF TypeInv, installation, Contents
<1>4. QED BY <1>1, <1>2, <1>3

\* What a removal sets out to do.
LEMMA PreflightIs ==
  ASSUME TypeInv, NEW p \in Procs, Preflight(p)
  PROVE  /\ TypeInv' /\ \A q \in Procs \ {p} : op'[q] = op[q]
         /\ op[p].pc = "ready" /\ op[p].kind = "uninstall" /\ receipt # None
         /\ \A q \in Recorded : disk[q] = "absent" \/ Matches(receipt, q)
         /\ op'[p].kind = op[p].kind /\ op'[p].pc = "unregister" /\ op'[p].target = op[p].target
         /\ op'[p].base = op[p].base /\ op'[p].modify = op[p].modify
         /\ Reaches(op'[p].todo) = Recorded
         /\ UNCHANGED <<disk, aside, installation, locks, cut, touched, counts>>
<1>1. /\ op[p].pc = "ready" /\ op[p].kind = "uninstall" /\ receipt # None
      /\ \A q \in Recorded : disk[q] = "absent" \/ Matches(receipt, q)
      /\ UNCHANGED <<disk, aside, installation, locks, cut, touched, counts>>
  BY DEF Preflight
<1>2. PICK order \in InOrder(Recorded) :
        op' = [op EXCEPT ![p].pc = "unregister", ![p].todo =
                 [i \in DOMAIN order |->
                    [path |-> order[i], before |-> receipt.owned[order[i]],
                     after |-> "absent"]]]
  BY DEF Preflight
<1> DEFINE n == Cardinality(Recorded)
           l == [i \in DOMAIN order |->
                   [path |-> order[i], before |-> receipt.owned[order[i]], after |-> "absent"]]
           m == Moved(op[p], "unregister", l)
<1>3. Recorded \in SUBSET Paths
  BY Given DEF Recorded
<1>4. /\ DOMAIN order = 1 .. n /\ n \in Nat /\ order \in Seq(Recorded)
      /\ {order[i] : i \in DOMAIN order} = Recorded
  BY <1>3, Listing
<1>5. \A i \in 1 .. n : order[i] \in Recorded
  BY <1>4
<1>6. ASSUME NEW q \in Recorded
      PROVE  [path |-> q, before |-> receipt.owned[q], after |-> "absent"] \in RemovalChange
  BY <1>1, ReceiptIs DEF Recorded, Owner, RemovalChange
<1>7. l \in [1 .. n -> RemovalChange]
  BY <1>4, <1>5, <1>6
<1>8. DOMAIN l = 1 .. n /\ \A i \in 1 .. n : l[i].path = order[i]
  BY <1>4
<1> HIDE DEF l
<1>9. l \in Seq(RemovalChange)
  <2>1. n \in Nat
    BY <1>4
  <2>2. QED BY <1>7, <2>1, IsASeq
<1>10. l \in Seq(Tasks)
  BY <1>9, TaskLists
<1>11. Reaches(l) = Recorded
  <2>1. ASSUME NEW q \in Recorded PROVE q \in Reaches(l)
    <3>1. PICK i \in 1 .. n : order[i] = q
      BY <1>4
    <3>2. l[i] \in Chg(l) /\ l[i].path = q
      BY <1>8, <3>1 DEF Chg
    <3>3. QED BY <3>2 DEF Reaches
  <2>2. ASSUME NEW c \in Chg(l) PROVE c.path \in Recorded
    <3>1. PICK i \in 1 .. n : c = l[i]
      BY <1>8 DEF Chg
    <3>2. QED BY <1>5, <1>8, <3>1
  <2>3. QED BY <2>1, <2>2 DEF Reaches
<1>12. op' = [op EXCEPT ![p] = m]
  <2>1. op' = [op EXCEPT ![p] = [op[p] EXCEPT !.pc = "unregister", !.todo = l]]
    BY <1>2 DEF l
  <2>2. op[p] \in Op
    BY Here
  <2>3. \A y, k : [op[p] EXCEPT !.pc = y, !.todo = k] = Moved(op[p], y, k)
    BY <2>2, OpFields, Zenon
  <2>4. QED BY <2>1, <2>3, Zenon
<1>13. m \in OpRecord
  BY <1>10, Here, MovedIsRecord DEF Steps, Removing
<1>14. /\ m.kind = op[p].kind /\ m.pc = "unregister" /\ m.target = op[p].target
       /\ m.base = op[p].base /\ m.modify = op[p].modify /\ m.todo = l
  BY MovedFields
<1> HIDE DEF m
<1>15. Placed(m)
  BY <1>1, <1>9, <1>14 DEF Placed, Activating, Removing, Forward, Backward, Listed
<1>16. op' \in [Procs -> Op] /\ op'[p] = m /\ \A q \in Procs \ {p} : op'[q] = op[q]
  BY <1>12, <1>13, <1>15, PutOp DEF Op, TypeInv
<1>17. TypeInv'
  BY <1>1, <1>16 DEF TypeInv, installation, locks
<1>18. QED BY <1>1, <1>11, <1>14, <1>16, <1>17

LEMMA UnregisterIs ==
  ASSUME TypeInv, NEW p \in Procs, Unregister(p)
  PROVE  /\ TypeInv' /\ \A q \in Procs \ {p} : op'[q] = op[q]
         /\ op[p].pc = "unregister" /\ cut' = TRUE
         /\ \/ \E q \in Registered : \E c \in StripChange :
                 /\ q \in Profiles /\ disk[q] \in ProfileTexts
                 /\ c.path = q /\ c.before = disk[q]
                 /\ c.after = [disk[q] EXCEPT !.block = "no"]
                 /\ op'[p].pc = "strip" /\ Head(op'[p].todo) = c
                 /\ Tail(op'[p].todo) = op[p].todo
            \/ Registered = {} /\ op'[p] = Moved(op[p], "remove", op[p].todo)
         /\ op'[p].kind = op[p].kind /\ op'[p].target = op[p].target
         /\ op'[p].base = op[p].base /\ op'[p].modify = op[p].modify
         /\ op'[p].tx = op[p].tx /\ op'[p].then = op[p].then
         /\ UNCHANGED <<disk, aside, installation, locks, touched, counts>>
<1>1. /\ op[p].pc = "unregister" /\ cut' = TRUE
      /\ UNCHANGED <<disk, aside, installation, locks, touched, counts>>
  BY DEF Unregister
<1>2. op[p].todo \in Seq(RemovalChange) /\ op[p].kind = "uninstall" /\ op[p] \in Op
      /\ Placed(op[p])
  BY <1>1, Here DEF Placed, Removing
<1>3. CASE \E q \in Registered :
             op' = [op EXCEPT ![p].pc = "strip", ![p].todo =
                      <<[path |-> q, before |-> disk[q],
                         after |-> [disk[q] EXCEPT !.block = "no"]]>> \o @]
  <2>1. PICK q \in Registered :
             op' = [op EXCEPT ![p].pc = "strip", ![p].todo =
                      <<[path |-> q, before |-> disk[q],
                         after |-> [disk[q] EXCEPT !.block = "no"]]>> \o @]
    BY <1>3
  <2>2. q \in Profiles /\ q \in Paths /\ disk[q] \in ProfileTexts
    BY Given, PlaceTypes DEF Registered, TypeInv
  <2> DEFINE d == [disk[q] EXCEPT !.block = "no"]
             c == [path |-> q, before |-> disk[q], after |-> d]
             l == <<c>> \o op[p].todo
             m == Moved(op[p], "strip", l)
  <2>3. d \in ProfileTexts /\ d.block = "no"
    BY <2>2 DEF ProfileTexts
  <2>4. op' = [op EXCEPT ![p].pc = "strip", ![p].todo = l]
    BY <2>1
  <2>5. d = [disk[q] EXCEPT !.block = "no"]
    OBVIOUS
  <2> HIDE DEF d
  <2>6. c \in StripChange /\ c.path = q /\ c.before = disk[q] /\ c.after = d
    BY <2>2, <2>3 DEF StripChange
  <2> HIDE DEF c
  <2>7. c \in Tasks /\ op[p].todo \in Seq(Tasks)
    BY <2>6, Here DEF Tasks
  <2>8. l \in Seq(Tasks) /\ l # <<>> /\ Head(l) = c /\ Tail(l) = op[p].todo
    BY <2>7
  <2> HIDE DEF l
  <2>9. op' = [op EXCEPT ![p] = m]
    <3>1. op' = [op EXCEPT ![p] = [op[p] EXCEPT !.pc = "strip", !.todo = l]]
      BY <2>4
    <3>2. \A y, k : [op[p] EXCEPT !.pc = y, !.todo = k] = Moved(op[p], y, k)
      BY <1>2, OpFields, Zenon
    <3>3. QED BY <3>1, <3>2, Zenon
  <2>10. m \in OpRecord
    BY <1>2, <2>8, MovedIsRecord DEF Steps, Removing
  <2>11. /\ m.kind = op[p].kind /\ m.pc = "strip" /\ m.target = op[p].target /\ m.tx = op[p].tx
         /\ m.base = op[p].base /\ m.modify = op[p].modify /\ m.todo = l /\ m.then = op[p].then
    BY MovedFields
  <2> HIDE DEF m
  <2>12. Placed(m)
    BY <1>2, <2>6, <2>8, <2>11 DEF Placed, Activating, Removing, Forward, Backward, Listed
  <2>13. op' \in [Procs -> Op] /\ op'[p] = m /\ \A r \in Procs \ {p} : op'[r] = op[r]
    BY <2>9, <2>10, <2>12, PutOp DEF Op, TypeInv
  <2>14. TypeInv'
    BY <1>1, <2>13 DEF TypeInv, installation, locks
  <2>15. /\ op'[p].pc = "strip" /\ Head(op'[p].todo) = c /\ Tail(op'[p].todo) = op[p].todo
         /\ op'[p].kind = op[p].kind /\ op'[p].target = op[p].target
         /\ op'[p].base = op[p].base /\ op'[p].modify = op[p].modify
         /\ op'[p].tx = op[p].tx /\ op'[p].then = op[p].then
    BY <2>8, <2>11, <2>13
  <2>16. \E r \in Registered : \E e \in StripChange :
           /\ r \in Profiles /\ disk[r] \in ProfileTexts
           /\ e.path = r /\ e.before = disk[r]
           /\ e.after = [disk[r] EXCEPT !.block = "no"]
           /\ op'[p].pc = "strip" /\ Head(op'[p].todo) = e
           /\ Tail(op'[p].todo) = op[p].todo
    BY <2>2, <2>5, <2>6, <2>15
  <2>17. QED BY <1>1, <2>13, <2>14, <2>15, <2>16
<1>4. CASE Registered = {} /\ Goto(p, "remove")
  <2>1. Placed(Moved(op[p], "remove", op[p].todo)) /\ "remove" \in Steps
    BY <1>1, Here, MovedFields DEF Placed, Steps, Removing, Forward, Backward, Listed
  <2>2. /\ op' \in [Procs -> Op] /\ \A q \in Procs \ {p} : op'[q] = op[q]
        /\ op'[p] = Moved(op[p], "remove", op[p].todo)
    BY <1>4, <2>1, GoesTo
  <2>3. TypeInv'
    BY <1>1, <1>4, <2>2 DEF TypeInv, installation, locks
  <2>4. QED BY <1>1, <1>4, <2>2, <2>3, MovedFields
<1>5. QED BY <1>3, <1>4 DEF Unregister

LEMMA StripProfileIs ==
  ASSUME TypeInv, NEW p \in Procs, StripProfile(p)
  PROVE  /\ TypeInv' /\ \A q \in Procs \ {p} : op'[q] = op[q]
         /\ op[p].pc = "strip" /\ op[p].todo # <<>> /\ Change(p) \in StripChange
         /\ Change(p).path \in Profiles
         /\ \A q \in Paths \ {Change(p).path} : disk'[q] = disk[q]
         /\ disk'[Change(p).path] = Change(p).after
         /\ op'[p] = Moved(op[p], "unregister", Tail(op[p].todo))
         /\ UNCHANGED <<aside, installation, locks, cut, touched, counts>>
<1>1. /\ op[p].pc = "strip" /\ op[p].todo # <<>>
      /\ disk' = [disk EXCEPT ![Change(p).path] = Change(p).after] /\ Advance(p, "unregister")
      /\ UNCHANGED <<aside, installation, locks, cut, touched, counts>>
  BY DEF StripProfile, At
<1>2. /\ Change(p) \in StripChange /\ Tail(op[p].todo) \in Seq(RemovalChange)
      /\ op[p].kind = "uninstall"
  BY <1>1, Here DEF Placed, Change, Removing
<1>3. /\ Change(p).path \in Paths /\ Change(p).after \in Places(Change(p).path)
      /\ Change(p).path \in Profiles
  BY <1>2, Given, PlaceTypes DEF StripChange
<1> DEFINE m == Moved(op[p], "unregister", Tail(op[p].todo))
<1>4. m.kind = "uninstall" /\ m.pc = "unregister" /\ m.todo = Tail(op[p].todo)
  BY <1>2, MovedFields
<1> HIDE DEF m
<1>5. Placed(m)
  BY <1>2, <1>4 DEF Placed, Removing, Forward, Backward, Listed, Activating
<1>6. op' \in [Procs -> Op] /\ op'[p] = m /\ \A q \in Procs \ {p} : op'[q] = op[q]
  BY <1>1, <1>5, AdvancesTo DEF m, Steps, Removing
<1>7. /\ disk' \in [Paths -> AnyPlace] /\ \A r \in Paths : disk'[r] \in Places(r)
      /\ \A q \in Paths \ {Change(p).path} : disk'[q] = disk[q]
      /\ disk'[Change(p).path] = Change(p).after
  BY <1>1, <1>3, PutContent
<1>8. TypeInv'
  BY <1>1, <1>6, <1>7 DEF TypeInv, installation, locks
<1>9. QED BY <1>1, <1>2, <1>3, <1>6, <1>7, <1>8 DEF m

LEMMA RemovalIs ==
  ASSUME TypeInv, NEW p \in Procs, op[p].todo # <<>>, op[p].pc \in Removing \ {"strip"}
  PROVE  /\ op[p].kind = "uninstall"
         /\ Change(p) \in RemovalChange /\ Tail(op[p].todo) \in Seq(RemovalChange)
         /\ Chg(op[p].todo) = {Change(p)} \cup Chg(Tail(op[p].todo))
<1>1. op[p].kind = "uninstall" /\ op[p].todo \in Seq(RemovalChange)
  BY Here DEF Placed
<1>2. QED BY <1>1, TailOf DEF Change

LEMMA ShorterRemoval ==
  ASSUME TypeInv, NEW p \in Procs, op[p].todo # <<>>, op[p].pc \in Removing \ {"strip"},
         Advance(p, "remove")
  PROVE  /\ op' \in [Procs -> Op] /\ \A q \in Procs \ {p} : op'[q] = op[q]
         /\ op'[p] = Moved(op[p], "remove", Tail(op[p].todo))
<1> DEFINE l == Tail(op[p].todo)
           m == Moved(op[p], "remove", l)
<1>1. op[p].kind = "uninstall" /\ l \in Seq(RemovalChange)
  BY RemovalIs
<1>2. m.kind = op[p].kind /\ m.pc = "remove" /\ m.todo = l
  BY MovedFields
<1> HIDE DEF m
<1>3. Placed(m)
  BY <1>1, <1>2 DEF Placed, Removing, Forward, Backward, Listed, Activating
<1>4. QED BY <1>3, AdvancesTo DEF m, Steps, Removing

LEMMA CheckOwnedIs ==
  ASSUME TypeInv, NEW p \in Procs, CheckOwned(p)
  PROVE  /\ TypeInv' /\ Still /\ UNCHANGED locks /\ \A q \in Procs \ {p} : op'[q] = op[q]
         /\ op[p].pc = "remove" /\ op[p].todo # <<>> /\ Change(p) \in RemovalChange
         /\ \/ /\ disk[Change(p).path] = "absent"
               /\ op'[p] = Moved(op[p], "remove", Tail(op[p].todo))
            \/ /\ disk[Change(p).path] = Change(p).before
               /\ op'[p] = Moved(op[p], "delete", op[p].todo)
<1>1. op[p].pc = "remove" /\ op[p].todo # <<>> /\ Still /\ UNCHANGED locks
  BY DEF CheckOwned, At, Still
<1>2. Change(p) \in RemovalChange /\ op[p].kind = "uninstall"
  BY <1>1, RemovalIs DEF Removing
<1>3. CASE disk[Change(p).path] = "absent" /\ Advance(p, "remove")
  <2>1. /\ op' \in [Procs -> Op] /\ \A q \in Procs \ {p} : op'[q] = op[q]
        /\ op'[p] = Moved(op[p], "remove", Tail(op[p].todo))
    BY <1>1, <1>3, ShorterRemoval DEF Removing
  <2>2. QED BY <1>1, <1>2, <1>3, <2>1 DEF TypeInv, installation, locks, Still
<1>4. CASE disk[Change(p).path] = Change(p).before /\ Goto(p, "delete")
  <2>1. Placed(Moved(op[p], "delete", op[p].todo)) /\ "delete" \in Steps
    BY <1>1, Here, MovedFields DEF Placed, Steps, Removing, Forward, Backward, Listed
  <2>2. /\ op' \in [Procs -> Op] /\ \A q \in Procs \ {p} : op'[q] = op[q]
        /\ op'[p] = Moved(op[p], "delete", op[p].todo)
    BY <1>4, <2>1, GoesTo
  <2>3. QED BY <1>1, <1>2, <1>4, <2>2 DEF TypeInv, installation, locks, Still
<1>5. QED BY <1>3, <1>4 DEF CheckOwned

LEMMA RemoveOwnedIs ==
  ASSUME TypeInv, NEW p \in Procs, RemoveOwned(p)
  PROVE  /\ TypeInv' /\ \A q \in Procs \ {p} : op'[q] = op[q]
         /\ op[p].pc = "delete" /\ op[p].todo # <<>> /\ Change(p) \in RemovalChange
         /\ \A q \in Paths \ {Change(p).path} : disk'[q] = disk[q]
         /\ \/ /\ Change(p).path \in Files /\ disk'[Change(p).path] = "absent"
               /\ op'[p] = Moved(op[p], "remove", Tail(op[p].todo))
            \/ /\ Change(p).path \in Bundles /\ disk[Change(p).path] # "absent"
               /\ disk'[Change(p).path] = "torn"
               /\ op'[p] = Moved(op[p], "bundle", op[p].todo)
         /\ UNCHANGED <<aside, installation, locks, cut, touched, counts>>
<1>1. /\ op[p].pc = "delete" /\ op[p].todo # <<>>
      /\ UNCHANGED <<aside, installation, locks, cut, touched, counts>>
  BY DEF RemoveOwned, At
<1>2. Change(p) \in RemovalChange /\ op[p].kind = "uninstall"
  BY <1>1, RemovalIs DEF Removing
<1>3. Change(p).path \in Paths /\ {"absent", "torn"} \subseteq Places(Change(p).path)
  BY <1>2, Given, PlaceTypes DEF RemovalChange, Contents
<1>4. CASE /\ Change(p).path \in Files
           /\ disk' = [disk EXCEPT ![Change(p).path] = "absent"]
           /\ Advance(p, "remove")
  <2>1. /\ op' \in [Procs -> Op] /\ \A q \in Procs \ {p} : op'[q] = op[q]
        /\ op'[p] = Moved(op[p], "remove", Tail(op[p].todo))
    BY <1>1, <1>4, ShorterRemoval DEF Removing
  <2>2. /\ disk' \in [Paths -> AnyPlace] /\ \A r \in Paths : disk'[r] \in Places(r)
        /\ \A q \in Paths \ {Change(p).path} : disk'[q] = disk[q]
        /\ disk'[Change(p).path] = "absent"
    BY <1>3, <1>4, PutContent
  <2>3. TypeInv'
    BY <1>1, <2>1, <2>2 DEF TypeInv, installation, locks
  <2>4. QED BY <1>1, <1>2, <1>4, <2>1, <2>2, <2>3
<1>5. CASE /\ Change(p).path \in Bundles /\ disk[Change(p).path] # "absent"
           /\ disk' = [disk EXCEPT ![Change(p).path] = "torn"]
           /\ Goto(p, "bundle")
  <2>1. Placed(Moved(op[p], "bundle", op[p].todo)) /\ "bundle" \in Steps
    BY <1>1, <1>2, <1>5, Here, MovedFields DEF Placed, Change, Steps, Removing, Forward, Backward,
                                              Listed
  <2>2. /\ op' \in [Procs -> Op] /\ \A q \in Procs \ {p} : op'[q] = op[q]
        /\ op'[p] = Moved(op[p], "bundle", op[p].todo)
    BY <1>5, <2>1, GoesTo
  <2>3. /\ disk' \in [Paths -> AnyPlace] /\ \A r \in Paths : disk'[r] \in Places(r)
        /\ \A q \in Paths \ {Change(p).path} : disk'[q] = disk[q]
        /\ disk'[Change(p).path] = "torn"
    BY <1>3, <1>5, PutContent
  <2>4. TypeInv'
    BY <1>1, <2>2, <2>3 DEF TypeInv, installation, locks
  <2>5. QED BY <1>1, <1>2, <1>5, <2>2, <2>3, <2>4
<1>6. QED BY <1>4, <1>5 DEF RemoveOwned

LEMMA RemoveBundleIs ==
  ASSUME TypeInv, NEW p \in Procs, RemoveBundle(p)
  PROVE  /\ TypeInv' /\ \A q \in Procs \ {p} : op'[q] = op[q]
         /\ op[p].pc = "bundle" /\ op[p].todo # <<>> /\ Change(p).path \in Bundles
         /\ disk[Change(p).path] = "torn"
         /\ \A q \in Paths \ {Change(p).path} : disk'[q] = disk[q]
         /\ disk'[Change(p).path] = "absent"
         /\ op'[p] = Moved(op[p], "remove", Tail(op[p].todo))
         /\ UNCHANGED <<aside, installation, locks, cut, touched, counts>>
<1>1. /\ op[p].pc = "bundle" /\ op[p].todo # <<>> /\ disk[Change(p).path] = "torn"
      /\ disk' = [disk EXCEPT ![Change(p).path] = "absent"] /\ Advance(p, "remove")
      /\ UNCHANGED <<aside, installation, locks, cut, touched, counts>>
  BY DEF RemoveBundle, At
<1>2. Change(p).path \in Bundles
  BY <1>1, Here DEF Placed, Change
<1>3. Change(p).path \in Paths /\ "absent" \in Places(Change(p).path)
  BY <1>2, Given, PlaceTypes DEF Contents
<1>4. /\ op' \in [Procs -> Op] /\ \A q \in Procs \ {p} : op'[q] = op[q]
      /\ op'[p] = Moved(op[p], "remove", Tail(op[p].todo))
  BY <1>1, ShorterRemoval DEF Removing
<1>5. /\ disk' \in [Paths -> AnyPlace] /\ \A r \in Paths : disk'[r] \in Places(r)
      /\ \A q \in Paths \ {Change(p).path} : disk'[q] = disk[q]
      /\ disk'[Change(p).path] = "absent"
  BY <1>1, <1>3, PutContent
<1>6. TypeInv'
  BY <1>1, <1>4, <1>5 DEF TypeInv, installation, locks
<1>7. QED BY <1>1, <1>2, <1>4, <1>5, <1>6

LEMMA TearGenerationIs ==
  ASSUME TypeInv, NEW p \in Procs, TearGeneration(p)
  PROVE  /\ TypeInv' /\ \A q \in Procs \ {p} : op'[q] = op[q]
         /\ op[p].pc = "remove" /\ op[p].todo = <<>> /\ op'[p].todo = <<>>
         /\ op'[p].kind = op[p].kind /\ op'[p].pc = "generation"
         /\ op'[p].base = op[p].base /\ op'[p].modify = op[p].modify
         /\ UNCHANGED <<disk, aside, receipt, journal, locks, cut, touched, counts>>
<1>1. /\ op[p].pc = "remove" /\ op[p].todo = <<>>
      /\ UNCHANGED <<disk, aside, receipt, journal, locks, cut, touched, counts>>
  BY DEF TearGeneration, Done
<1>2. PICK v \in Versions, state \in {"damaged", "torn"} :
        /\ generations' = [generations EXCEPT ![v] = state]
        /\ op' = [op EXCEPT ![p].pc = "generation", ![p].target = v]
  BY DEF TearGeneration
<1> DEFINE o == op[p]
           m == [kind |-> o.kind, pc |-> "generation", target |-> v, base |-> o.base,
                 modify |-> o.modify, todo |-> o.todo, tx |-> o.tx, then |-> o.then]
<1>3. o \in Op /\ o \in OpRecord /\ Placed(o)
  BY Here
<1>4. [o EXCEPT !.pc = "generation", !.target = v] = m
  <2>1. [o EXCEPT !.pc = "generation"] = Moved(o, "generation", o.todo)
    BY <1>3, OpFields
  <2>2. [Moved(o, "generation", o.todo) EXCEPT !.target = v] = m
    BY DEF Moved
  <2>3. QED BY <2>1, <2>2, Zenon
<1>5. op' = [op EXCEPT ![p] = m]
  <2>1. op' = [op EXCEPT ![p] = [o EXCEPT !.pc = "generation", !.target = v]]
    BY <1>2
  <2>2. QED BY <1>4, <2>1, Zenon
<1>6. m \in OpRecord
  BY <1>3 DEF OpRecord, Steps, Removing
<1>7. Placed(m)
  BY <1>1, <1>3 DEF Placed, Removing, Forward, Backward, Listed, Activating
<1> HIDE DEF m
<1>8. op' \in [Procs -> Op] /\ op'[p] = m /\ \A q \in Procs \ {p} : op'[q] = op[q]
  BY <1>5, <1>6, <1>7, PutOp DEF Op, TypeInv
<1>9. generations' \in [Versions -> {"absent", "whole", "damaged", "torn"}]
  BY <1>2 DEF TypeInv
<1>10. TypeInv'
  BY <1>1, <1>8, <1>9 DEF TypeInv, locks
<1>11. /\ m.kind = o.kind /\ m.pc = "generation" /\ m.base = o.base /\ m.modify = o.modify
       /\ m.todo = o.todo
  BY DEF m
<1>12. QED BY <1>1, <1>8, <1>10, <1>11

LEMMA DropGenerationIs ==
  ASSUME TypeInv, NEW p \in Procs, DropGeneration(p)
  PROVE  /\ TypeInv' /\ \A q \in Procs \ {p} : op'[q] = op[q]
         /\ op[p].pc = "generation" /\ op'[p] = Moved(op[p], "remove", op[p].todo)
         /\ UNCHANGED <<disk, aside, receipt, journal, locks, cut, touched, counts>>
<1>1. /\ op[p].pc = "generation" /\ Goto(p, "remove")
      /\ generations' = [generations EXCEPT ![op[p].target] = "absent"]
      /\ UNCHANGED <<disk, aside, receipt, journal, locks, cut, touched, counts>>
  BY DEF DropGeneration
<1>2. Placed(Moved(op[p], "remove", op[p].todo)) /\ "remove" \in Steps
  BY <1>1, Here, MovedFields DEF Placed, Steps, Removing, Forward, Backward, Listed
<1>3. /\ op' \in [Procs -> Op] /\ \A q \in Procs \ {p} : op'[q] = op[q]
      /\ op'[p] = Moved(op[p], "remove", op[p].todo)
  BY <1>1, <1>2, GoesTo
<1>4. generations' \in [Versions -> {"absent", "whole", "damaged", "torn"}]
  BY <1>1 DEF TypeInv
<1>5. TypeInv'
  BY <1>1, <1>3, <1>4 DEF TypeInv, locks
<1>6. QED BY <1>1, <1>3, <1>5

LEMMA RemoveReceiptIs ==
  ASSUME TypeInv, NEW p \in Procs, RemoveReceipt(p)
  PROVE  /\ TypeInv' /\ \A q \in Procs \ {p} : op'[q] = op[q]
         /\ op[p].pc = "remove" /\ op[p].todo = <<>> /\ op[p].kind = "uninstall"
         /\ op'[p] = Moved(op[p], "unlink", op[p].todo)
         /\ receipt' = None /\ cut' = FALSE /\ held' = [held EXCEPT ![p] = 0]
         /\ UNCHANGED <<disk, aside, journal, generations, lockFile, shared, touched, counts>>
<1>1. /\ op[p].pc = "remove" /\ op[p].todo = <<>> /\ Goto(p, "unlink")
      /\ receipt' = None /\ cut' = FALSE /\ held' = [held EXCEPT ![p] = 0]
      /\ UNCHANGED <<disk, aside, journal, generations, lockFile, shared, touched, counts>>
  BY DEF RemoveReceipt, Done
<1>2. op[p].kind = "uninstall"
  BY <1>1, Here DEF Placed, Removing
<1>3. Placed(Moved(op[p], "unlink", op[p].todo)) /\ "unlink" \in Steps
  BY <1>1, <1>2, Here, MovedFields DEF Placed, Steps, Outside, Removing, Forward, Backward, Listed
<1>4. /\ op' \in [Procs -> Op] /\ \A q \in Procs \ {p} : op'[q] = op[q]
      /\ op'[p] = Moved(op[p], "unlink", op[p].todo)
  BY <1>1, <1>3, GoesTo
<1>5. 0 \in Locks
  BY InstallerAssumption, FS_CardinalityType DEF InstallerAssumption, Locks
<1>6. held' \in [Procs -> Locks]
  BY <1>1, <1>5 DEF TypeInv
<1>7. TypeInv'
  BY <1>1, <1>4, <1>6 DEF TypeInv
<1>8. QED BY <1>1, <1>2, <1>4, <1>7

LEMMA UnlinkIs ==
  ASSUME TypeInv, NEW p \in Procs, Unlink(p)
  PROVE  /\ TypeInv' /\ \A q \in Procs \ {p} : op'[q] = op[q]
         /\ op[p].pc = "unlink" /\ op'[p] = Idle /\ lockFile' = 0
         /\ shared' = IF shared = p THEN None ELSE shared
         /\ UNCHANGED <<disk, aside, installation, held, cut, touched, counts>>
<1>1. /\ op[p].pc = "unlink" /\ op' = [op EXCEPT ![p] = Idle] /\ lockFile' = 0
      /\ shared' = IF shared = p THEN None ELSE shared
      /\ UNCHANGED <<disk, aside, installation, held, cut, touched, counts>>
  BY DEF Unlink
<1>2. op' \in [Procs -> Op] /\ op'[p] = Idle /\ \A q \in Procs \ {p} : op'[q] = op[q]
  BY <1>1, IdleIsOp, PutOp DEF TypeInv
<1>3. 0 \in Locks
  BY InstallerAssumption, FS_CardinalityType DEF InstallerAssumption, Locks
<1>4. TypeInv'
  BY <1>1, <1>2, <1>3 DEF TypeInv, installation
<1>5. QED BY <1>1, <1>2, <1>4

LEMMA FailIs ==
  ASSUME TypeInv, NEW p \in Procs, Fail(p)
  PROVE  /\ TypeInv' /\ \A q \in Procs \ {p} : op'[q] = op[q]
         /\ op[p].pc # "idle"
         /\ \/ /\ op[p].pc \in Forward /\ journal # None /\ journal' = journal
               /\ op'[p].kind = op[p].kind /\ op'[p].pc = "undo" /\ op'[p].target = op[p].target
               /\ op'[p].base = op[p].base /\ op'[p].modify = op[p].modify
               /\ op'[p].tx = journal /\ op'[p].then = "stop"
               /\ Chg(op'[p].todo) = Chg(journal.changes)
               /\ UNCHANGED locks
            \/ /\ op[p].pc \in Forward => journal = None
               /\ op'[p] = Idle /\ Return(p)
               /\ \/ journal' = journal
                  \/ op[p].pc = "journal" /\ op[p].tx \in Tx /\ journal' = op[p].tx
         /\ UNCHANGED <<disk, aside, receipt, generations, cut, touched, counts>>
<1>1. /\ op[p].pc # "idle"
      /\ UNCHANGED <<disk, aside, receipt, generations, cut, touched, counts>>
      /\ journal' = journal \/ (op[p].pc = "journal" /\ journal' = op[p].tx)
  BY DEF Fail
<1>2. op[p].pc = "journal" => op[p].tx \in Tx
  BY Here DEF Placed
<1>3. CASE /\ op[p].pc \in Forward /\ journal # None
           /\ Undoing(p, "stop") /\ UNCHANGED locks
  <2>1. /\ op' \in [Procs -> Op] /\ \A q \in Procs \ {p} : op'[q] = op[q]
        /\ op'[p].kind = op[p].kind /\ op'[p].pc = "undo" /\ op'[p].target = op[p].target
        /\ op'[p].base = op[p].base /\ op'[p].modify = op[p].modify
        /\ op'[p].tx = journal /\ op'[p].then = "stop"
        /\ Chg(op'[p].todo) = Chg(journal.changes)
    BY <1>1, <1>3, UndoingIs
  <2>2. journal' = journal
    BY <1>1, <1>3 DEF Forward
  <2>3. TypeInv'
    BY <1>1, <1>3, <2>1, <2>2 DEF TypeInv, locks
  <2>4. QED BY <1>1, <1>3, <2>1, <2>2, <2>3
<1>4. CASE /\ op[p].pc \in Forward => journal = None
           /\ Return(p)
  <2>1. /\ op' \in [Procs -> Op] /\ op'[p] = Idle /\ \A q \in Procs \ {p} : op'[q] = op[q]
        /\ held' \in [Procs -> Locks] /\ lockFile' = lockFile /\ shared' \in {shared, None}
    BY <1>4, ReturnIs
  <2>2. journal' \in Tx \cup {None}
    BY <1>1, <1>2 DEF TypeInv
  <2>3. TypeInv'
    BY <1>1, <2>1, <2>2 DEF TypeInv
  <2>4. QED BY <1>1, <1>2, <1>4, <2>1, <2>3
<1>5. QED BY <1>3, <1>4 DEF Fail, Forward

LEMMA CrashIs ==
  ASSUME TypeInv, NEW p \in Procs, Crash(p)
  PROVE  /\ TypeInv' /\ \A q \in Procs \ {p} : op'[q] = op[q]
         /\ op[p].pc # "idle" /\ op'[p] = Idle /\ Return(p)
         /\ UNCHANGED <<disk, aside, installation, cut, touched>>
<1>1. /\ op[p].pc # "idle" /\ Return(p) /\ UNCHANGED <<disk, aside, installation, cut, touched>>
  BY DEF Crash
<1>2. /\ op' \in [Procs -> Op] /\ op'[p] = Idle /\ \A q \in Procs \ {p} : op'[q] = op[q]
      /\ held' \in [Procs -> Locks] /\ lockFile' = lockFile /\ shared' \in {shared, None}
  BY <1>1, ReturnIs
<1>3. TypeInv'
  BY <1>1, <1>2 DEF TypeInv, installation
<1>4. QED BY <1>1, <1>2, <1>3

LEMMA UserEditsIs ==
  ASSUME TypeInv, NEW q \in Paths, UserEdits(q)
  PROVE  /\ TypeInv' /\ touched' = touched \cup {q} /\ edits' # edits
         /\ \A r \in Paths \ {q} : disk'[r] = disk[r]
         /\ q \notin Profiles => disk'[q] \in {"absent", "foreign"}
         /\ q \in Profiles => disk'[q].text \in {"edited", disk[q].text}
         /\ UNCHANGED <<aside, installation, op, locks, cut>>
<1>1. /\ touched' = touched \cup {q} /\ edits' = edits + 1 /\ edits < MaxEdits
      /\ UNCHANGED <<aside, installation, op, locks, cut>>
  BY DEF UserEdits
<1>2. \E d \in Places(q) : /\ disk' = [disk EXCEPT ![q] = d]
                           /\ q \notin Profiles => d \in {"absent", "foreign"}
                           /\ q \in Profiles => d.text \in {"edited", disk[q].text}
  <2>1. CASE q \in Profiles
    <3>1. disk[q] \in ProfileTexts
      BY <2>1, PlaceTypes DEF TypeInv
    <3>2. /\ [disk[q] EXCEPT !.text = "edited"] \in Places(q)
          /\ [disk[q] EXCEPT !.text = "edited"].text = "edited"
      BY <2>1, <3>1, PlaceTypes DEF ProfileTexts
    <3>3. /\ [disk[q] EXCEPT !.block = "changed"] \in Places(q)
          /\ [disk[q] EXCEPT !.block = "changed"].text = disk[q].text
      BY <2>1, <3>1, PlaceTypes DEF ProfileTexts
    <3>4. \/ disk' = [disk EXCEPT ![q] = [disk[q] EXCEPT !.text = "edited"]]
          \/ disk' = [disk EXCEPT ![q] = [disk[q] EXCEPT !.block = "changed"]]
      BY <2>1 DEF UserEdits
    <3>5. QED BY <2>1, <3>2, <3>3, <3>4
  <2>2. CASE q \notin Profiles
    <3>1. PICK d \in {"absent", "foreign"} : disk' = [disk EXCEPT ![q] = d]
      BY <2>2 DEF UserEdits
    <3>2. d \in Places(q)
      BY <2>2, Given, PlaceTypes DEF Contents
    <3>3. QED BY <2>2, <3>1, <3>2
  <2>3. QED BY <2>1, <2>2
<1>3. PICK d \in Places(q) : /\ disk' = [disk EXCEPT ![q] = d]
                             /\ q \notin Profiles => d \in {"absent", "foreign"}
                             /\ q \in Profiles => d.text \in {"edited", disk[q].text}
  BY <1>2
<1>4. /\ disk' \in [Paths -> AnyPlace] /\ \A r \in Paths : disk'[r] \in Places(r)
      /\ disk'[q] = d /\ \A r \in Paths \ {q} : disk'[r] = disk[r]
  BY <1>3, PutContent
<1>5. TypeInv'
  BY <1>1, <1>4 DEF TypeInv, installation, locks
<1>6. QED BY <1>1, <1>3, <1>4, <1>5

LEMMA StepTypes == ASSUME TypeInv, NEW p \in Procs, Step(p) PROVE TypeInv'
<1>1. CASE LockChannel(p) \/ LockIntegrations(p) \/ Recover(p)
  BY <1>1, LockChannelIs, LockIntegrationsIs, RecoverIs
<1>2. CASE \/ FindOurs(p) \/ PutBack(p) \/ FindBundle(p)
           \/ TearBundle(p) \/ DropBundle(p) \/ RestoreBundle(p)
  BY <1>2, FindOursIs, PutBackIs, FindBundleIs, TearBundleIs, DropBundleIs, RestoreBundleIs
<1>3. CASE RestoreReceipt(p) \/ ClearUndone(p)
  BY <1>3, RestoreReceiptIs, ClearUndoneIs
<1>4. CASE Stage(p) \/ PrepareInstall(p) \/ PrepareRegister(p) \/ BackUp(p) \/ WriteJournal(p)
  BY <1>4, StageIs, PrepareInstallIs, PrepareRegisterIs, BackUpIs, WriteJournalIs
<1>5. CASE ApplyFile(p) \/ MoveAside(p) \/ ActivateBundle(p)
  BY <1>5, ApplyFileIs, MoveAsideIs, ActivateBundleIs
<1>6. CASE WriteReceipt(p) \/ Verify(p) \/ ClearJournal(p) \/ Finish(p)
  BY <1>6, WriteReceiptIs, VerifyIs, ClearJournalIs, FinishIs
<1>7. CASE \/ Preflight(p) \/ Unregister(p) \/ StripProfile(p)
           \/ CheckOwned(p) \/ RemoveOwned(p) \/ RemoveBundle(p)
  BY <1>7, PreflightIs, UnregisterIs, StripProfileIs, CheckOwnedIs, RemoveOwnedIs, RemoveBundleIs
<1>8. CASE TearGeneration(p) \/ DropGeneration(p) \/ RemoveReceipt(p) \/ Unlink(p)
  BY <1>8, TearGenerationIs, DropGenerationIs, RemoveReceiptIs, UnlinkIs
<1>9. QED BY <1>1, <1>2, <1>3, <1>4, <1>5, <1>6, <1>7, <1>8 DEF Step

LEMMA StartTypes == ASSUME TypeInv, NEW p \in Procs, Start(p) PROVE TypeInv'
  BY StartIs DEF TypeInv, installation, locks

LEMMA NextTypes == ASSUME TypeInv, [Next]_vars PROVE TypeInv'
<1>1. ASSUME NEW p \in Procs, Start(p) \/ Step(p) \/ Fail(p) \/ Crash(p) PROVE TypeInv'
  BY <1>1, StartTypes, StepTypes, FailIs, CrashIs
<1>2. ASSUME NEW q \in Paths, UserEdits(q) PROVE TypeInv'
  BY <1>2, UserEditsIs
<1>3. CASE UNCHANGED vars
  BY <1>3 DEF vars, TypeInv, installation, locks
<1>4. QED BY <1>1, <1>2, <1>3 DEF Next

\* What came late was touched.
LateTyped == late \in [Procs -> SUBSET touched]

LEMMA LooksAlone ==
  ASSUME NEW p \in Procs, Start(p) \/ Step(p) \/ Fail(p) \/ Crash(p)
  PROVE  touched' = touched /\ (late' = late \/ \E paths : Looks(p, paths))
<1>1. CASE Start(p) \/ Fail(p) \/ Crash(p)
  BY <1>1 DEF Start, Fail, Crash
<1>2. CASE LockChannel(p) \/ LockIntegrations(p) \/ Recover(p) \/ RestoreReceipt(p)
  BY <1>2 DEF LockChannel, LockIntegrations, Recover, RestoreReceipt
<1>3. CASE FindOurs(p) \/ PutBack(p) \/ FindBundle(p)
  BY <1>3 DEF FindOurs, PutBack, FindBundle
<1>4. CASE TearBundle(p) \/ DropBundle(p) \/ RestoreBundle(p) \/ ClearUndone(p)
  BY <1>4 DEF TearBundle, DropBundle, RestoreBundle, ClearUndone
<1>5. CASE Stage(p) \/ PrepareInstall(p) \/ PrepareRegister(p)
  BY <1>5 DEF Stage, PrepareInstall, PrepareRegister
<1>6. CASE BackUp(p) \/ WriteJournal(p) \/ ApplyFile(p) \/ MoveAside(p) \/ ActivateBundle(p)
  BY <1>6 DEF BackUp, WriteJournal, ApplyFile, MoveAside, ActivateBundle
<1>7. CASE WriteReceipt(p) \/ Verify(p) \/ ClearJournal(p) \/ Finish(p) \/ Preflight(p)
  BY <1>7 DEF WriteReceipt, Verify, ClearJournal, Finish, Preflight
<1>8. CASE Unregister(p) \/ StripProfile(p) \/ CheckOwned(p) \/ RemoveOwned(p) \/ RemoveBundle(p)
  BY <1>8 DEF Unregister, StripProfile, CheckOwned, RemoveOwned, RemoveBundle
<1>9. CASE TearGeneration(p) \/ DropGeneration(p) \/ RemoveReceipt(p) \/ Unlink(p)
  BY <1>9 DEF TearGeneration, DropGeneration, RemoveReceipt, Unlink
<1>10. QED BY <1>1, <1>2, <1>3, <1>4, <1>5, <1>6, <1>7, <1>8, <1>9 DEF Step

LEMMA NextIsLate == ASSUME LateTyped, [Next]_vars PROVE LateTyped'
<1>1. ASSUME NEW p \in Procs, NEW paths, Looks(p, paths), touched' = touched PROVE LateTyped'
  BY <1>1 DEF Looks, LateTyped
<1>2. ASSUME NEW p \in Procs, Start(p) \/ Step(p) \/ Fail(p) \/ Crash(p)
      PROVE  /\ touched' = touched
             /\ late' = late \/ \E paths : Looks(p, paths)
  BY <1>2, LooksAlone
<1>3. ASSUME NEW q \in Paths, UserEdits(q) PROVE LateTyped'
  BY <1>3 DEF UserEdits, LateTyped
<1>4. CASE UNCHANGED vars
  BY <1>4 DEF vars, LateTyped
<1>5. QED BY <1>1, <1>2, <1>3, <1>4 DEF Next, LateTyped

\* The types of the state are those of the records of the code, for every set of integrations,
\* packages and processes, whatever the installers, the launchers and the user do.
THEOREM TypeCorrect == Spec => []TypeOK
<1>1. Init => TypeInv /\ LateTyped
  BY InitTypes DEF Init, LateTyped
<1>2. TypeInv /\ LateTyped /\ [Next]_vars => TypeInv' /\ LateTyped'
  BY NextTypes, NextIsLate
<1>3. TypeInv /\ LateTyped => TypeOK
  <2>1. ASSUME TypeInv, LateTyped PROVE TypeOK
    <3>1. \A s : s \in Seq(Tasks) => \A i \in DOMAIN s : IsChange(s[i])
      BY ChangeIsTyped, LenProperties, ElementOfSeq DEF IsChange
    <3>2. ASSUME NEW t \in Tx
          PROVE  /\ t.before \in Receipts \cup {None} /\ t.after \in Receipts
                 /\ \A i \in DOMAIN t.changes : IsChange(t.changes[i])
      <4>1. t.before \in Receipts \cup {None} /\ t.after \in Receipts
            /\ t.changes \in Seq(TxChange)
        BY DEF Tx
      <4>2. t.changes \in Seq(Tasks)
        BY <4>1, TaskLists
      <4>3. QED BY <3>1, <4>1, <4>2
    <3>3. \A p \in Procs : op[p].tx \in Tx \cup {None} /\ op[p].todo \in Seq(Tasks)
      BY <2>1, Here DEF OpRecord
    <3>4. \A t \in {journal} \cup {op[p].tx : p \in Procs} : t # None =>
            /\ t.before \in Receipts \cup {None} /\ t.after \in Receipts
            /\ \A i \in DOMAIN t.changes : IsChange(t.changes[i])
      BY <2>1, <3>2, <3>3 DEF TypeInv
    <3>5. \A p \in Procs : \A i \in DOMAIN op[p].todo : IsChange(op[p].todo[i])
      BY <3>1, <3>3
    <3>6. QED BY <2>1, <3>4, <3>5 DEF TypeInv, TypeOK, Locks, LateTyped
  <2>2. QED BY <2>1
<1>4. QED BY <1>1, <1>2, <1>3, PTL DEF Spec

-------------------------------------------------------------------------------
(* Installers and launchers that work one at a time.                           *)

Working(p) == op[p].pc \notin Outside
Apart == \A p, q \in Procs : Working(p) /\ Working(q) => p = q

\* What a receipt says of a path, given what is there; a removal cut short may have begun.
Fits(r, q, d, gone) ==
  IF q \in Profiles
  THEN IF r = None THEN d.block = "no"
       ELSE IF r.path THEN d.block = "yes" \/ (gone /\ d.block = "no") ELSE d.block = "no"
  ELSE IF Owner(r, q) = None THEN d \notin Versions
       ELSE d = Owner(r, q) \/ (gone /\ d = "absent")

\* A transaction does what its receipts say, to each path once.
SoundChange(c, t) ==
  IF c.path \in Profiles
  THEN /\ c.after.block = "yes" /\ t.after.path
       /\ c.after.text = "edited" => c.before.text = "edited"
  ELSE /\ c.after = t.after.owned[c.path] /\ c.after \in Versions
       /\ c.path \in Bundles => c.before \in Versions \cup {"absent", "link"}
       /\ c.path \in Files /\ c.before \in Versions => c.before = Owner(t.before, c.path)

SoundTx(t) ==
  /\ \A c \in Chg(t.changes) : SoundChange(c, t)
  /\ Distinct(t.changes)
  /\ \A q \in Files \ Reaches(t.changes) : t.after.owned[q] = Owner(t.before, q)

\* The packages its files lead to are whole.
Whole == {v \in Versions : generations[v] = "whole"}
TxWhole(t) == \A c \in Chg(t.changes) :
  c.path \in Files => {c.before, c.after} \cap Versions \subseteq Whole

\* The receipt in force, and the changes on the way to the next one.
Base == IF journal = None THEN receipt ELSE journal.before
Underway == IF journal = None THEN <<>> ELSE journal.changes

JournalInv == journal # None => SoundTx(journal) /\ TxWhole(journal)

Unreached == \A q \in (Plain \ touched) \ Reaches(Underway) : Fits(Base, q, disk[q], cut)
\* What was not touched since the changes were planned keeps its text.
SameText(c) == c.path \in Profiles => c.after.text = c.before.text
BackedUp == \A c \in Chg(Underway) : c.path \in Plain \ touched =>
  /\ Fits(Base, c.path, c.before, cut) /\ disk[c.path] \in {c.before, c.after}
  /\ SameText(c)
Traced == \A q \in Files : disk[q] \in Versions =>
  \/ disk[q] = Owner(Base, q)
  \/ \E c \in Chg(Underway) : c.path = q /\ disk[q] = c.after

BundleInv == \A c \in Chg(Underway) :
  c.path \in Bundles \ touched /\ c.before # "absent" =>
    c.before \in {disk[c.path], aside} /\ aside \in {"absent", c.before}

DiskInv == JournalInv /\ Unreached /\ BackedUp /\ Traced /\ BundleInv /\ LaunchersResolve

\* A change that was made, and one that was undone.
Applied(c) == c.path \in Plain =>
  /\ c.path \notin touched => disk[c.path] = c.after
  /\ c.path \in Files /\ disk[c.path] \in Versions => disk[c.path] = c.after
Reverted(c, t) == c.path \in Plain =>
  /\ c.path \notin touched => disk[c.path] = c.before
  /\ c.path \in Files /\ disk[c.path] \in Versions => disk[c.path] = Owner(t.before, c.path)

\* The paths a transaction leaves alone fit its next receipt.
Rest(t, gone) == \A q \in (Plain \ touched) \ Reaches(t.changes) : Fits(t.after, q, disk[q], gone)

\* The journal is there from the first change to the last undone.
JournalPhase(p) ==
  /\ op[p].pc \in Between \cup Removing => journal = None
  /\ op[p].pc \in Forward \cup Backward => journal # None /\ journal = op[p].tx

PlanPhase(p) ==
  /\ op[p].pc = "prepare" => op[p].target \in Whole
  /\ op[p].pc \in {"copy", "journal"} => LET t == op[p].tx IN
       /\ t.before = receipt
       /\ SoundTx(t) /\ TxWhole(t)
       /\ \A c \in Chg(t.changes) :
            /\ c.path \notin touched => disk[c.path] = c.before /\ SameText(c)
            /\ c.path \in Bundles => aside = "absent"
            /\ op[p].pc = "copy" /\ c.path \in Profiles =>
                 (c.after.text = "edited" => disk[c.path].text = "edited")
       /\ Rest(t, op[p].kind = "register" /\ cut)

ApplyPhase(p) == LET t == op[p].tx IN
  /\ op[p].pc \in Forward => Rest(t, op[p].kind = "register" /\ cut)
  /\ op[p].pc \in {"apply", "swap"} =>
       /\ \A c \in Chg(t.changes) \ Chg(op[p].todo) : Applied(c)
       /\ Distinct(op[p].todo)
  /\ op[p].pc = "apply" => \A c \in Chg(op[p].todo) :
       c.path \in Bundles \ touched => disk[c.path] = c.before
  /\ op[p].pc \in {"verify", "commit"} =>
       receipt = t.after /\ \A c \in Chg(t.changes) : Applied(c)

UndoPhase(p) == LET t == op[p].tx IN
  /\ op[p].pc \in {"undo", "put", "clear", "tear", "restore"} =>
       \A c \in Chg(t.changes) \ Chg(op[p].todo) : Reverted(c, t)
  /\ op[p].pc = "clear" => aside # "absent" \/ Head(op[p].todo).before = "absent"
  /\ op[p].pc = "undone" =>
       receipt = t.before /\ \A c \in Chg(t.changes) : Reverted(c, t)

RemovePhase(p) ==
  /\ op[p].pc \in Removing =>
       receipt # None /\ \A q \in Files : disk[q] \in Versions => q \in Reaches(op[p].todo)
  /\ op[p].pc = "strip" => cut
  /\ op[p].pc \in {"remove", "delete", "bundle", "generation"} =>
       cut /\ \A q \in Profiles \ touched : disk[q].block = "no"
  /\ op[p].pc = "generation" => op[p].todo = <<>>

\* What a transaction is for.
RequestPhase(p) == LET o == op[p] t == op[p].tx IN
  /\ o.pc = "prepare" /\ o.kind = "update" => receipt # None /\ receipt.active = o.base
  /\ o.pc \in {"copy", "journal"} \cup Forward =>
       IF o.kind = "register" THEN t.before # None /\ t.after = [t.before EXCEPT !.path = TRUE]
       ELSE /\ t.after.active = o.target
            /\ t.after.previous = IF t.before = None THEN None
                                  ELSE IF t.before.active = o.target THEN t.before.previous
                                  ELSE t.before.active
            /\ t.after.path = (o.modify \/ (t.before # None /\ t.before.path))
            /\ o.kind = "update" => t.before # None /\ t.before.active = o.base

Phase(p) == JournalPhase(p) /\ PlanPhase(p) /\ ApplyPhase(p) /\ UndoPhase(p) /\ RemovePhase(p)
            /\ RequestPhase(p)

WorkInv == TypeInv /\ DiskInv /\ \A p \in Procs : Phase(p)

LEMMA OutsidePhase ==
  ASSUME NEW p \in Procs, op'[p].pc \in Outside \cup {"locked"} PROVE Phase(p)'
  BY DEF Phase, JournalPhase, PlanPhase, ApplyPhase, UndoPhase, RemovePhase, RequestPhase, Outside,
         Between, Removing, Forward, Backward, Listed

\* Only the process that takes a step has anything under way.
LEMMA OthersOutside ==
  ASSUME Apart, NEW p \in Procs, Working(p), \A q \in Procs \ {p} : op'[q] = op[q], Phase(p)'
  PROVE  \A q \in Procs : Phase(q)'
<1>1. ASSUME NEW q \in Procs, q # p PROVE Phase(q)'
  <2>1. op'[q].pc \in Outside
    BY <1>1 DEF Apart, Working
  <2>2. QED BY <2>1, OutsidePhase
<1>2. QED BY <1>1

LEMMA PhaseStays ==
  ASSUME NEW p \in Procs, Phase(p), op'[p] = op[p], Still PROVE Phase(p)'
<1>1. UNCHANGED <<disk, aside, receipt, journal, generations, cut, touched>>
  BY DEF Still, installation
<1>2. JournalPhase(p)'
  BY <1>1 DEF Phase, JournalPhase
<1>3. PlanPhase(p)'
  BY <1>1 DEF Phase, PlanPhase, Rest, TxWhole, Whole
<1>4. ApplyPhase(p)'
  BY <1>1 DEF Phase, ApplyPhase, Rest, Applied
<1>5. UndoPhase(p)'
  BY <1>1 DEF Phase, UndoPhase, Reverted
<1>6. RemovePhase(p)'
  BY <1>1 DEF Phase, RemovePhase
<1>7. RequestPhase(p)'
  BY <1>1 DEF Phase, RequestPhase
<1>8. QED BY <1>2, <1>3, <1>4, <1>5, <1>6, <1>7 DEF Phase

LEMMA DiskStays == ASSUME DiskInv, Still PROVE DiskInv'
<1>1. UNCHANGED <<disk, aside, receipt, journal, generations, cut, touched>>
  BY DEF Still, installation
<1>2. Base' = Base /\ Underway' = Underway /\ Whole' = Whole
  BY <1>1 DEF Base, Underway, Whole
<1>3. JournalInv'
  BY <1>1, <1>2 DEF DiskInv, JournalInv, TxWhole
<1>4. Unreached' /\ BackedUp' /\ Traced' /\ BundleInv'
  BY <1>1, <1>2 DEF DiskInv, Unreached, BackedUp, Traced, BundleInv
<1>5. LaunchersResolve'
  BY <1>1 DEF DiskInv, LaunchersResolve
<1>6. QED BY <1>3, <1>4, <1>5 DEF DiskInv

\* A step that changes nothing but its process, which is then at rest or about to recover.
LEMMA RestingStep ==
  ASSUME WorkInv, NEW p \in Procs, TypeInv', Still, \A q \in Procs \ {p} : op'[q] = op[q],
         op'[p].pc \in Outside \cup {"locked"}
  PROVE  WorkInv'
<1>1. \A q \in Procs : Phase(q)'
  BY OutsidePhase, PhaseStays DEF WorkInv
<1>2. QED BY <1>1, DiskStays DEF WorkInv

\* A step of a process that works.
LEMMA WorkingStep ==
  ASSUME Apart, NEW p \in Procs, Working(p), TypeInv', \A q \in Procs \ {p} : op'[q] = op[q],
         DiskInv', Phase(p)'
  PROVE  WorkInv'
  BY OthersOutside DEF WorkInv

LEMMA DistinctChanges ==
  ASSUME NEW s, Distinct(s), NEW c \in Chg(s), NEW d \in Chg(s), c.path = d.path PROVE c = d
  BY DEF Distinct, Chg

LEMMA DistinctTail ==
  ASSUME NEW S, NEW s \in Seq(S), s # <<>>, Distinct(s)
  PROVE  Distinct(Tail(s)) /\ \A c \in Chg(Tail(s)) : c.path # Head(s).path
<1>1. /\ Len(s) \in Nat \ {0} /\ 1 \in DOMAIN s /\ Head(s) = s[1]
      /\ DOMAIN Tail(s) = 1 .. Len(s) - 1
      /\ \A i \in DOMAIN Tail(s) : i + 1 \in DOMAIN s /\ Tail(s)[i] = s[i + 1]
  BY TailOf
<1>2. Distinct(Tail(s))
  <2>1. ASSUME NEW i \in DOMAIN Tail(s), NEW j \in DOMAIN Tail(s), Tail(s)[i].path = Tail(s)[j].path
        PROVE  i = j
    <3>1. i + 1 = j + 1
      BY <1>1, <2>1 DEF Distinct
    <3>2. QED BY <1>1, <3>1
  <2>2. QED BY <2>1 DEF Distinct
<1>3. ASSUME NEW c \in Chg(Tail(s)), c.path = Head(s).path PROVE FALSE
  <2>1. PICK i \in DOMAIN Tail(s) : c = Tail(s)[i]
    BY DEF Chg
  <2>2. i + 1 = 1
    BY <1>1, <1>3, <2>1 DEF Distinct
  <2>3. QED BY <1>1, <2>2
<1>4. QED BY <1>2, <1>3

LEMMA InitWork == ASSUME Init PROVE WorkInv
<1>1. TypeInv
  BY InitTypes
<1>2. PICK v \in Versions, links \in BOOLEAN, installed \in BOOLEAN :
        /\ receipt = IF ~installed THEN None
                     ELSE [active |-> v, previous |-> None, path |-> FALSE,
                           owned |-> [q \in Files \cup Bundles |-> v]]
        /\ disk = [q \in Paths |->
                     CASE q \in Profiles -> [text |-> "old", block |-> "no"]
                       [] q \in Bundles /\ links /\ ~installed -> "link"
                       [] OTHER -> IF installed THEN v ELSE "absent"]
        /\ generations = [w \in Versions |->
                            IF installed /\ w = v THEN "whole" ELSE "absent"]
        /\ journal = None /\ aside = "absent"
        /\ op = [p \in Procs |-> Idle]
        /\ held = [p \in Procs |-> 0]
        /\ lockFile = IF installed THEN 1 ELSE 0
        /\ shared = None
        /\ cut = FALSE /\ touched = {} /\ late = [p \in Procs |-> {}]
        /\ starts = 0 /\ crashes = 0 /\ edits = 0
  BY DEF Init
<1>3. \A p \in Procs : op[p].pc = "idle"
  BY <1>2 DEF Idle
<1>4. \A p \in Procs : Phase(p)
  BY <1>3 DEF Phase, JournalPhase, PlanPhase, ApplyPhase, UndoPhase, RemovePhase, RequestPhase,
              Between, Removing, Forward, Backward, Listed
<1>5. Chg(<<>>) = {}
  BY EmptySeq, ChgOf
<1>6. Base = receipt /\ Chg(Underway) = {} /\ Reaches(Underway) = {}
  BY <1>2, <1>5 DEF Base, Underway, Reaches
<1>7. ASSUME NEW q \in Files
      PROVE  /\ disk[q] = IF installed THEN v ELSE "absent"
             /\ Owner(receipt, q) = IF installed THEN v ELSE None
  <2>1. CASE installed
    <3>1. \E f \in BOOLEAN : receipt = [active |-> v, previous |-> None, path |-> f,
                                       owned |-> [r \in Files \cup Bundles |-> v]]
      BY <1>2, <2>1
    <3>2. receipt.owned = [r \in Files \cup Bundles |-> v] /\ receipt \in Receipts
      BY <3>1 DEF Receipts
    <3>3. QED BY <1>2, <2>1, <3>2, Given DEF Owner
  <2>2. CASE ~installed
    BY <1>2, <2>2, Given DEF Owner
  <2>3. QED BY <2>1, <2>2
<1>8. ASSUME NEW q \in Plain PROVE Fits(receipt, q, disk[q], cut)
  <2>1. CASE q \in Profiles
    <3>1. disk[q].block = "no"
      BY <1>2, <2>1, Given
    <3>2. receipt = None \/ ~receipt.path
      BY <1>2
    <3>3. QED BY <2>1, <3>1, <3>2 DEF Fits
  <2>2. CASE q \in Files
    BY <1>7, <2>2, Given DEF Fits
  <2>3. QED BY <2>1, <2>2 DEF Plain
<1>9. Unreached /\ BackedUp /\ BundleInv /\ JournalInv
  BY <1>2, <1>6, <1>8 DEF Unreached, BackedUp, BundleInv, JournalInv
<1>10. Traced
  BY <1>6, <1>7, Given DEF Traced
<1>11. LaunchersResolve
  BY <1>2, <1>7, Given DEF LaunchersResolve
<1>12. QED BY <1>1, <1>4, <1>9, <1>10, <1>11 DEF WorkInv, DiskInv

\* What is under way while the journal is on disk.
LEMMA UnderwayIs ==
  ASSUME WorkInv, NEW p \in Procs, op[p].pc \in Forward \cup Backward
  PROVE  /\ journal = op[p].tx /\ journal # None /\ journal \in Tx
         /\ SoundTx(journal) /\ TxWhole(journal)
         /\ Base = journal.before /\ Underway = journal.changes
         /\ journal.changes \in Seq(TxChange) /\ Working(p)
         /\ \A c, d \in Chg(journal.changes) : c.path = d.path => c = d
<1>1. journal = op[p].tx /\ journal # None /\ journal \in Tx
  BY DEF WorkInv, Phase, JournalPhase, TypeInv
<1>2. SoundTx(journal) /\ TxWhole(journal)
  BY <1>1 DEF WorkInv, DiskInv, JournalInv
<1>3. \A c, d \in Chg(journal.changes) : c.path = d.path => c = d
  BY <1>2, DistinctChanges DEF SoundTx
<1>4. QED BY <1>1, <1>2, <1>3 DEF Base, Underway, Tx, Working, Outside, Forward, Backward

\* What is there while no journal is.
LEMMA NothingUnderway ==
  ASSUME WorkInv, NEW p \in Procs, op[p].pc \in Between \cup Removing
  PROVE  /\ journal = None /\ Base = receipt /\ Chg(Underway) = {} /\ Reaches(Underway) = {}
         /\ Working(p)
         /\ \A q \in Plain \ touched : Fits(receipt, q, disk[q], cut)
         /\ \A q \in Files : disk[q] \in Versions => disk[q] = Owner(receipt, q)
<1>1. journal = None
  BY DEF WorkInv, Phase, JournalPhase
<1>2. Chg(<<>>) = {}
  BY EmptySeq, ChgOf
<1>3. Base = receipt /\ Chg(Underway) = {} /\ Reaches(Underway) = {}
  BY <1>1, <1>2 DEF Base, Underway, Reaches
<1>4. QED
  BY <1>1, <1>3 DEF WorkInv, DiskInv, Unreached, Traced, Working, Outside, Between, Removing

LEMMA StartKeeps == ASSUME WorkInv, NEW p \in Procs, Start(p) PROVE WorkInv'
<1>1. \A q \in Procs \ {p} : op'[q] = op[q]
  BY StartIs DEF WorkInv
<1>2. op'[p].pc = "lock"
  <2>1. PICK kind \in Kinds, target \in Versions \cup {None}, base \in Versions \cup {None},
             modify \in BOOLEAN : op'[p] = Begun(kind, target, base, modify)
    BY StartIs DEF WorkInv
  <2>2. QED BY <2>1 DEF Begun
<1>3. Still /\ TypeInv'
  BY StartIs, StartTypes DEF WorkInv, Still
<1>4. QED BY <1>1, <1>2, <1>3, RestingStep DEF Outside

LEMMA LocksKeep ==
  ASSUME WorkInv, NEW p \in Procs, LockChannel(p) \/ LockIntegrations(p) PROVE WorkInv'
<1>1. /\ TypeInv' /\ Still /\ \A q \in Procs \ {p} : op'[q] = op[q]
      /\ op'[p].pc \in {"locked", "shared"}
  BY LockChannelIs, LockIntegrationsIs, MovedFields DEF WorkInv
<1>2. QED BY <1>1, RestingStep DEF Outside

LEMMA CrashKeeps == ASSUME WorkInv, NEW p \in Procs, Crash(p) PROVE WorkInv'
<1>1. /\ TypeInv' /\ Still /\ (\A q \in Procs \ {p} : op'[q] = op[q]) /\ op'[p].pc = "idle"
  BY CrashIs DEF WorkInv, Still, Idle
<1>2. QED BY <1>1, RestingStep DEF Outside

LEMMA UnlinkKeeps == ASSUME WorkInv, NEW p \in Procs, Unlink(p) PROVE WorkInv'
<1>1. /\ TypeInv' /\ Still /\ (\A q \in Procs \ {p} : op'[q] = op[q]) /\ op'[p].pc = "idle"
  BY UnlinkIs DEF WorkInv, Still, Idle
<1>2. QED BY <1>1, RestingStep DEF Outside

\* A process that begins to undo the transaction of the journal.
LEMMA UndoBegins ==
  ASSUME NEW p \in Procs, journal' # None, op'[p].pc = "undo", op'[p].tx = journal',
         Chg(op'[p].todo) = Chg(journal'.changes)
  PROVE  Phase(p)'
<1>1. JournalPhase(p)' /\ PlanPhase(p)' /\ ApplyPhase(p)' /\ RemovePhase(p)' /\ RequestPhase(p)'
  BY DEF JournalPhase, PlanPhase, ApplyPhase, RemovePhase, RequestPhase, Between, Removing,
         Forward, Backward
<1>2. UndoPhase(p)'
  BY DEF UndoPhase
<1>3. QED BY <1>1, <1>2 DEF Phase

LEMMA RecoverKeeps == ASSUME WorkInv, Apart, NEW p \in Procs, Recover(p) PROVE WorkInv'
<1>1. TypeInv' /\ Still /\ op[p].pc = "locked" /\ \A q \in Procs \ {p} : op'[q] = op[q]
  BY RecoverIs DEF WorkInv
<1>2. DiskInv' /\ Working(p)
  BY <1>1, DiskStays DEF WorkInv, Working, Outside
<1>3. CASE journal # None
  <2>1. /\ op'[p].pc = "undo" /\ op'[p].tx = journal /\ journal' = journal
        /\ Chg(op'[p].todo) = Chg(journal.changes)
    BY <1>1, <1>3, RecoverIs DEF WorkInv, Still, installation
  <2>2. Phase(p)'
    BY <1>3, <2>1, UndoBegins
  <2>3. QED BY <1>1, <1>2, <2>2, WorkingStep
<1>4. CASE journal = None /\ op'[p] = Idle
  BY <1>1, <1>4, RestingStep DEF Idle, Outside
<1>5. CASE journal = None /\ op'[p] = Moved(op[p], "ready", op[p].todo)
  <2>1. op'[p].pc = "ready" /\ journal' = None
    BY <1>1, <1>5, MovedFields DEF Still, installation
  <2>2. Phase(p)'
    BY <2>1 DEF Phase, JournalPhase, PlanPhase, ApplyPhase, UndoPhase, RemovePhase, RequestPhase,
                Removing, Forward, Backward, Listed
  <2>3. QED BY <1>1, <1>2, <2>2, WorkingStep
<1>6. QED BY <1>3, <1>4, <1>5, RecoverIs DEF WorkInv

\* A step that touches no file and no profile.
LEMMA PlainStays ==
  ASSUME DiskInv, UNCHANGED <<receipt, journal, generations, cut, touched>>,
         \A q \in Plain : disk'[q] = disk[q]
  PROVE  /\ JournalInv' /\ Unreached' /\ BackedUp' /\ Traced' /\ LaunchersResolve'
         /\ \A c : Applied(c) => Applied(c)'
         /\ \A c, t : Reverted(c, t) => Reverted(c, t)'
         /\ \A t, gone : Rest(t, gone) => Rest(t, gone)'
<1>1. Base' = Base /\ Underway' = Underway /\ Whole' = Whole
  BY DEF Base, Underway, Whole
<1>2. JournalInv'
  BY <1>1 DEF DiskInv, JournalInv, TxWhole
<1>3. Unreached' /\ BackedUp'
  BY <1>1 DEF DiskInv, Unreached, BackedUp
<1>4. Traced' /\ LaunchersResolve'
  BY <1>1 DEF DiskInv, Traced, LaunchersResolve, Plain
<1>5. /\ \A c : Applied(c) => Applied(c)'
      /\ \A c, t : Reverted(c, t) => Reverted(c, t)'
      /\ \A t, gone : Rest(t, gone) => Rest(t, gone)'
  BY DEF Applied, Reverted, Rest
<1>6. QED BY <1>2, <1>3, <1>4, <1>5

\* A step of a process that undoes and goes on undoing.
LEMMA UndoGoesOn ==
  ASSUME WorkInv, NEW p \in Procs, op[p].pc \in {"undo", "put", "clear", "tear", "restore"},
         op'[p].pc \in {"undo", "put", "clear", "tear", "restore"},
         op'[p].tx = op[p].tx, journal' = journal,
         op'[p].pc = "clear" => aside' # "absent" \/ Head(op'[p].todo).before = "absent",
         \A c \in Chg(journal.changes) \ Chg(op'[p].todo) : Reverted(c, journal)'
  PROVE  Phase(p)'
<1>1. journal = op[p].tx /\ journal # None
  BY UnderwayIs DEF Backward
<1>2. JournalPhase(p)' /\ PlanPhase(p)' /\ ApplyPhase(p)' /\ RemovePhase(p)' /\ RequestPhase(p)'
  BY <1>1 DEF JournalPhase, PlanPhase, ApplyPhase, RemovePhase, RequestPhase, Between, Removing,
         Forward, Backward
<1>3. \A c : Reverted(c, op[p].tx)' <=> Reverted(c, journal)'
  BY <1>1 DEF Reverted
<1>4. UndoPhase(p)'
  BY <1>1 DEF UndoPhase, Reverted
<1>5. QED BY <1>2, <1>4 DEF Phase

LEMMA FindOursKeeps == ASSUME WorkInv, Apart, NEW p \in Procs, FindOurs(p) PROVE WorkInv'
<1> DEFINE c == Change(p)
           t == journal
<1>1. /\ TypeInv' /\ Still /\ \A q \in Procs \ {p} : op'[q] = op[q]
      /\ op[p].pc = "undo" /\ op[p].todo # <<>> /\ c.path \in Plain
      /\ \/ disk[c.path] = c.after /\ op'[p] = Moved(op[p], "put", op[p].todo)
         \/ disk[c.path] # c.after /\ op'[p] = Moved(op[p], "undo", Tail(op[p].todo))
  BY FindOursIs DEF WorkInv
<1>2. /\ t = op[p].tx /\ t # None /\ Base = t.before /\ Underway = t.changes /\ Working(p)
      /\ \A b, d \in Chg(t.changes) : b.path = d.path => b = d
  BY <1>1, UnderwayIs DEF Backward
<1>3. c \in Chg(t.changes) /\ Chg(op[p].todo) = {c} \cup Chg(Tail(op[p].todo))
  BY <1>1, <1>2, TodoIs DEF WorkInv
<1>4. UNCHANGED <<disk, aside, receipt, journal, generations, cut, touched>>
  BY <1>1 DEF Still, installation
<1>5. DiskInv' /\ DiskInv
  BY <1>1, DiskStays DEF WorkInv
<1>6. \A b : Reverted(b, t) => Reverted(b, journal)'
  BY <1>4 DEF Reverted
<1>7. \A b \in Chg(t.changes) \ Chg(op[p].todo) : Reverted(b, t)
  BY <1>1, <1>2 DEF WorkInv, Phase, UndoPhase
<1> HIDE DEF c
<1>8. disk[c.path] # c.after => Reverted(c, t)
  <2>1. ASSUME disk[c.path] # c.after, c.path \notin touched PROVE disk[c.path] = c.before
    BY <1>1, <1>2, <1>3, <1>5, <2>1 DEF DiskInv, BackedUp
  <2>2. ASSUME disk[c.path] # c.after, c.path \in Files, disk[c.path] \in Versions
        PROVE  disk[c.path] = Owner(t.before, c.path)
    BY <1>2, <1>3, <1>5, <2>2 DEF DiskInv, Traced
  <2>3. QED BY <2>1, <2>2 DEF Reverted
<1>9. /\ op'[p].pc \in {"put", "undo"} /\ op'[p].tx = op[p].tx
      /\ \A b \in Chg(t.changes) \ Chg(op'[p].todo) : Reverted(b, t)
  BY <1>1, <1>3, <1>7, <1>8, MovedFields
<1>10. Phase(p)'
  BY <1>1, <1>4, <1>6, <1>9, UndoGoesOn DEF t
<1>11. QED BY <1>1, <1>2, <1>5, <1>10, WorkingStep

LEMMA PutBackKeeps == ASSUME WorkInv, Apart, NEW p \in Procs, PutBack(p) PROVE WorkInv'
<1> DEFINE c == Change(p)
           t == journal
<1>1. /\ TypeInv' /\ \A q \in Procs \ {p} : op'[q] = op[q]
      /\ op'[p] = Moved(op[p], "undo", Tail(op[p].todo))
      /\ op[p].pc = "put" /\ op[p].todo # <<>> /\ c.path \in Plain
      /\ \A q \in Paths \ {c.path} : disk'[q] = disk[q]
      /\ disk'[c.path] = c.before
      /\ UNCHANGED <<aside, installation, locks, cut, touched, counts>>
  BY PutBackIs DEF WorkInv
<1>2. /\ t = op[p].tx /\ t # None /\ SoundTx(t) /\ TxWhole(t)
      /\ Base = t.before /\ Underway = t.changes /\ Working(p)
      /\ \A b, d \in Chg(t.changes) : b.path = d.path => b = d
  BY <1>1, UnderwayIs DEF Backward
<1>3. /\ c \in TxChange /\ c \in Chg(t.changes)
      /\ Chg(op[p].todo) = {c} \cup Chg(Tail(op[p].todo))
  BY <1>1, <1>2, TodoIs DEF WorkInv
<1>4. UNCHANGED <<aside, receipt, journal, generations, cut, touched>>
  BY <1>1 DEF installation
<1>5. Base' = Base /\ Underway' = Underway /\ Whole' = Whole
  BY <1>4 DEF Base, Underway, Whole
<1>6. Unreached /\ BackedUp /\ Traced /\ BundleInv /\ JournalInv /\ LaunchersResolve
  BY DEF WorkInv, DiskInv
<1>7. SoundChange(c, t)
  BY <1>2, <1>3 DEF SoundTx
<1>8. c.path \in Files => /\ c.before \in Versions => c.before = Owner(t.before, c.path)
                          /\ {c.before, c.after} \cap Versions \subseteq Whole
  BY <1>2, <1>3, <1>7, Given DEF SoundChange, TxWhole
<1> HIDE DEF c, t
<1>9. Plain \subseteq Paths /\ Files \subseteq Paths /\ Bundles \subseteq Paths
      /\ c.path \notin Bundles
  BY <1>1, Given DEF Plain
<1>10. JournalInv'
  BY <1>4, <1>5, <1>6 DEF JournalInv, TxWhole
<1>11. Unreached'
  <2>1. c.path \in Reaches(Underway)
    BY <1>2, <1>3 DEF Reaches
  <2>2. QED BY <1>1, <1>4, <1>5, <1>6, <1>9, <2>1 DEF Unreached
<1>12. BackedUp'
  <2>1. ASSUME NEW b \in Chg(Underway), b.path \in Plain \ touched
        PROVE  /\ Fits(Base, b.path, b.before, cut) /\ disk'[b.path] \in {b.before, b.after}
               /\ SameText(b)
    <3>1. /\ Fits(Base, b.path, b.before, cut) /\ disk[b.path] \in {b.before, b.after}
          /\ SameText(b)
      BY <1>6, <2>1 DEF BackedUp
    <3>2. CASE b.path # c.path
      BY <1>1, <1>9, <2>1, <3>1, <3>2
    <3>3. CASE b.path = c.path
      <4>1. b = c
        BY <1>2, <1>3, <3>3
      <4>2. QED BY <1>1, <3>1, <4>1
    <3>4. QED BY <3>2, <3>3
  <2>2. QED BY <1>4, <1>5, <2>1 DEF BackedUp
<1>13. Traced'
  <2>1. ASSUME NEW q \in Files, disk'[q] \in Versions
        PROVE  disk'[q] = Owner(Base, q) \/ \E b \in Chg(Underway) : b.path = q /\ disk'[q] = b.after
    <3>1. CASE disk'[q] = disk[q]
      BY <1>6, <2>1, <3>1 DEF Traced
    <3>2. CASE q = c.path /\ disk'[q] = c.before
      BY <1>2, <1>8, <2>1, <3>2
    <3>3. QED BY <1>1, <1>9, <3>1, <3>2
  <2>2. QED BY <1>5, <2>1 DEF Traced
<1>14. BundleInv'
  <2>1. \A q \in Bundles : disk'[q] = disk[q]
    BY <1>1, <1>9
  <2>2. QED BY <1>4, <1>5, <1>6, <2>1 DEF BundleInv
<1>15. LaunchersResolve'
  <2>1. ASSUME NEW q \in Files, disk'[q] \in Versions PROVE generations[disk'[q]] = "whole"
    <3>1. CASE disk'[q] = disk[q]
      BY <1>6, <2>1, <3>1 DEF LaunchersResolve
    <3>2. CASE q = c.path /\ disk'[q] = c.before
      BY <1>8, <2>1, <3>2 DEF Whole
    <3>3. QED BY <1>1, <1>9, <3>1, <3>2
  <2>2. QED BY <1>4, <2>1 DEF LaunchersResolve
<1>16. DiskInv'
  BY <1>10, <1>11, <1>12, <1>13, <1>14, <1>15 DEF DiskInv
<1>17. op'[p].pc = "undo" /\ op'[p].tx = op[p].tx /\ op'[p].todo = Tail(op[p].todo)
  BY <1>1, MovedFields
<1>18. ASSUME NEW b \in Chg(t.changes) \ Chg(op'[p].todo) PROVE Reverted(b, t)'
  <2>1. CASE b.path # c.path
    <3>1. b \notin Chg(op[p].todo)
      BY <1>3, <1>17, <2>1
    <3>2. Reverted(b, t)
      BY <1>1, <1>2, <3>1 DEF WorkInv, Phase, UndoPhase
    <3>3. b.path \in Plain => disk'[b.path] = disk[b.path]
      BY <1>1, <1>9, <2>1
    <3>4. QED BY <1>4, <3>2, <3>3 DEF Reverted, t
  <2>2. CASE b.path = c.path
    <3>1. b = c
      BY <1>2, <1>3, <2>2
    <3>2. QED BY <1>1, <1>4, <1>8, <3>1 DEF Reverted, t
  <2>3. QED BY <2>1, <2>2
<1>19. Phase(p)'
  BY <1>1, <1>4, <1>17, <1>18, UndoGoesOn DEF t
<1>20. QED BY <1>1, <1>2, <1>16, <1>19, WorkingStep

\* A step that only takes away, or gives back, the bundle of a transaction that is undone.
LEMMA BundleUndone ==
  ASSUME WorkInv, Apart, NEW p \in Procs, TypeInv', \A q \in Procs \ {p} : op'[q] = op[q],
         op[p].pc \in {"clear", "tear", "restore"}, op'[p].pc \in {"undo", "tear", "restore"},
         op'[p].tx = op[p].tx, NEW b \in Bundles,
         \A q \in Paths \ {b} : disk'[q] = disk[q],
         UNCHANGED <<receipt, journal, generations, cut, touched>>,
         \A c \in Chg(journal.changes) : c.path \notin Bundles /\ c \in Chg(op[p].todo) =>
           c \in Chg(op'[p].todo),
         BundleInv'
  PROVE  WorkInv'
<1>1. \A q \in Plain : disk'[q] = disk[q]
  BY Given DEF Plain
<1>2. DiskInv
  BY DEF WorkInv
<1>3. /\ JournalInv' /\ Unreached' /\ BackedUp' /\ Traced' /\ LaunchersResolve'
      /\ \A c, t : Reverted(c, t) => Reverted(c, t)'
  BY <1>1, <1>2, PlainStays
<1>4. DiskInv'
  BY <1>3 DEF DiskInv
<1>5. journal = op[p].tx /\ Working(p)
  BY UnderwayIs DEF Backward
<1>6. ASSUME NEW c \in Chg(journal.changes) \ Chg(op'[p].todo) PROVE Reverted(c, journal)'
  <2>1. CASE c.path \in Bundles
    BY <2>1, Given DEF Reverted, Plain
  <2>2. CASE c.path \notin Bundles
    <3>1. c \notin Chg(op[p].todo)
      BY <2>2
    <3>2. Reverted(c, journal)
      BY <1>5, <3>1 DEF WorkInv, Phase, UndoPhase
    <3>3. QED BY <1>3, <3>2 DEF Reverted
  <2>3. QED BY <2>1, <2>2
<1>7. Phase(p)'
  BY <1>6, UndoGoesOn
<1>8. QED BY <1>4, <1>5, <1>7, WorkingStep

\* What the bundle of a transaction is before it, at its path or aside.
LEMMA BundleIs ==
  ASSUME WorkInv, NEW c \in Chg(Underway), c.path \in Bundles
  PROVE  /\ c.path \notin touched /\ c.before # "absent" =>
              c.before \in {disk[c.path], aside} /\ aside \in {"absent", c.before}
         /\ c.before \in Versions \cup {"absent", "link"} /\ c.after \in Versions
<1>1. journal # None /\ Underway = journal.changes
  <2>1. Chg(<<>>) = {}
    BY EmptySeq, ChgOf
  <2>2. QED BY <2>1 DEF Underway
<1>2. SoundChange(c, journal)
  BY <1>1 DEF WorkInv, DiskInv, JournalInv, SoundTx
<1>3. QED BY <1>2, Given DEF SoundChange, WorkInv, DiskInv, BundleInv

LEMMA FindBundleKeeps == ASSUME WorkInv, Apart, NEW p \in Procs, FindBundle(p) PROVE WorkInv'
<1>1. /\ TypeInv' /\ Still /\ \A q \in Procs \ {p} : op'[q] = op[q]
      /\ op'[p] = Moved(op[p], IF OursToRemove(Change(p)) THEN "clear" ELSE "restore",
                        op[p].todo)
      /\ op[p].pc = "undo" /\ op[p].todo # <<>>
  BY FindBundleIs DEF WorkInv
<1>2. DiskInv' /\ Working(p) /\ journal = op[p].tx
  BY <1>1, DiskStays, UnderwayIs DEF WorkInv, Backward
<1>3. UNCHANGED <<disk, aside, receipt, journal, generations, cut, touched>>
  BY <1>1 DEF Still, installation
<1>4. /\ op'[p].pc = IF OursToRemove(Change(p)) THEN "clear" ELSE "restore"
      /\ op'[p].tx = op[p].tx /\ op'[p].todo = op[p].todo
  BY <1>1, MovedFields
<1>5. op'[p].pc = "clear" => aside' # "absent" \/ Head(op'[p].todo).before = "absent"
  BY <1>3, <1>4 DEF OursToRemove, Change
<1>6. \A c \in Chg(journal.changes) \ Chg(op'[p].todo) : Reverted(c, journal)
  BY <1>1, <1>2, <1>4 DEF WorkInv, Phase, UndoPhase
<1>7. \A c : Reverted(c, journal) => Reverted(c, journal)'
  BY <1>3 DEF Reverted
<1>8. Phase(p)'
  BY <1>1, <1>3, <1>4, <1>5, <1>6, <1>7, UndoGoesOn
<1>9. QED BY <1>1, <1>2, <1>8, WorkingStep

LEMMA TearBundleKeeps == ASSUME WorkInv, Apart, NEW p \in Procs, TearBundle(p) PROVE WorkInv'
<1> DEFINE b == Change(p).path
<1>1. /\ TypeInv' /\ \A q \in Procs \ {p} : op'[q] = op[q]
      /\ op'[p] = Moved(op[p], "tear", op[p].todo)
      /\ op[p].pc = "clear" /\ op[p].todo # <<>> /\ b \in Bundles
      /\ disk[b] # "absent"
      /\ \A q \in Paths \ {b} : disk'[q] = disk[q]
      /\ disk'[b] = "torn"
      /\ UNCHANGED <<aside, installation, locks, cut, touched, counts>>
  BY TearBundleIs DEF WorkInv
<1>2. UNCHANGED <<aside, receipt, journal, generations, cut, touched>>
  BY <1>1 DEF installation
<1>3. op'[p].pc = "tear" /\ op'[p].tx = op[p].tx /\ op'[p].todo = op[p].todo
  BY <1>1, MovedFields
<1>4. /\ Change(p) \in Chg(journal.changes) /\ Underway = journal.changes
      /\ \A c, d \in Chg(journal.changes) : c.path = d.path => c = d
  BY <1>1, UnderwayIs, TodoIs DEF Backward, WorkInv
<1>5. BundleInv'
  <2>1. ASSUME NEW c \in Chg(Underway), c.path \in Bundles \ touched, c.before # "absent"
        PROVE  c.before = aside
    <3>1. c = Change(p)
      BY <1>1, <1>4, <2>1, Given
    <3>2. aside # "absent"
      BY <1>1, <2>1, <3>1 DEF WorkInv, Phase, UndoPhase, Change
    <3>3. QED BY <2>1, <3>2, BundleIs
  <2>2. Underway' = Underway
    BY <1>2 DEF Underway
  <2>3. QED BY <1>2, <2>1, <2>2 DEF BundleInv
<1>6. QED BY <1>1, <1>2, <1>3, <1>5, BundleUndone

LEMMA DropBundleKeeps == ASSUME WorkInv, Apart, NEW p \in Procs, DropBundle(p) PROVE WorkInv'
<1> DEFINE b == Change(p).path
<1>1. /\ TypeInv' /\ \A q \in Procs \ {p} : op'[q] = op[q]
      /\ op'[p] = Moved(op[p], "restore", op[p].todo)
      /\ op[p].pc = "tear" /\ op[p].todo # <<>> /\ b \in Bundles
      /\ disk[b] = "torn"
      /\ \A q \in Paths \ {b} : disk'[q] = disk[q]
      /\ disk'[b] = "absent"
      /\ UNCHANGED <<aside, installation, locks, cut, touched, counts>>
  BY DropBundleIs DEF WorkInv
<1>2. UNCHANGED <<aside, receipt, journal, generations, cut, touched>>
  BY <1>1 DEF installation
<1>3. op'[p].pc = "restore" /\ op'[p].tx = op[p].tx /\ op'[p].todo = op[p].todo
  BY <1>1, MovedFields
<1>4. BundleInv'
  <2>1. ASSUME NEW c \in Chg(Underway), c.path \in Bundles \ touched, c.before # "absent"
        PROVE  c.before = aside
    <3>1. c.path = b
      BY <1>1, <2>1, Given
    <3>2. c.before # "torn"
      BY <2>1, BundleIs, Given
    <3>3. QED BY <1>1, <2>1, <3>1, <3>2, BundleIs
  <2>2. Underway' = Underway
    BY <1>2 DEF Underway
  <2>3. QED BY <1>2, <2>1, <2>2 DEF BundleInv
<1>5. QED BY <1>1, <1>2, <1>3, <1>4, BundleUndone

LEMMA RestoreBundleKeeps ==
  ASSUME WorkInv, Apart, NEW p \in Procs, RestoreBundle(p) PROVE WorkInv'
<1> DEFINE b == Change(p).path
<1>1. /\ TypeInv' /\ \A q \in Procs \ {p} : op'[q] = op[q]
      /\ op'[p] = Moved(op[p], "undo", Tail(op[p].todo))
      /\ op[p].pc = "restore" /\ op[p].todo # <<>> /\ b \in Bundles
      /\ \A q \in Paths \ {b} : disk'[q] = disk[q]
      /\ \/ /\ aside # "absent" /\ disk[b] = "absent"
            /\ disk'[b] = aside /\ aside' = "absent"
         \/ disk' = disk /\ aside' = aside
      /\ UNCHANGED <<installation, locks, cut, touched, counts>>
  BY RestoreBundleIs DEF WorkInv
<1>2. UNCHANGED <<receipt, journal, generations, cut, touched>>
  BY <1>1 DEF installation
<1>3. op'[p].pc = "undo" /\ op'[p].tx = op[p].tx /\ op'[p].todo = Tail(op[p].todo)
  BY <1>1, MovedFields
<1>4. Chg(op[p].todo) = {Change(p)} \cup Chg(Tail(op[p].todo))
  BY <1>1, TodoIs DEF WorkInv
<1>5. BundleInv'
  <2>1. ASSUME NEW c \in Chg(Underway), c.path \in Bundles \ touched, c.before # "absent"
        PROVE  c.before \in {disk'[c.path], aside'} /\ aside' \in {"absent", c.before}
    <3>1. c.before \in {disk[c.path], aside} /\ aside \in {"absent", c.before} /\ c.path = b
      BY <1>1, <2>1, Given, BundleIs
    <3>2. QED BY <1>1, <2>1, <3>1
  <2>2. Underway' = Underway
    BY <1>2 DEF Underway
  <2>3. QED BY <1>2, <2>1, <2>2 DEF BundleInv
<1>6. \A c \in Chg(journal.changes) : c.path \notin Bundles /\ c \in Chg(op[p].todo) =>
        c \in Chg(op'[p].todo)
  BY <1>1, <1>3, <1>4
<1>7. QED BY <1>1, <1>2, <1>3, <1>5, <1>6, BundleUndone

LEMMA RestoreReceiptKeeps ==
  ASSUME WorkInv, Apart, NEW p \in Procs, RestoreReceipt(p) PROVE WorkInv'
<1>1. /\ TypeInv' /\ \A q \in Procs \ {p} : op'[q] = op[q]
      /\ op'[p] = Moved(op[p], "undone", op[p].todo)
      /\ op[p].pc = "undo" /\ op[p].todo = <<>> /\ receipt' = op[p].tx.before
      /\ UNCHANGED <<disk, aside, journal, generations, locks, cut, touched, counts>>
  BY RestoreReceiptIs DEF WorkInv
<1>2. journal = op[p].tx /\ journal # None /\ Working(p)
  BY <1>1, UnderwayIs DEF Backward
<1>3. op'[p].pc = "undone" /\ op'[p].tx = op[p].tx
  BY <1>1, MovedFields
<1>4. DiskInv'
  <2>1. Base' = Base /\ Underway' = Underway /\ Whole' = Whole
    BY <1>1, <1>2 DEF Base, Underway, Whole
  <2>2. JournalInv'
    BY <1>1, <2>1 DEF WorkInv, DiskInv, JournalInv, TxWhole
  <2>3. Unreached' /\ BackedUp' /\ Traced' /\ BundleInv'
    BY <1>1, <2>1 DEF WorkInv, DiskInv, Unreached, BackedUp, Traced, BundleInv
  <2>4. LaunchersResolve'
    BY <1>1 DEF WorkInv, DiskInv, LaunchersResolve
  <2>5. QED BY <2>2, <2>3, <2>4 DEF DiskInv
<1>5. \A c \in Chg(op[p].tx.changes) : Reverted(c, op[p].tx)
  <2>1. Chg(<<>>) = {}
    BY EmptySeq, ChgOf
  <2>2. QED BY <1>1, <2>1 DEF WorkInv, Phase, UndoPhase
<1>6. UndoPhase(p)'
  BY <1>1, <1>3, <1>5 DEF UndoPhase, Reverted
<1>7. JournalPhase(p)' /\ PlanPhase(p)' /\ ApplyPhase(p)' /\ RemovePhase(p)' /\ RequestPhase(p)'
  BY <1>1, <1>2, <1>3 DEF JournalPhase, PlanPhase, ApplyPhase, RemovePhase, RequestPhase, Between,
                          Removing, Forward, Backward, Listed
<1>8. Phase(p)'
  BY <1>6, <1>7 DEF Phase
<1>9. QED BY <1>1, <1>2, <1>4, <1>8, WorkingStep

LEMMA ClearUndoneKeeps ==
  ASSUME WorkInv, Apart, NEW p \in Procs, ClearUndone(p) PROVE WorkInv'
<1> DEFINE t == journal
<1>1. /\ TypeInv' /\ \A q \in Procs \ {p} : op'[q] = op[q]
      /\ op[p].pc = "undone" /\ journal' = None
      /\ op'[p] = Moved(op[p], "locked", op[p].todo) \/ op'[p] = Idle
      /\ UNCHANGED <<disk, aside, receipt, generations, cut, touched, counts>>
  BY ClearUndoneIs DEF WorkInv
<1>2. /\ t = op[p].tx /\ Working(p) /\ Base = t.before /\ Underway = t.changes
  BY <1>1, UnderwayIs DEF Backward
<1>3. receipt = t.before /\ \A c \in Chg(t.changes) : Reverted(c, t)
  BY <1>1, <1>2 DEF WorkInv, Phase, UndoPhase
<1>4. Chg(<<>>) = {}
  BY EmptySeq, ChgOf
<1>5. Base' = Base /\ Chg(Underway)' = {} /\ Reaches(Underway)' = {}
  BY <1>1, <1>2, <1>3, <1>4 DEF Base, Underway, Reaches
<1>6. Unreached /\ BackedUp /\ Traced /\ LaunchersResolve
  BY DEF WorkInv, DiskInv
<1> HIDE DEF t
<1>7. Unreached'
  <2>1. ASSUME NEW q \in Plain \ touched PROVE Fits(Base, q, disk[q], cut)
    <3>1. CASE q \notin Reaches(Underway)
      BY <1>6, <3>1 DEF Unreached
    <3>2. CASE q \in Reaches(Underway)
      <4>1. PICK c \in Chg(Underway) : c.path = q
        BY <3>2 DEF Reaches
      <4>2. Fits(Base, q, c.before, cut)
        BY <1>6, <4>1 DEF BackedUp
      <4>3. disk[q] = c.before
        BY <1>2, <1>3, <4>1 DEF Reverted
      <4>4. QED BY <4>2, <4>3
    <3>3. QED BY <3>1, <3>2
  <2>2. QED BY <1>1, <1>5, <2>1 DEF Unreached
<1>8. Traced'
  <2>1. ASSUME NEW q \in Files, disk[q] \in Versions PROVE disk[q] = Owner(Base, q)
    <3>1. CASE \E c \in Chg(Underway) : c.path = q
      BY <1>2, <1>3, <2>1, <3>1 DEF Reverted, Plain
    <3>2. CASE ~\E c \in Chg(Underway) : c.path = q
      BY <1>6, <2>1, <3>2 DEF Traced
    <3>3. QED BY <3>1, <3>2
  <2>2. QED BY <1>1, <1>5, <2>1 DEF Traced
<1>9. JournalInv' /\ BackedUp' /\ BundleInv' /\ LaunchersResolve'
  BY <1>1, <1>5, <1>6 DEF JournalInv, BackedUp, BundleInv, LaunchersResolve
<1>10. op'[p].pc \in Outside \cup {"locked"}
  BY <1>1, MovedFields DEF Idle, Outside
<1>11. QED BY <1>1, <1>2, <1>7, <1>8, <1>9, <1>10, OutsidePhase, WorkingStep DEF DiskInv

LEMMA StageKeeps == ASSUME WorkInv, Apart, NEW p \in Procs, Stage(p) PROVE WorkInv'
<1>1. /\ TypeInv' /\ \A q \in Procs \ {p} : op'[q] = op[q]
      /\ op'[p] = Moved(op[p], "prepare", op[p].todo)
      /\ op[p].pc = "ready" /\ op[p].kind \in Activating /\ op[p].target \in Versions
      /\ op[p].kind = "update" => receipt # None /\ receipt.active = op[p].base
      /\ generations'[op[p].target] = "whole"
      /\ \A v \in Versions \ {op[p].target} : generations'[v] = generations[v]
      /\ UNCHANGED <<disk, aside, receipt, journal, locks, cut, touched, counts>>
  BY StageIs DEF WorkInv
<1>2. journal = None /\ Chg(Underway) = {} /\ Reaches(Underway) = {} /\ Working(p)
  BY <1>1, NothingUnderway DEF Between
<1>3. DiskInv'
  <2>1. Base' = Base /\ Underway' = Underway
    BY <1>1 DEF Base, Underway
  <2>2. JournalInv' /\ BackedUp' /\ BundleInv'
    BY <1>1, <1>2, <2>1 DEF JournalInv, BackedUp, BundleInv
  <2>3. Unreached' /\ Traced'
    BY <1>1, <2>1 DEF WorkInv, DiskInv, Unreached, Traced
  <2>4. LaunchersResolve'
    BY <1>1 DEF WorkInv, DiskInv, LaunchersResolve
  <2>5. QED BY <2>2, <2>3, <2>4 DEF DiskInv
<1>4. /\ op'[p].pc = "prepare" /\ op'[p].target = op[p].target /\ op'[p].kind = op[p].kind
      /\ op'[p].base = op[p].base
  BY <1>1, MovedFields
<1>5. Phase(p)'
  BY <1>1, <1>2, <1>4 DEF Phase, JournalPhase, PlanPhase, ApplyPhase, UndoPhase, RemovePhase,
                          RequestPhase, Whole, Removing, Forward, Backward, Listed
<1>6. QED BY <1>1, <1>2, <1>3, <1>5, WorkingStep

\* Where a plan is made, everything is as the receipt says.
LEMMA PlanIsMade ==
  ASSUME WorkInv, Apart, NEW p \in Procs, op[p].pc \in {"ready", "prepare"}, TypeInv',
         \A q \in Procs \ {p} : op'[q] = op[q],
         UNCHANGED <<disk, receipt, journal, generations, cut, touched>>,
         op'[p].pc = "copy", PlanPhase(p)', RequestPhase(p)'
  PROVE  WorkInv'
<1>1. journal = None /\ Chg(Underway) = {} /\ Working(p)
  BY NothingUnderway DEF Between
<1>2. DiskInv
  BY DEF WorkInv
<1>3. JournalInv' /\ Unreached' /\ BackedUp' /\ Traced' /\ LaunchersResolve'
  BY <1>2, PlainStays
<1>4. BundleInv'
  <2>1. Underway' = Underway
    BY DEF Underway
  <2>2. QED BY <1>1, <2>1 DEF BundleInv
<1>5. JournalPhase(p)' /\ ApplyPhase(p)' /\ UndoPhase(p)' /\ RemovePhase(p)'
  BY <1>1 DEF JournalPhase, ApplyPhase, UndoPhase, RemovePhase, Removing, Forward, Backward, Listed
<1>6. QED BY <1>1, <1>3, <1>4, <1>5, WorkingStep DEF DiskInv, Phase

LEMMA PrepareInstallKeeps ==
  ASSUME WorkInv, Apart, NEW p \in Procs, PrepareInstall(p) PROVE WorkInv'
<1> DEFINE t == op'[p].tx
<1>1. /\ TypeInv' /\ \A q \in Procs \ {p} : op'[q] = op[q]
      /\ op[p].pc = "prepare" /\ op[p].kind \in Activating
      /\ op'[p].kind = op[p].kind /\ op'[p].pc = "copy" /\ op'[p].target = op[p].target
      /\ op'[p].base = op[p].base /\ op'[p].modify = op[p].modify
      /\ t \in Tx /\ t.before = receipt
      /\ t.after.active = op[p].target
      /\ t.after.previous = Displaced(p) /\ t.after.path = Registers(p)
      /\ \A q \in Files \cup Bundles : t.after.owned[q] =
           IF q \in Taken THEN op[p].target ELSE Owner(receipt, q)
      /\ op[p].target \in Versions
      /\ Reaches(t.changes) = Taken \cup IF Registers(p) THEN Unregistered ELSE {}
      /\ Distinct(t.changes)
      /\ \A c \in Chg(t.changes) :
           /\ c.before = disk[c.path]
           /\ c.after = IF c.path \in Profiles THEN [disk[c.path] EXCEPT !.block = "yes"]
                        ELSE t.after.owned[c.path]
      /\ Registers(p) => CanRegister
      /\ aside' = "absent"
      /\ UNCHANGED <<disk, installation, locks, cut, touched, counts>>
  BY PrepareInstallIs DEF WorkInv
<1>2. /\ \A q \in Plain \ touched : Fits(receipt, q, disk[q], cut)
      /\ \A q \in Files : disk[q] \in Versions => disk[q] = Owner(receipt, q)
  BY <1>1, NothingUnderway DEF Between
<1>3. UNCHANGED <<disk, receipt, journal, generations, cut, touched>>
  BY <1>1 DEF installation
<1>4. op[p].target \in Whole
  BY <1>1 DEF WorkInv, Phase, PlanPhase
<1>5. t.after \in Receipts /\ t.after # None
  BY <1>1, Given DEF Tx
<1> HIDE DEF t
<1>6. TypeInv
  BY DEF WorkInv
<1>7. ASSUME NEW c \in Chg(t.changes)
      PROVE  /\ c.path \in Profiles => Registers(p) /\ disk[c.path].block = "no"
             /\ c.path \notin Profiles => c.path \in Taken
             /\ c.path \in Paths
  <2>1. c.path \in Reaches(t.changes)
    BY DEF Reaches
  <2>2. QED BY <1>1, <2>1, Given DEF Taken, Unregistered
<1>15. ASSUME NEW c \in Chg(t.changes), c.path \in Profiles
       PROVE  c.before = disk[c.path] /\ c.after.block = "yes" /\ c.after.text = c.before.text
  <2>1. disk[c.path] \in ProfileTexts
    BY <1>6, <1>15, Given, PlaceTypes DEF TypeInv
  <2>2. c.before = disk[c.path] /\ c.after = [disk[c.path] EXCEPT !.block = "yes"]
    BY <1>1, <1>15
  <2>3. QED BY <2>1, <2>2 DEF ProfileTexts
<1>8. SoundTx(t)
  <2>1. ASSUME NEW c \in Chg(t.changes) PROVE SoundChange(c, t)
    <3>1. CASE c.path \in Profiles
      BY <1>1, <1>7, <1>15, <3>1 DEF SoundChange
    <3>2. CASE c.path \notin Profiles
      <4>1. c.path \in Taken /\ c.before = disk[c.path] /\ c.after = t.after.owned[c.path]
        BY <1>1, <1>7, <3>2
      <4>2. c.after = op[p].target
        BY <1>1, <4>1 DEF Taken
      <4>3. c.before \in Versions \cup {"absent", "link"}
        BY <1>6, <4>1, ReceiptIs DEF Taken, Replaceable, Matches
      <4>4. c.path \in Files /\ c.before \in Versions => c.before = Owner(t.before, c.path)
        BY <1>1, <1>2, <4>1
      <4>5. QED BY <1>1, <3>2, <4>1, <4>2, <4>3, <4>4 DEF SoundChange
    <3>3. QED BY <3>1, <3>2
  <2>2. ASSUME NEW q \in Files \ Reaches(t.changes) PROVE t.after.owned[q] = Owner(t.before, q)
    BY <1>1
  <2>3. QED BY <1>1, <2>1, <2>2 DEF SoundTx
<1>9. TxWhole(t)
  <2>1. ASSUME NEW c \in Chg(t.changes), c.path \in Files
        PROVE  {c.before, c.after} \cap Versions \subseteq Whole
    <3>1. c.path \in Taken /\ c.before = disk[c.path] /\ c.after = t.after.owned[c.path]
      BY <1>1, <1>7, <2>1, Given
    <3>2. c.after = op[p].target
      BY <1>1, <3>1 DEF Taken
    <3>3. c.before \in Versions => c.before \in Whole
      BY <2>1, <3>1 DEF WorkInv, DiskInv, LaunchersResolve, Whole
    <3>4. QED BY <1>4, <3>2, <3>3
  <2>2. QED BY <2>1 DEF TxWhole
<1>10. Rest(t, FALSE)
  <2>1. ASSUME NEW q \in (Plain \ touched) \ Reaches(t.changes)
        PROVE  Fits(t.after, q, disk[q], FALSE)
    <3>1. Fits(receipt, q, disk[q], cut)
      BY <1>2
    <3>2. CASE q \in Profiles
      <4>1. disk[q] \in ProfileTexts
        BY <1>6, <3>2, Given, PlaceTypes DEF TypeInv
      <4>2. disk[q].block \in {"no", "yes", "changed"}
        BY <4>1 DEF ProfileTexts
      <4>3. CASE Registers(p)
        <5>1. disk[q].block = "yes"
          BY <1>1, <2>1, <3>2, <4>2, <4>3 DEF Unregistered, CanRegister
        <5>2. QED BY <1>1, <1>5, <3>2, <4>3, <5>1 DEF Fits
      <4>4. CASE ~Registers(p)
        <5>1. receipt = None \/ ~receipt.path
          BY <4>4 DEF Registers
        <5>2. disk[q].block = "no"
          BY <3>1, <3>2, <5>1 DEF Fits
        <5>3. QED BY <1>1, <1>5, <3>2, <4>4, <5>2 DEF Fits
      <4>5. QED BY <4>3, <4>4
    <3>3. CASE q \notin Profiles
      <4>1. q \in Files /\ q \notin Taken
        BY <1>1, <2>1, <3>3 DEF Plain
      <4>2. Owner(t.after, q) = Owner(receipt, q)
        BY <1>1, <1>5, <4>1 DEF Owner
      <4>3. disk[q] # "absent" /\ ~Matches(receipt, q)
        BY <4>1 DEF Taken, Replaceable
      <4>4. QED BY <3>1, <3>3, <4>2, <4>3 DEF Fits, Matches
    <3>4. QED BY <3>2, <3>3
  <2>2. QED BY <2>1 DEF Rest
<1>11. op'[p].kind # "register"
  BY <1>1 DEF Activating
<1>12. PlanPhase(p)'
  <2>1. SoundTx(op'[p].tx) /\ op'[p].tx.before = receipt
        /\ \A c \in Chg(op'[p].tx.changes) :
             /\ c.before = disk[c.path] /\ SameText(c)
             /\ c.path \in Profiles => c.after.text = disk[c.path].text
    BY <1>1, <1>8, <1>15 DEF t, SameText
  <2>2. TxWhole(op[p].tx)'
    BY <1>3, <1>9 DEF TxWhole, Whole, t
  <2>3. Rest(op[p].tx, op[p].kind = "register" /\ cut)'
    <3>1. (op'[p].kind = "register" /\ cut') = FALSE
      BY <1>11
    <3>2. QED BY <1>3, <1>10, <3>1 DEF Rest, t
  <2>4. QED BY <1>1, <1>3, <2>1, <2>2, <2>3 DEF PlanPhase
<1>13. RequestPhase(p)'
  <2>1. op[p].kind = "update" => receipt # None /\ receipt.active = op[p].base
    BY <1>1 DEF WorkInv, Phase, RequestPhase
  <2>2. QED BY <1>1, <1>11, <2>1 DEF RequestPhase, Displaced, Registers, t
<1>14. QED BY <1>1, <1>3, <1>12, <1>13, PlanIsMade

LEMMA PrepareRegisterKeeps ==
  ASSUME WorkInv, Apart, NEW p \in Procs, PrepareRegister(p) PROVE WorkInv'
<1> DEFINE t == op'[p].tx
<1>1. /\ TypeInv' /\ \A q \in Procs \ {p} : op'[q] = op[q]
      /\ op[p].pc = "ready" /\ op[p].kind = "register"
      /\ op'[p].kind = op[p].kind /\ op'[p].pc = "copy"
      /\ receipt # None
      /\ t \in Tx /\ t.before = receipt /\ t.after = [receipt EXCEPT !.path = TRUE]
      /\ t.after.path /\ t.after.owned = receipt.owned
      /\ Reaches(t.changes) = Unregistered /\ Distinct(t.changes)
      /\ \A c \in Chg(t.changes) : /\ c.before = disk[c.path] /\ c.path \in Profiles
                                   /\ c.after = [disk[c.path] EXCEPT !.block = "yes"]
      /\ CanRegister
      /\ UNCHANGED <<disk, aside, installation, locks, cut, touched, counts>>
  BY PrepareRegisterIs DEF WorkInv
<1>2. \A q \in Plain \ touched : Fits(receipt, q, disk[q], cut)
  BY <1>1, NothingUnderway DEF Between
<1>3. UNCHANGED <<disk, aside, receipt, journal, generations, cut, touched>>
  BY <1>1 DEF installation
<1>4. t.after # None
  BY <1>1, Given DEF Tx
<1> HIDE DEF t
<1>11. ASSUME NEW c \in Chg(t.changes)
       PROVE  c.before = disk[c.path] /\ c.after.block = "yes" /\ c.after.text = c.before.text
  <2>3. c.path \in Profiles
    BY <1>1
  <2>1. disk[c.path] \in ProfileTexts
    BY <2>3, Given, PlaceTypes DEF WorkInv, TypeInv
  <2>2. c.before = disk[c.path] /\ c.after = [disk[c.path] EXCEPT !.block = "yes"]
    BY <1>1
  <2>4. QED BY <2>1, <2>2 DEF ProfileTexts
<1>5. SoundTx(t)
  <2>1. ASSUME NEW c \in Chg(t.changes) PROVE SoundChange(c, t)
    <3>1. c.path \in Unregistered
      BY <1>1 DEF Reaches
    <3>2. QED BY <1>1, <1>11, <3>1 DEF SoundChange, Unregistered
  <2>2. \A q \in Files : t.after.owned[q] = Owner(t.before, q)
    BY <1>1 DEF Owner
  <2>3. QED BY <1>1, <2>1, <2>2 DEF SoundTx
<1>6. TxWhole(t)
  BY <1>1, Given DEF TxWhole
<1>7. Rest(t, cut)
  <2>1. ASSUME NEW q \in (Plain \ touched) \ Reaches(t.changes)
        PROVE  Fits(t.after, q, disk[q], cut)
    <3>1. Fits(receipt, q, disk[q], cut)
      BY <1>2
    <3>2. CASE q \in Profiles
      <4>1. disk[q] \in ProfileTexts
        BY <3>2, Given, PlaceTypes DEF TypeInv, WorkInv
      <4>2. disk[q].block = "yes"
        BY <1>1, <2>1, <3>2, <4>1 DEF ProfileTexts, Unregistered, CanRegister
      <4>3. QED BY <1>1, <1>4, <3>2, <4>2 DEF Fits
    <3>3. CASE q \notin Profiles
      <4>1. Owner(t.after, q) = Owner(receipt, q)
        BY <1>1, <1>4 DEF Owner
      <4>2. QED BY <3>1, <3>3, <4>1 DEF Fits
    <3>4. QED BY <3>2, <3>3
  <2>2. QED BY <2>1 DEF Rest
<1>8. PlanPhase(p)'
  <2>1. SoundTx(op'[p].tx) /\ op'[p].tx.before = receipt
        /\ \A c \in Chg(op'[p].tx.changes) :
             /\ c.before = disk[c.path] /\ c.path \in Profiles /\ SameText(c)
             /\ c.after.text = disk[c.path].text
    BY <1>1, <1>5, <1>11 DEF t, SameText
  <2>2. TxWhole(op[p].tx)'
    BY <1>3, <1>6 DEF TxWhole, Whole, t
  <2>3. Rest(op[p].tx, op[p].kind = "register" /\ cut)'
    <3>1. (op'[p].kind = "register" /\ cut') = cut
      BY <1>1, <1>3 DEF WorkInv, TypeInv
    <3>2. QED BY <1>3, <1>7, <3>1 DEF Rest, t
  <2>4. QED BY <1>1, <1>3, <2>1, <2>2, <2>3, Given DEF PlanPhase
<1>9. RequestPhase(p)'
  BY <1>1 DEF RequestPhase, t
<1>10. QED BY <1>1, <1>3, <1>8, <1>9, PlanIsMade

\* The copies are made of what is there by now.
LEMMA BackUpKeeps == ASSUME WorkInv, Apart, NEW p \in Procs, BackUp(p) PROVE WorkInv'
<1> DEFINE t == op[p].tx
           u == op'[p].tx
<1>1. /\ TypeInv' /\ Still /\ \A q \in Procs \ {p} : op'[q] = op[q]
      /\ op[p].pc = "copy" /\ t \in Tx
      /\ op'[p].kind = op[p].kind /\ op'[p].pc = "journal" /\ op'[p].target = op[p].target
      /\ op'[p].base = op[p].base /\ op'[p].modify = op[p].modify /\ u \in Tx
      /\ u.before = t.before /\ u.after = t.after
      /\ Reaches(u.changes) = Reaches(t.changes)
      /\ Distinct(t.changes) => Distinct(u.changes)
      /\ \A d \in Chg(u.changes) : \E c \in Chg(t.changes) :
           /\ c.path = d.path /\ c.after = d.after
           /\ d.before = IF c.path \in Bundles THEN c.before ELSE disk[c.path]
  BY BackUpIs DEF WorkInv
<1>2. /\ journal = None /\ Base = receipt /\ Working(p)
      /\ \A q \in Files : disk[q] \in Versions => disk[q] = Owner(receipt, q)
  BY <1>1, NothingUnderway DEF Between
<1>3. UNCHANGED <<disk, aside, receipt, journal, generations, cut, touched>>
  BY <1>1 DEF Still, installation
<1>4. /\ t.before = receipt /\ SoundTx(t) /\ TxWhole(t)
      /\ \A c \in Chg(t.changes) :
           /\ c.path \notin touched => disk[c.path] = c.before /\ SameText(c)
           /\ c.path \in Bundles => aside = "absent"
           /\ c.path \in Profiles =>
                (c.after.text = "edited" => disk[c.path].text = "edited")
      /\ Rest(t, op[p].kind = "register" /\ cut)
  BY <1>1 DEF WorkInv, Phase, PlanPhase
<1>5. \A q \in Files : disk[q] \in Versions => disk[q] \in Whole
  BY DEF WorkInv, DiskInv, LaunchersResolve, Whole
<1>6. RequestPhase(p)
  BY DEF WorkInv, Phase
<1> HIDE DEF t, u
<1>7. ASSUME NEW d \in Chg(u.changes)
      PROVE  /\ SoundChange(d, u)
             /\ d.path \in Files => {d.before, d.after} \cap Versions \subseteq Whole
             /\ d.path \notin touched => disk[d.path] = d.before /\ SameText(d)
             /\ d.path \in Bundles => aside = "absent"
  <2>1. PICK c \in Chg(t.changes) :
          /\ c.path = d.path /\ c.after = d.after
          /\ d.before = IF c.path \in Bundles THEN c.before ELSE disk[c.path]
    BY <1>1
  <2>2. SoundChange(c, t)
    BY <1>4 DEF SoundTx
  <2>3. SoundChange(d, u)
    <3>1. CASE d.path \in Profiles
      <4>1. d.before = disk[d.path]
        BY <2>1, <3>1, Given
      <4>2. c.after.text = "edited" => disk[c.path].text = "edited"
        BY <1>4, <2>1, <3>1
      <4>3. QED BY <1>1, <2>1, <2>2, <3>1, <4>1, <4>2 DEF SoundChange
    <3>2. CASE d.path \in Files
      <4>1. d.before = disk[d.path] /\ d.path \notin Profiles /\ d.path \notin Bundles
        BY <2>1, <3>2, Given
      <4>2. d.before \in Versions => d.before = Owner(t.before, d.path)
        BY <1>2, <1>4, <3>2, <4>1
      <4>3. QED BY <1>1, <2>1, <2>2, <4>1, <4>2 DEF SoundChange
    <3>3. CASE d.path \notin Profiles /\ d.path \notin Files
      <4>1. CASE d.path \in Bundles
        BY <1>1, <2>1, <2>2, <3>3, <4>1 DEF SoundChange
      <4>2. CASE d.path \notin Bundles
        BY <1>1, <2>1, <2>2, <3>3, <4>2 DEF SoundChange
      <4>3. QED BY <4>1, <4>2
    <3>4. QED BY <3>1, <3>2, <3>3
  <2>4. ASSUME d.path \in Files PROVE {d.before, d.after} \cap Versions \subseteq Whole
    <3>1. d.before = disk[d.path]
      BY <2>1, <2>4, Given
    <3>2. {c.before, c.after} \cap Versions \subseteq Whole
      BY <1>4, <2>1, <2>4 DEF TxWhole
    <3>3. QED BY <1>5, <2>1, <2>4, <3>1, <3>2
  <2>5. ASSUME d.path \notin touched PROVE disk[d.path] = d.before /\ SameText(d)
    <3>1. disk[c.path] = c.before /\ SameText(c)
      BY <1>4, <2>1, <2>5
    <3>2. QED BY <2>1, <3>1 DEF SameText
  <2>6. QED BY <1>4, <2>1, <2>3, <2>4, <2>5
<1>8. SoundTx(u) /\ TxWhole(u) /\ Rest(u, op[p].kind = "register" /\ cut)
  BY <1>1, <1>4, <1>7 DEF SoundTx, TxWhole, Rest
<1>9. PlanPhase(p)'
  <2>1. TxWhole(op[p].tx)' /\ Rest(op[p].tx, op[p].kind = "register" /\ cut)'
    BY <1>1, <1>3, <1>8 DEF TxWhole, Whole, Rest, u
  <2>2. QED BY <1>1, <1>3, <1>4, <1>7, <1>8, <2>1 DEF PlanPhase, u
<1>10. RequestPhase(p)'
  BY <1>1, <1>6 DEF RequestPhase, t, u
<1>11. JournalPhase(p)' /\ ApplyPhase(p)' /\ UndoPhase(p)' /\ RemovePhase(p)'
  BY <1>1, <1>2, <1>3 DEF JournalPhase, ApplyPhase, UndoPhase, RemovePhase, Removing, Forward,
                          Backward, Listed
<1>12. DiskInv'
  BY <1>1, DiskStays DEF WorkInv
<1>13. QED BY <1>1, <1>2, <1>9, <1>10, <1>11, <1>12, WorkingStep DEF Phase

\* The journal is written: what it says is what is there.
LEMMA JournalWritten ==
  ASSUME WorkInv, NEW p \in Procs, op[p].pc = "journal", op[p].tx \in Tx, journal' = op[p].tx,
         UNCHANGED <<disk, aside, receipt, generations, cut, touched>>
  PROVE  DiskInv' /\ journal' # None /\ Working(p)
<1> DEFINE t == op[p].tx
<1>1. /\ journal = None /\ Base = receipt /\ Working(p)
      /\ \A q \in Plain \ touched : Fits(receipt, q, disk[q], cut)
      /\ \A q \in Files : disk[q] \in Versions => disk[q] = Owner(receipt, q)
  BY NothingUnderway DEF Between
<1>2. /\ t.before = receipt /\ SoundTx(t) /\ TxWhole(t)
      /\ \A c \in Chg(t.changes) :
           /\ c.path \notin touched => disk[c.path] = c.before /\ SameText(c)
           /\ c.path \in Bundles => aside = "absent"
  BY DEF WorkInv, Phase, PlanPhase
<1>3. t # None
  BY TxIsTransaction
<1> HIDE DEF t
<1>4. journal' = t
  BY DEF t
<1>5. Base' = receipt /\ Underway' = t.changes
  BY <1>2, <1>3, <1>4 DEF Base, Underway
<1>6. JournalInv'
  BY <1>2, <1>4 DEF JournalInv, TxWhole, Whole
<1>7. Unreached'
  BY <1>1, <1>5 DEF Unreached
<1>8. BackedUp'
  BY <1>1, <1>2, <1>5 DEF BackedUp
<1>9. Traced' /\ BundleInv'
  BY <1>1, <1>2, <1>5 DEF Traced, BundleInv
<1>10. LaunchersResolve'
  BY DEF WorkInv, DiskInv, LaunchersResolve
<1>11. QED BY <1>1, <1>3, <1>4, <1>6, <1>7, <1>8, <1>9, <1>10 DEF DiskInv

LEMMA WriteJournalKeeps ==
  ASSUME WorkInv, Apart, NEW p \in Procs, WriteJournal(p) PROVE WorkInv'
<1>1. /\ TypeInv' /\ \A q \in Procs \ {p} : op'[q] = op[q]
      /\ op[p].pc = "journal" /\ op[p].tx \in Tx /\ journal' = op[p].tx
      /\ op'[p] = Moved(op[p], "apply", op[p].tx.changes)
      /\ UNCHANGED <<disk, aside, receipt, generations, locks, cut, touched, counts>>
  BY WriteJournalIs DEF WorkInv
<1>2. DiskInv' /\ journal' # None /\ Working(p)
  BY <1>1, JournalWritten
<1>3. /\ op'[p].kind = op[p].kind /\ op'[p].pc = "apply" /\ op'[p].target = op[p].target
      /\ op'[p].base = op[p].base /\ op'[p].modify = op[p].modify /\ op'[p].tx = op[p].tx
      /\ op'[p].todo = op[p].tx.changes
  BY <1>1, MovedFields
<1>4. /\ SoundTx(op[p].tx)
      /\ \A c \in Chg(op[p].tx.changes) : c.path \notin touched => disk[c.path] = c.before
      /\ Rest(op[p].tx, op[p].kind = "register" /\ cut)
  BY <1>1 DEF WorkInv, Phase, PlanPhase
<1>5. ApplyPhase(p)'
  BY <1>1, <1>3, <1>4 DEF ApplyPhase, Rest, SoundTx
<1>6. RequestPhase(p)'
  <2>1. RequestPhase(p)
    BY DEF WorkInv, Phase
  <2>2. QED BY <1>1, <1>3, <2>1 DEF RequestPhase, Forward
<1>7. JournalPhase(p)' /\ PlanPhase(p)' /\ UndoPhase(p)' /\ RemovePhase(p)'
  BY <1>1, <1>2, <1>3 DEF JournalPhase, PlanPhase, UndoPhase, RemovePhase, Between, Removing,
                          Backward
<1>8. QED BY <1>1, <1>2, <1>5, <1>6, <1>7, WorkingStep DEF Phase

\* A step of a process that applies its transaction and goes on.
LEMMA ForwardGoesOn ==
  ASSUME WorkInv, NEW p \in Procs, op[p].pc \in Forward, op'[p].pc \in Forward,
         op'[p].tx = op[p].tx, op'[p].kind = op[p].kind, op'[p].target = op[p].target,
         op'[p].base = op[p].base, op'[p].modify = op[p].modify, journal' = journal,
         ApplyPhase(p)'
  PROVE  Phase(p)'
<1>1. JournalPhase(p)' /\ PlanPhase(p)' /\ UndoPhase(p)' /\ RemovePhase(p)'
  BY DEF WorkInv, Phase, JournalPhase, PlanPhase, UndoPhase, RemovePhase, Between, Removing,
         Forward, Backward
<1>2. RequestPhase(p)'
  <2>1. RequestPhase(p)
    BY DEF WorkInv, Phase
  <2>2. QED BY <2>1 DEF RequestPhase, Forward
<1>3. QED BY <1>1, <1>2 DEF Phase

LEMMA ApplyFileKeeps == ASSUME WorkInv, Apart, NEW p \in Procs, ApplyFile(p) PROVE WorkInv'
<1> DEFINE c == Change(p)
           t == journal
<1>1. /\ TypeInv' /\ \A q \in Procs \ {p} : op'[q] = op[q]
      /\ op'[p] = Moved(op[p], "apply", Tail(op[p].todo))
      /\ op[p].pc = "apply" /\ op[p].todo # <<>> /\ c.path \in Plain
      /\ \A q \in Paths \ {c.path} : disk'[q] = disk[q]
      /\ disk'[c.path] = c.after
      /\ UNCHANGED <<aside, installation, locks, cut, touched, counts>>
  BY ApplyFileIs DEF WorkInv
<1>2. /\ t = op[p].tx /\ t # None /\ SoundTx(t) /\ TxWhole(t)
      /\ Base = t.before /\ Underway = t.changes /\ Working(p)
      /\ \A b, d \in Chg(t.changes) : b.path = d.path => b = d
  BY <1>1, UnderwayIs DEF Forward
<1>3. /\ c \in TxChange /\ c \in Chg(t.changes)
      /\ Chg(op[p].todo) = {c} \cup Chg(Tail(op[p].todo))
      /\ op[p].todo \in Seq(TxChange)
  BY <1>1, <1>2, TodoIs DEF WorkInv
<1>4. UNCHANGED <<aside, receipt, journal, generations, cut, touched>>
  BY <1>1 DEF installation
<1>5. Base' = Base /\ Underway' = Underway /\ Whole' = Whole
  BY <1>4 DEF Base, Underway, Whole
<1>6. Unreached /\ BackedUp /\ Traced /\ BundleInv /\ JournalInv /\ LaunchersResolve
  BY DEF WorkInv, DiskInv
<1>7. c.path \in Files => {c.before, c.after} \cap Versions \subseteq Whole
  BY <1>2, <1>3 DEF TxWhole
<1>8. /\ ApplyPhase(p) /\ Distinct(op[p].todo)
      /\ Rest(t, op[p].kind = "register" /\ cut)
      /\ \A b \in Chg(t.changes) \ Chg(op[p].todo) : Applied(b)
      /\ \A b \in Chg(op[p].todo) : b.path \in Bundles \ touched => disk[b.path] = b.before
  BY <1>1, <1>2 DEF WorkInv, Phase, ApplyPhase, Forward
<1>9. Distinct(Tail(op[p].todo))
  BY <1>1, <1>3, <1>8, DistinctTail
<1> HIDE DEF c, t
<1>10. Plain \subseteq Paths /\ Files \subseteq Paths /\ Bundles \subseteq Paths
       /\ c.path \notin Bundles
  BY <1>1, Given DEF Plain
<1>11. c.path \in Reaches(Underway)
  BY <1>2, <1>3 DEF Reaches
<1>12. JournalInv' /\ Unreached'
  <2>1. JournalInv'
    BY <1>4, <1>5, <1>6 DEF JournalInv, TxWhole
  <2>2. Unreached'
    BY <1>1, <1>4, <1>5, <1>6, <1>10, <1>11 DEF Unreached
  <2>3. QED BY <2>1, <2>2
<1>13. BackedUp'
  <2>1. ASSUME NEW b \in Chg(Underway), b.path \in Plain \ touched
        PROVE  /\ Fits(Base, b.path, b.before, cut) /\ disk'[b.path] \in {b.before, b.after}
               /\ SameText(b)
    <3>1. /\ Fits(Base, b.path, b.before, cut) /\ disk[b.path] \in {b.before, b.after}
          /\ SameText(b)
      BY <1>6, <2>1 DEF BackedUp
    <3>2. CASE b.path # c.path
      BY <1>1, <1>10, <2>1, <3>1, <3>2
    <3>3. CASE b.path = c.path
      <4>1. b = c
        BY <1>2, <1>3, <3>3
      <4>2. QED BY <1>1, <3>1, <4>1
    <3>4. QED BY <3>2, <3>3
  <2>2. QED BY <1>4, <1>5, <2>1 DEF BackedUp
<1>14. Traced'
  <2>1. ASSUME NEW q \in Files, disk'[q] \in Versions
        PROVE  disk'[q] = Owner(Base, q) \/ \E b \in Chg(Underway) : b.path = q /\ disk'[q] = b.after
    <3>1. CASE q = c.path
      BY <1>1, <1>2, <1>3, <3>1
    <3>2. CASE q # c.path
      BY <1>1, <1>6, <1>10, <2>1, <3>2 DEF Traced
    <3>3. QED BY <3>1, <3>2
  <2>2. QED BY <1>5, <2>1 DEF Traced
<1>15. BundleInv'
  <2>1. \A q \in Bundles : disk'[q] = disk[q]
    BY <1>1, <1>10
  <2>2. QED BY <1>4, <1>5, <1>6, <2>1 DEF BundleInv
<1>16. LaunchersResolve'
  <2>1. ASSUME NEW q \in Files, disk'[q] \in Versions PROVE generations[disk'[q]] = "whole"
    <3>1. CASE q = c.path
      BY <1>1, <1>7, <2>1, <3>1 DEF Whole
    <3>2. CASE q # c.path
      BY <1>1, <1>6, <1>10, <2>1, <3>2 DEF LaunchersResolve
    <3>3. QED BY <3>1, <3>2
  <2>2. QED BY <1>4, <2>1 DEF LaunchersResolve
<1>17. /\ op'[p].pc = "apply" /\ op'[p].tx = op[p].tx /\ op'[p].todo = Tail(op[p].todo)
       /\ op'[p].kind = op[p].kind /\ op'[p].target = op[p].target
       /\ op'[p].base = op[p].base /\ op'[p].modify = op[p].modify
  BY <1>1, MovedFields
<1>18. ASSUME NEW b \in Chg(t.changes) \ Chg(op'[p].todo) PROVE Applied(b)'
  <2>1. CASE b.path # c.path
    <3>1. b \notin Chg(op[p].todo)
      BY <1>3, <1>17, <2>1
    <3>2. Applied(b)
      BY <1>8, <3>1
    <3>3. b.path \in Plain => disk'[b.path] = disk[b.path]
      BY <1>1, <1>10, <2>1
    <3>4. QED BY <1>4, <3>2, <3>3 DEF Applied
  <2>2. CASE b.path = c.path
    <3>1. b = c
      BY <1>2, <1>3, <2>2
    <3>2. QED BY <1>1, <3>1 DEF Applied
  <2>3. QED BY <2>1, <2>2
<1>19. Rest(t, op[p].kind = "register" /\ cut)'
  <2>1. \A q \in Plain \ Reaches(t.changes) : disk'[q] = disk[q]
    BY <1>1, <1>2, <1>10, <1>11
  <2>2. QED BY <1>2, <1>4, <1>8, <1>17, <2>1 DEF Rest, t
<1>20. \A b \in Chg(op'[p].todo) : b.path \in Bundles \ touched => disk'[b.path] = b.before
  BY <1>1, <1>3, <1>8, <1>10, <1>17
<1>21. ApplyPhase(p)'
  <2>1. \A b \in Chg(op'[p].tx.changes) \ Chg(op'[p].todo) : Applied(b)'
    BY <1>2, <1>17, <1>18
  <2>2. Distinct(op'[p].todo)
    BY <1>9, <1>17
  <2>3. Rest(op[p].tx, op[p].kind = "register" /\ cut)'
    BY <1>2, <1>4, <1>17, <1>19 DEF Rest, t
  <2>4. QED BY <1>4, <1>17, <1>20, <2>1, <2>2, <2>3 DEF ApplyPhase
<1>22. Phase(p)'
  BY <1>1, <1>4, <1>17, <1>21, ForwardGoesOn DEF Forward
<1>23. QED BY <1>1, <1>2, <1>12, <1>13, <1>14, <1>15, <1>16, <1>22, WorkingStep DEF DiskInv

\* A step that only moves, or puts, the bundle of a transaction that is applied.
LEMMA BundleApplied ==
  ASSUME WorkInv, Apart, NEW p \in Procs, TypeInv', \A q \in Procs \ {p} : op'[q] = op[q],
         op[p].pc \in {"apply", "swap"}, op'[p].pc \in {"apply", "swap"},
         op'[p].tx = op[p].tx, op'[p].kind = op[p].kind, op'[p].target = op[p].target,
         op'[p].base = op[p].base, op'[p].modify = op[p].modify, NEW b \in Bundles,
         \A q \in Paths \ {b} : disk'[q] = disk[q],
         UNCHANGED <<receipt, journal, generations, cut, touched>>,
         \A c \in Chg(journal.changes) : c.path \notin Bundles /\ c \in Chg(op[p].todo) =>
           c \in Chg(op'[p].todo),
         Distinct(op'[p].todo),
         op'[p].pc = "apply" => \A c \in Chg(op'[p].todo) : c.path \notin Bundles,
         BundleInv'
  PROVE  WorkInv'
<1>1. \A q \in Plain : disk'[q] = disk[q]
  BY Given DEF Plain
<1>2. DiskInv
  BY DEF WorkInv
<1>3. /\ JournalInv' /\ Unreached' /\ BackedUp' /\ Traced' /\ LaunchersResolve'
      /\ \A c : Applied(c) => Applied(c)'
      /\ \A t, gone : Rest(t, gone) => Rest(t, gone)'
  BY <1>1, <1>2, PlainStays
<1>4. DiskInv'
  BY <1>3 DEF DiskInv
<1>5. journal = op[p].tx /\ Working(p)
  BY UnderwayIs DEF Forward
<1>6. ASSUME NEW c \in Chg(journal.changes) \ Chg(op'[p].todo) PROVE Applied(c)'
  <2>1. CASE c.path \in Bundles
    BY <2>1, Given DEF Applied, Plain
  <2>2. CASE c.path \notin Bundles
    <3>1. c \notin Chg(op[p].todo)
      BY <2>2
    <3>2. Applied(c)
      BY <1>5, <3>1 DEF WorkInv, Phase, ApplyPhase
    <3>3. QED BY <1>3, <3>2 DEF Applied
  <2>3. QED BY <2>1, <2>2
<1>7. Rest(op[p].tx, op[p].kind = "register" /\ cut)'
  <2>1. Rest(op[p].tx, op[p].kind = "register" /\ cut)
    BY DEF WorkInv, Phase, ApplyPhase, Forward
  <2>2. QED BY <1>1, <2>1 DEF Rest
<1>8. ApplyPhase(p)'
  <2>1. \A c \in Chg(op'[p].tx.changes) \ Chg(op'[p].todo) : Applied(c)'
    BY <1>5, <1>6
  <2>2. QED BY <1>7, <2>1 DEF ApplyPhase
<1>9. Phase(p)'
  BY <1>8, ForwardGoesOn DEF Forward
<1>10. QED BY <1>4, <1>5, <1>9, WorkingStep

LEMMA MoveAsideKeeps == ASSUME WorkInv, Apart, NEW p \in Procs, MoveAside(p) PROVE WorkInv'
<1> DEFINE b == Change(p).path
<1>1. /\ TypeInv' /\ \A q \in Procs \ {p} : op'[q] = op[q]
      /\ op'[p] = Moved(op[p], "swap", op[p].todo)
      /\ op[p].pc = "apply" /\ op[p].todo # <<>> /\ b \in Bundles
      /\ aside' = disk[b]
      /\ \A q \in Paths \ {b} : disk'[q] = disk[q]
      /\ disk'[b] = "absent"
      /\ UNCHANGED <<installation, locks, cut, touched, counts>>
  BY MoveAsideIs DEF WorkInv
<1>2. UNCHANGED <<receipt, journal, generations, cut, touched>>
  BY <1>1 DEF installation
<1>3. /\ op'[p].pc = "swap" /\ op'[p].tx = op[p].tx /\ op'[p].todo = op[p].todo
      /\ op'[p].kind = op[p].kind /\ op'[p].target = op[p].target
      /\ op'[p].base = op[p].base /\ op'[p].modify = op[p].modify
  BY <1>1, MovedFields
<1>4. /\ Change(p) \in Chg(journal.changes) /\ Change(p) \in Chg(op[p].todo)
      /\ Underway = journal.changes
      /\ \A c, d \in Chg(journal.changes) : c.path = d.path => c = d
  BY <1>1, UnderwayIs, TodoIs DEF Forward, WorkInv
<1>5. /\ b \notin touched => disk[b] = Change(p).before
      /\ Distinct(op[p].todo)
  BY <1>1, <1>4 DEF WorkInv, Phase, ApplyPhase
<1>6. BundleInv'
  <2>1. ASSUME NEW c \in Chg(Underway), c.path \in Bundles \ touched, c.before # "absent"
        PROVE  aside' = c.before
    <3>1. c.path = b
      BY <1>1, <2>1, Given
    <3>2. c = Change(p)
      BY <1>4, <3>1
    <3>3. QED BY <1>1, <1>5, <2>1, <3>1, <3>2
  <2>2. Underway' = Underway
    BY <1>2 DEF Underway
  <2>3. QED BY <1>2, <2>1, <2>2 DEF BundleInv
<1>7. QED BY <1>1, <1>2, <1>3, <1>5, <1>6, BundleApplied

LEMMA ActivateBundleKeeps ==
  ASSUME WorkInv, Apart, NEW p \in Procs, ActivateBundle(p) PROVE WorkInv'
<1> DEFINE b == Change(p).path
<1>1. /\ TypeInv' /\ \A q \in Procs \ {p} : op'[q] = op[q]
      /\ op'[p] = Moved(op[p], "apply", Tail(op[p].todo))
      /\ op[p].pc \in {"swap", "apply"} /\ op[p].todo # <<>> /\ b \in Bundles
      /\ disk[b] = "absent"
      /\ \A q \in Paths \ {b} : disk'[q] = disk[q]
      /\ UNCHANGED <<aside, installation, locks, cut, touched, counts>>
  BY ActivateBundleIs DEF WorkInv
<1>2. UNCHANGED <<aside, receipt, journal, generations, cut, touched>>
  BY <1>1 DEF installation
<1>3. /\ op'[p].pc = "apply" /\ op'[p].tx = op[p].tx /\ op'[p].todo = Tail(op[p].todo)
      /\ op'[p].kind = op[p].kind /\ op'[p].target = op[p].target
      /\ op'[p].base = op[p].base /\ op'[p].modify = op[p].modify
  BY <1>1, MovedFields
<1>4. /\ Chg(op[p].todo) = {Change(p)} \cup Chg(Tail(op[p].todo))
      /\ op[p].todo \in Seq(TxChange)
  BY <1>1, TodoIs DEF WorkInv
<1>5. Distinct(op[p].todo)
  BY <1>1 DEF WorkInv, Phase, ApplyPhase
<1>6. Distinct(op'[p].todo) /\ \A c \in Chg(op'[p].todo) : c.path # b
  BY <1>1, <1>3, <1>4, <1>5, DistinctTail DEF Change
<1>7. BundleInv'
  <2>1. ASSUME NEW c \in Chg(Underway), c.path \in Bundles \ touched, c.before # "absent"
        PROVE  aside = c.before
    <3>1. c.path = b
      BY <1>1, <2>1, Given
    <3>2. c.before \in {disk[c.path], aside}
      BY <2>1, BundleIs
    <3>3. QED BY <1>1, <2>1, <3>1, <3>2
  <2>2. Underway' = Underway
    BY <1>2 DEF Underway
  <2>3. QED BY <1>2, <2>1, <2>2 DEF BundleInv
<1>8. \A c \in Chg(op'[p].todo) : c.path \notin Bundles
  BY <1>1, <1>6, Given
<1>9. \A c \in Chg(journal.changes) : c.path \notin Bundles /\ c \in Chg(op[p].todo) =>
        c \in Chg(op'[p].todo)
  BY <1>1, <1>3, <1>4
<1>10. QED BY <1>1, <1>2, <1>3, <1>6, <1>7, <1>8, <1>9, BundleApplied

LEMMA WriteReceiptKeeps ==
  ASSUME WorkInv, Apart, NEW p \in Procs, WriteReceipt(p) PROVE WorkInv'
<1> DEFINE x == IF op[p].kind = "register" THEN "commit" ELSE "verify"
<1>1. /\ TypeInv' /\ \A q \in Procs \ {p} : op'[q] = op[q]
      /\ op'[p] = Moved(op[p], x, op[p].todo)
      /\ op[p].pc = "apply" /\ op[p].todo = <<>> /\ receipt' = op[p].tx.after
      /\ UNCHANGED <<disk, aside, journal, generations, locks, cut, touched, counts>>
  BY WriteReceiptIs DEF WorkInv
<1>2. journal = op[p].tx /\ journal # None /\ Working(p)
  BY <1>1, UnderwayIs DEF Forward
<1>3. /\ op'[p].pc = x /\ op'[p].tx = op[p].tx /\ op'[p].kind = op[p].kind
      /\ op'[p].target = op[p].target /\ op'[p].base = op[p].base
      /\ op'[p].modify = op[p].modify
  BY <1>1, MovedFields
<1>4. DiskInv'
  <2>1. Base' = Base /\ Underway' = Underway /\ Whole' = Whole
    BY <1>1, <1>2 DEF Base, Underway, Whole
  <2>2. JournalInv'
    BY <1>1, <2>1 DEF WorkInv, DiskInv, JournalInv, TxWhole
  <2>3. Unreached' /\ BackedUp' /\ Traced' /\ BundleInv'
    BY <1>1, <2>1 DEF WorkInv, DiskInv, Unreached, BackedUp, Traced, BundleInv
  <2>4. LaunchersResolve'
    BY <1>1 DEF WorkInv, DiskInv, LaunchersResolve
  <2>5. QED BY <2>2, <2>3, <2>4 DEF DiskInv
<1>5. /\ \A c \in Chg(op[p].tx.changes) : Applied(c)
      /\ Rest(op[p].tx, op[p].kind = "register" /\ cut)
  <2>1. Chg(<<>>) = {}
    BY EmptySeq, ChgOf
  <2>2. QED BY <1>1, <2>1 DEF WorkInv, Phase, ApplyPhase, Forward
<1>6. ApplyPhase(p)'
  BY <1>1, <1>3, <1>5 DEF ApplyPhase, Applied, Rest
<1>7. Phase(p)'
  BY <1>1, <1>3, <1>6, ForwardGoesOn DEF Forward
<1>8. QED BY <1>1, <1>2, <1>4, <1>7, WorkingStep

LEMMA VerifyKeeps == ASSUME WorkInv, Apart, NEW p \in Procs, Verify(p) PROVE WorkInv'
<1>1. /\ TypeInv' /\ \A q \in Procs \ {p} : op'[q] = op[q]
      /\ op'[p] = Moved(op[p], "commit", op[p].todo) /\ op[p].pc = "verify"
      /\ UNCHANGED <<disk, aside, installation, locks, cut, touched, counts>>
  BY VerifyIs DEF WorkInv
<1>2. Still /\ UNCHANGED <<disk, aside, receipt, journal, generations, cut, touched>>
  BY <1>1 DEF Still, installation
<1>3. DiskInv' /\ Working(p)
  BY <1>1, <1>2, DiskStays DEF WorkInv, Working, Outside
<1>4. /\ op'[p].pc = "commit" /\ op'[p].tx = op[p].tx /\ op'[p].kind = op[p].kind
      /\ op'[p].target = op[p].target /\ op'[p].base = op[p].base
      /\ op'[p].modify = op[p].modify
  BY <1>1, MovedFields
<1>5. /\ receipt = op[p].tx.after /\ \A c \in Chg(op[p].tx.changes) : Applied(c)
      /\ Rest(op[p].tx, op[p].kind = "register" /\ cut)
  BY <1>1 DEF WorkInv, Phase, ApplyPhase, Forward
<1>6. ApplyPhase(p)'
  BY <1>2, <1>4, <1>5 DEF ApplyPhase, Applied, Rest
<1>7. Phase(p)'
  BY <1>1, <1>2, <1>4, <1>6, ForwardGoesOn DEF Forward
<1>8. QED BY <1>1, <1>3, <1>7, WorkingStep

LEMMA ClearJournalKeeps ==
  ASSUME WorkInv, Apart, NEW p \in Procs, ClearJournal(p) PROVE WorkInv'
<1> DEFINE t == journal
<1>1. /\ TypeInv' /\ \A q \in Procs \ {p} : op'[q] = op[q]
      /\ op[p].pc = "commit" /\ journal' = None
      /\ op'[p] = Idle \/ op'[p] = Moved(op[p], "finish", op[p].todo)
      /\ cut' = (cut /\ op[p].kind = "register")
      /\ UNCHANGED <<disk, aside, receipt, generations, touched, counts>>
  BY ClearJournalIs DEF WorkInv
<1>2. /\ t = op[p].tx /\ Working(p) /\ Base = t.before /\ Underway = t.changes /\ SoundTx(t)
      /\ t \in Tx
  BY <1>1, UnderwayIs DEF Forward
<1>3. /\ receipt = t.after /\ \A c \in Chg(t.changes) : Applied(c)
      /\ Rest(t, op[p].kind = "register" /\ cut)
  BY <1>1, <1>2 DEF WorkInv, Phase, ApplyPhase, Forward
<1>4. Chg(<<>>) = {}
  BY EmptySeq, ChgOf
<1>5. Base' = t.after /\ Chg(Underway)' = {} /\ Reaches(Underway)' = {}
  BY <1>1, <1>3, <1>4 DEF Base, Underway, Reaches
<1>6. Traced /\ LaunchersResolve
  BY DEF WorkInv, DiskInv
<1>7. t.after # None
  BY <1>2, Given DEF Tx
<1> HIDE DEF t
<1>8. \A c \in Chg(t.changes) : SoundChange(c, t)
  BY <1>2 DEF SoundTx
<1>9. \A c \in Chg(t.changes) : c.path \in Paths /\ (c.path \in Profiles => c.before \in ProfileTexts)
  <2>1. t.changes \in Seq(TxChange)
    BY <1>2 DEF Tx
  <2>2. Chg(t.changes) \subseteq TxChange
    BY <2>1, ChgOf
  <2>3. QED BY <2>2 DEF TxChange
<1>10. Unreached'
  <2>1. ASSUME NEW q \in Plain \ touched PROVE Fits(t.after, q, disk[q], cut')
    <3>1. CASE q \notin Reaches(t.changes)
      <4>1. Fits(t.after, q, disk[q], op[p].kind = "register" /\ cut)
        BY <1>3, <3>1 DEF Rest
      <4>2. cut' = (op[p].kind = "register" /\ cut)
        BY <1>1
      <4>3. QED BY <4>1, <4>2 DEF Fits
    <3>2. CASE q \in Reaches(t.changes)
      <4>1. PICK c \in Chg(t.changes) : c.path = q
        BY <3>2 DEF Reaches
      <4>2. disk[q] = c.after /\ SoundChange(c, t)
        BY <1>3, <1>8, <4>1 DEF Applied
      <4>3. CASE q \in Profiles
        <5>1. c.after.block = "yes" /\ t.after.path
          BY <4>1, <4>2, <4>3 DEF SoundChange
        <5>2. QED BY <1>7, <4>2, <4>3, <5>1 DEF Fits
      <4>4. CASE q \notin Profiles
        <5>1. c.after = t.after.owned[q] /\ c.after \in Versions
          BY <4>1, <4>2, <4>4 DEF SoundChange
        <5>2. QED BY <1>7, <4>2, <4>4, <5>1, Given DEF Fits, Owner
      <4>5. QED BY <4>3, <4>4
    <3>3. QED BY <3>1, <3>2
  <2>2. QED BY <1>1, <1>5, <2>1 DEF Unreached
<1>11. Traced'
  <2>1. ASSUME NEW q \in Files, disk[q] \in Versions PROVE disk[q] = Owner(t.after, q)
    <3>1. CASE q \notin Reaches(t.changes)
      <4>1. disk[q] = Owner(t.before, q)
        BY <1>2, <1>6, <2>1, <3>1 DEF Traced, Reaches
      <4>2. QED BY <1>2, <1>7, <3>1, <4>1 DEF SoundTx, Owner
    <3>2. CASE q \in Reaches(t.changes)
      <4>1. PICK c \in Chg(t.changes) : c.path = q
        BY <3>2 DEF Reaches
      <4>2. disk[q] = c.after /\ SoundChange(c, t)
        BY <1>3, <1>8, <2>1, <4>1 DEF Applied, Plain
      <4>3. QED BY <1>7, <4>1, <4>2, Given DEF SoundChange, Owner
    <3>3. QED BY <3>1, <3>2
  <2>2. QED BY <1>1, <1>5, <2>1 DEF Traced
<1>12. JournalInv' /\ BackedUp' /\ BundleInv' /\ LaunchersResolve'
  BY <1>1, <1>5, <1>6 DEF JournalInv, BackedUp, BundleInv, LaunchersResolve
<1>13. Phase(p)'
  <2>1. CASE op'[p] = Idle
    BY <2>1, OutsidePhase DEF Idle, Outside
  <2>2. CASE op'[p] = Moved(op[p], "finish", op[p].todo)
    <3>1. op'[p].pc = "finish"
      BY <2>2, MovedFields
    <3>2. QED BY <1>1, <3>1 DEF Phase, JournalPhase, PlanPhase, ApplyPhase, UndoPhase, RemovePhase,
                                RequestPhase, Removing, Forward, Backward, Listed
  <2>3. QED BY <1>1, <2>1, <2>2
<1>14. QED BY <1>1, <1>2, <1>10, <1>11, <1>12, <1>13, WorkingStep DEF DiskInv

LEMMA FinishKeeps == ASSUME WorkInv, Apart, NEW p \in Procs, Finish(p) PROVE WorkInv'
<1>1. /\ TypeInv' /\ \A q \in Procs \ {p} : op'[q] = op[q]
      /\ op'[p].pc = "idle" /\ op[p].pc = "finish"
      /\ UNCHANGED <<disk, receipt, journal, generations, cut, touched, counts>>
  BY FinishIs DEF WorkInv, installation, Idle
<1>2. Chg(Underway) = {} /\ Working(p)
  BY <1>1, NothingUnderway DEF Between
<1>3. DiskInv
  BY DEF WorkInv
<1>4. JournalInv' /\ Unreached' /\ BackedUp' /\ Traced' /\ LaunchersResolve'
  BY <1>1, <1>3, PlainStays
<1>5. BundleInv'
  <2>1. Underway' = Underway
    BY <1>1 DEF Underway
  <2>2. QED BY <1>2, <2>1 DEF BundleInv
<1>6. Phase(p)'
  BY <1>1, OutsidePhase DEF Outside
<1>7. QED BY <1>1, <1>2, <1>4, <1>5, <1>6, WorkingStep DEF DiskInv

LEMMA FitsLater ==
  ASSUME NEW r, NEW q, NEW d, NEW gone, Fits(r, q, d, gone) PROVE Fits(r, q, d, TRUE)
  BY DEF Fits

\* A step of a removal, which no journal goes with.
LEMMA RemovalGoesOn ==
  ASSUME WorkInv, Apart, NEW p \in Procs, TypeInv', \A q \in Procs \ {p} : op'[q] = op[q],
         op[p].pc \in Between \cup Removing, op'[p].pc \in Removing \cup {"unlink"},
         journal' = journal, touched' = touched,
         \A q \in Plain \ touched : Fits(receipt', q, disk'[q], cut'),
         \A q \in Files : disk'[q] \in Versions => disk'[q] = Owner(receipt', q),
         LaunchersResolve', RemovePhase(p)'
  PROVE  WorkInv'
<1>1. journal = None /\ Working(p)
  BY NothingUnderway
<1>2. Chg(<<>>) = {}
  BY EmptySeq, ChgOf
<1>3. Base' = receipt' /\ Chg(Underway)' = {} /\ Reaches(Underway)' = {}
  BY <1>1, <1>2 DEF Base, Underway, Reaches
<1>4. JournalInv' /\ Unreached' /\ BackedUp' /\ Traced' /\ BundleInv'
  BY <1>1, <1>3 DEF JournalInv, Unreached, BackedUp, Traced, BundleInv
<1>5. JournalPhase(p)' /\ PlanPhase(p)' /\ ApplyPhase(p)' /\ UndoPhase(p)' /\ RequestPhase(p)'
  BY <1>1 DEF JournalPhase, PlanPhase, ApplyPhase, UndoPhase, RequestPhase, Between, Removing,
              Forward, Backward
<1>6. QED BY <1>1, <1>4, <1>5, WorkingStep DEF DiskInv, Phase

LEMMA PreflightKeeps == ASSUME WorkInv, Apart, NEW p \in Procs, Preflight(p) PROVE WorkInv'
<1>1. /\ TypeInv' /\ \A q \in Procs \ {p} : op'[q] = op[q]
      /\ op[p].pc = "ready" /\ receipt # None
      /\ op'[p].pc = "unregister" /\ Reaches(op'[p].todo) = Recorded
      /\ UNCHANGED <<disk, aside, installation, locks, cut, touched, counts>>
  BY PreflightIs DEF WorkInv
<1>2. UNCHANGED <<disk, receipt, journal, generations, cut, touched>>
  BY <1>1 DEF installation
<1>3. /\ \A q \in Plain \ touched : Fits(receipt, q, disk[q], cut)
      /\ \A q \in Files : disk[q] \in Versions => disk[q] = Owner(receipt, q)
  BY <1>1, NothingUnderway DEF Between
<1>4. RemovePhase(p)'
  <2>1. \A q \in Files : disk[q] \in Versions => q \in Recorded
    BY <1>3, Given DEF Recorded
  <2>2. QED BY <1>1, <1>2, <2>1 DEF RemovePhase
<1>5. LaunchersResolve'
  BY <1>2 DEF WorkInv, DiskInv, LaunchersResolve
<1>6. QED BY <1>1, <1>2, <1>3, <1>4, <1>5, RemovalGoesOn DEF Between, Removing

LEMMA UnregisterKeeps == ASSUME WorkInv, Apart, NEW p \in Procs, Unregister(p) PROVE WorkInv'
<1>1. /\ TypeInv' /\ \A q \in Procs \ {p} : op'[q] = op[q]
      /\ op[p].pc = "unregister" /\ cut' = TRUE
      /\ \/ op'[p].pc = "strip" /\ Tail(op'[p].todo) = op[p].todo
         \/ Registered = {} /\ op'[p] = Moved(op[p], "remove", op[p].todo)
      /\ UNCHANGED <<disk, aside, installation, locks, touched, counts>>
  BY UnregisterIs DEF WorkInv
<1>2. UNCHANGED <<disk, receipt, journal, generations, touched>>
  BY <1>1 DEF installation
<1>3. /\ \A q \in Plain \ touched : Fits(receipt, q, disk[q], cut)
      /\ \A q \in Files : disk[q] \in Versions => disk[q] = Owner(receipt, q)
  BY <1>1, NothingUnderway DEF Removing
<1>4. /\ receipt # None /\ LaunchersResolve
      /\ \A q \in Files : disk[q] \in Versions => q \in Reaches(op[p].todo)
  BY <1>1 DEF WorkInv, Phase, RemovePhase, DiskInv, Removing
<1>5. \A q \in Plain \ touched : Fits(receipt, q, disk[q], TRUE)
  BY <1>3, FitsLater
<1>6. ASSUME op'[p].pc = "strip" /\ Tail(op'[p].todo) = op[p].todo PROVE RemovePhase(p)'
  <2>1. op'[p].todo \in Seq(Tasks) /\ op'[p].todo # <<>>
    BY <1>1, <1>6 DEF TypeInv, Op, OpRecord, Placed
  <2>2. Chg(op'[p].todo) = {Head(op'[p].todo)} \cup Chg(op[p].todo)
    BY <1>6, <2>1, TailOf
  <2>3. Reaches(op[p].todo) \subseteq Reaches(op'[p].todo)
    BY <2>2 DEF Reaches
  <2>4. RemovePhase(p)'
    BY <1>1, <1>2, <1>4, <1>6, <2>3 DEF RemovePhase
  <2>5. QED BY <1>6, <2>4
<1>7. ASSUME Registered = {}, op'[p] = Moved(op[p], "remove", op[p].todo)
      PROVE  RemovePhase(p)' /\ op'[p].pc = "remove"
  <2>1. op'[p].pc = "remove" /\ op'[p].todo = op[p].todo
    BY <1>7, MovedFields
  <2>2. ASSUME NEW q \in Profiles \ touched PROVE disk[q].block = "no"
    <3>1. Fits(receipt, q, disk[q], TRUE)
      BY <1>5 DEF Plain
    <3>2. CASE receipt.path
      BY <1>4, <1>7, <3>1, <3>2 DEF Fits, Registered
    <3>3. CASE ~receipt.path
      BY <1>4, <3>1, <3>3 DEF Fits
    <3>4. QED BY <3>2, <3>3
  <2>3. RemovePhase(p)'
    BY <1>1, <1>2, <1>4, <2>1, <2>2 DEF RemovePhase
  <2>4. QED BY <2>1, <2>3
<1>8. RemovePhase(p)' /\ op'[p].pc \in {"strip", "remove"}
  BY <1>1, <1>6, <1>7
<1>9. LaunchersResolve'
  BY <1>2, <1>4 DEF LaunchersResolve
<1>10. \A r \in Plain \ touched : Fits(receipt', r, disk'[r], cut')
  <2>1. \A r \in Plain \ touched : Fits(receipt', r, disk'[r], TRUE)
    BY <1>2, <1>5
  <2>2. QED BY <1>1, <2>1
<1>11. QED BY <1>1, <1>2, <1>3, <1>8, <1>9, <1>10, RemovalGoesOn DEF Removing

LEMMA StripProfileKeeps ==
  ASSUME WorkInv, Apart, NEW p \in Procs, StripProfile(p) PROVE WorkInv'
<1> DEFINE c == Change(p)
<1>1. /\ TypeInv' /\ \A q \in Procs \ {p} : op'[q] = op[q]
      /\ op[p].pc = "strip" /\ op[p].todo # <<>> /\ c \in StripChange /\ c.path \in Profiles
      /\ \A q \in Paths \ {c.path} : disk'[q] = disk[q]
      /\ disk'[c.path] = c.after
      /\ op'[p] = Moved(op[p], "unregister", Tail(op[p].todo))
      /\ UNCHANGED <<aside, installation, locks, cut, touched, counts>>
  BY StripProfileIs DEF WorkInv
<1>2. UNCHANGED <<receipt, journal, generations, cut, touched>>
  BY <1>1 DEF installation
<1>3. /\ \A q \in Plain \ touched : Fits(receipt, q, disk[q], cut)
      /\ \A q \in Files : disk[q] \in Versions => disk[q] = Owner(receipt, q)
  BY <1>1, NothingUnderway DEF Removing
<1>4. /\ receipt # None /\ cut /\ LaunchersResolve
      /\ \A q \in Files : disk[q] \in Versions => q \in Reaches(op[p].todo)
  BY <1>1 DEF WorkInv, Phase, RemovePhase, DiskInv, Removing
<1>5. Chg(op[p].todo) = {c} \cup Chg(Tail(op[p].todo))
  <2>1. op[p].todo \in Seq(Tasks)
    BY Here DEF OpRecord, WorkInv
  <2>2. QED BY <1>1, <2>1, TailOf DEF Change
<1>6. op'[p].pc = "unregister" /\ op'[p].todo = Tail(op[p].todo)
  BY <1>1, MovedFields
<1>7. c.after.block = "no"
  BY <1>1 DEF StripChange
<1> HIDE DEF c
<1>8. \A q \in Files : disk'[q] = disk[q] /\ q # c.path
  BY <1>1, Given
<1>9. ASSUME NEW q \in Plain \ touched PROVE Fits(receipt', q, disk'[q], cut')
  <2>1. Fits(receipt, q, disk'[q], cut)
    <3>1. CASE q = c.path
      BY <1>1, <1>4, <1>7, <3>1 DEF Fits
    <3>2. CASE q # c.path
      <4>1. disk'[q] = disk[q]
        BY <1>1, <3>2, Given DEF Plain
      <4>2. QED BY <1>3, <4>1
    <3>3. QED BY <3>1, <3>2
  <2>2. QED BY <1>2, <2>1
<1>10. ASSUME NEW q \in Files, disk[q] \in Versions PROVE q \in Reaches(op'[p].todo)
  <2>1. q \in Reaches(op[p].todo) /\ q # c.path
    BY <1>4, <1>8, <1>10
  <2>2. QED BY <1>5, <1>6, <2>1 DEF Reaches
<1>11. RemovePhase(p)'
  BY <1>2, <1>4, <1>6, <1>8, <1>10 DEF RemovePhase
<1>12. LaunchersResolve'
  BY <1>2, <1>4, <1>8 DEF LaunchersResolve
<1>13. \A q \in Files : disk'[q] \in Versions => disk'[q] = Owner(receipt', q)
  BY <1>2, <1>3, <1>8
<1>14. QED BY <1>1, <1>2, <1>6, <1>9, <1>11, <1>12, <1>13, RemovalGoesOn DEF Removing

\* What a removal has left, once it takes files away.
LEMMA RemovalLeft ==
  ASSUME WorkInv, NEW p \in Procs, op[p].pc \in {"remove", "delete", "bundle", "generation"}
  PROVE  /\ journal = None /\ Working(p) /\ receipt # None /\ cut /\ LaunchersResolve
         /\ \A q \in Profiles \ touched : disk[q].block = "no"
         /\ \A q \in Files : disk[q] \in Versions => q \in Reaches(op[p].todo)
         /\ \A q \in Plain \ touched : Fits(receipt, q, disk[q], cut)
         /\ \A q \in Files : disk[q] \in Versions => disk[q] = Owner(receipt, q)
<1>1. /\ receipt # None /\ cut /\ LaunchersResolve
      /\ \A q \in Profiles \ touched : disk[q].block = "no"
      /\ \A q \in Files : disk[q] \in Versions => q \in Reaches(op[p].todo)
  BY DEF WorkInv, Phase, RemovePhase, DiskInv, Removing
<1>2. QED BY <1>1, NothingUnderway DEF Removing

LEMMA CheckOwnedKeeps == ASSUME WorkInv, Apart, NEW p \in Procs, CheckOwned(p) PROVE WorkInv'
<1> DEFINE c == Change(p)
<1>1. /\ TypeInv' /\ Still /\ \A q \in Procs \ {p} : op'[q] = op[q]
      /\ op[p].pc = "remove" /\ op[p].todo # <<>>
      /\ \/ /\ disk[c.path] = "absent"
            /\ op'[p] = Moved(op[p], "remove", Tail(op[p].todo))
         \/ op'[p] = Moved(op[p], "delete", op[p].todo)
  BY CheckOwnedIs DEF WorkInv
<1>2. UNCHANGED <<disk, receipt, journal, generations, cut, touched>>
  BY <1>1 DEF Still, installation
<1>3. /\ receipt # None /\ cut /\ LaunchersResolve
      /\ \A q \in Profiles \ touched : disk[q].block = "no"
      /\ \A q \in Files : disk[q] \in Versions => q \in Reaches(op[p].todo)
      /\ \A q \in Plain \ touched : Fits(receipt, q, disk[q], cut)
      /\ \A q \in Files : disk[q] \in Versions => disk[q] = Owner(receipt, q)
  BY <1>1, RemovalLeft
<1>4. Chg(op[p].todo) = {c} \cup Chg(Tail(op[p].todo))
  BY <1>1, RemovalIs DEF Removing, WorkInv
<1> HIDE DEF c
<1>5. /\ op'[p].pc \in {"remove", "delete"}
      /\ op'[p].todo = op[p].todo \/ (op'[p].todo = Tail(op[p].todo) /\ disk[c.path] = "absent")
  BY <1>1, MovedFields
<1>6. ASSUME NEW q \in Files, disk[q] \in Versions PROVE q \in Reaches(op'[p].todo)
  <2>1. q \in Reaches(op[p].todo)
    BY <1>3, <1>6
  <2>2. CASE op'[p].todo = op[p].todo
    BY <2>1, <2>2
  <2>3. CASE op'[p].todo = Tail(op[p].todo) /\ disk[c.path] = "absent"
    <3>1. q # c.path
      BY <1>6, <2>3, Given
    <3>2. QED BY <1>4, <2>1, <2>3, <3>1 DEF Reaches
  <2>4. QED BY <1>5, <2>2, <2>3
<1>7. RemovePhase(p)'
  BY <1>2, <1>3, <1>5, <1>6 DEF RemovePhase
<1>8. LaunchersResolve'
  BY <1>2, <1>3 DEF LaunchersResolve
<1>9. QED BY <1>1, <1>2, <1>3, <1>5, <1>7, <1>8, RemovalGoesOn DEF Removing

LEMMA RemoveOwnedKeeps == ASSUME WorkInv, Apart, NEW p \in Procs, RemoveOwned(p) PROVE WorkInv'
<1> DEFINE c == Change(p)
<1>1. /\ TypeInv' /\ \A q \in Procs \ {p} : op'[q] = op[q]
      /\ op[p].pc = "delete" /\ op[p].todo # <<>> /\ c \in RemovalChange
      /\ \A q \in Paths \ {c.path} : disk'[q] = disk[q]
      /\ \/ /\ disk'[c.path] = "absent"
            /\ op'[p] = Moved(op[p], "remove", Tail(op[p].todo))
         \/ /\ c.path \in Bundles /\ disk'[c.path] = "torn"
            /\ op'[p] = Moved(op[p], "bundle", op[p].todo)
      /\ UNCHANGED <<aside, installation, locks, cut, touched, counts>>
  BY RemoveOwnedIs DEF WorkInv
<1>2. UNCHANGED <<receipt, journal, generations, cut, touched>>
  BY <1>1 DEF installation
<1>3. /\ receipt # None /\ cut /\ LaunchersResolve
      /\ \A q \in Profiles \ touched : disk[q].block = "no"
      /\ \A q \in Files : disk[q] \in Versions => q \in Reaches(op[p].todo)
      /\ \A q \in Plain \ touched : Fits(receipt, q, disk[q], cut)
      /\ \A q \in Files : disk[q] \in Versions => disk[q] = Owner(receipt, q)
  BY <1>1, RemovalLeft
<1>4. Chg(op[p].todo) = {c} \cup Chg(Tail(op[p].todo)) /\ c.path \in Files \cup Bundles
  BY <1>1, RemovalIs DEF Removing, RemovalChange, WorkInv
<1> HIDE DEF c
<1>5. \A q \in Profiles : disk'[q] = disk[q]
  BY <1>1, <1>4, Given
<1>6. ASSUME NEW q \in Files
      PROVE  disk'[q] = disk[q] \/ (q = c.path /\ disk'[q] = "absent")
  BY <1>1, Given
<1>7. \A q \in Files : disk'[q] \in Versions => disk'[q] = disk[q]
  BY <1>6, Given
<1>8. ASSUME NEW q \in Plain \ touched PROVE Fits(receipt, q, disk'[q], cut)
  <2>1. Fits(receipt, q, disk[q], cut)
    BY <1>3
  <2>2. CASE disk'[q] = disk[q]
    BY <2>1, <2>2
  <2>3. CASE q \in Files /\ disk'[q] = "absent"
    BY <1>3, <2>3, Given DEF Fits
  <2>4. QED BY <1>5, <1>6, <2>2, <2>3 DEF Plain
<1>9. /\ op'[p].pc \in {"remove", "bundle"}
      /\ op'[p].todo = op[p].todo \/ (op'[p].todo = Tail(op[p].todo) /\ disk'[c.path] = "absent")
  BY <1>1, MovedFields
<1>10. ASSUME NEW q \in Files, disk'[q] \in Versions PROVE q \in Reaches(op'[p].todo)
  <2>1. q \in Reaches(op[p].todo)
    BY <1>3, <1>7, <1>10
  <2>2. CASE op'[p].todo = op[p].todo
    BY <2>1, <2>2
  <2>3. CASE op'[p].todo = Tail(op[p].todo) /\ disk'[c.path] = "absent"
    <3>1. q # c.path
      BY <1>10, <2>3, Given
    <3>2. QED BY <1>4, <2>1, <2>3, <3>1 DEF Reaches
  <2>4. QED BY <1>9, <2>2, <2>3
<1>11. RemovePhase(p)'
  BY <1>2, <1>3, <1>5, <1>9, <1>10 DEF RemovePhase
<1>12. LaunchersResolve'
  BY <1>2, <1>3, <1>7 DEF LaunchersResolve
<1>13. QED BY <1>1, <1>2, <1>3, <1>7, <1>8, <1>9, <1>11, <1>12, RemovalGoesOn DEF Removing

LEMMA RemoveBundleKeeps ==
  ASSUME WorkInv, Apart, NEW p \in Procs, RemoveBundle(p) PROVE WorkInv'
<1> DEFINE c == Change(p)
<1>1. /\ TypeInv' /\ \A q \in Procs \ {p} : op'[q] = op[q]
      /\ op[p].pc = "bundle" /\ op[p].todo # <<>> /\ c.path \in Bundles
      /\ \A q \in Paths \ {c.path} : disk'[q] = disk[q]
      /\ op'[p] = Moved(op[p], "remove", Tail(op[p].todo))
      /\ UNCHANGED <<aside, installation, locks, cut, touched, counts>>
  BY RemoveBundleIs DEF WorkInv
<1>2. UNCHANGED <<receipt, journal, generations, cut, touched>>
  BY <1>1 DEF installation
<1>3. /\ receipt # None /\ cut /\ LaunchersResolve
      /\ \A q \in Profiles \ touched : disk[q].block = "no"
      /\ \A q \in Files : disk[q] \in Versions => q \in Reaches(op[p].todo)
      /\ \A q \in Plain \ touched : Fits(receipt, q, disk[q], cut)
      /\ \A q \in Files : disk[q] \in Versions => disk[q] = Owner(receipt, q)
  BY <1>1, RemovalLeft
<1>4. Chg(op[p].todo) = {c} \cup Chg(Tail(op[p].todo))
  BY <1>1, RemovalIs DEF Removing, WorkInv
<1> HIDE DEF c
<1>5. \A q \in Plain : disk'[q] = disk[q] /\ q # c.path
  BY <1>1, Given DEF Plain
<1>6. op'[p].pc = "remove" /\ op'[p].todo = Tail(op[p].todo)
  BY <1>1, MovedFields
<1>7. \A q \in Files : disk'[q] \in Versions => q \in Reaches(op'[p].todo)
  BY <1>3, <1>4, <1>5, <1>6 DEF Reaches, Plain
<1>8. RemovePhase(p)'
  BY <1>2, <1>3, <1>5, <1>6, <1>7 DEF RemovePhase, Plain
<1>9. LaunchersResolve'
  BY <1>2, <1>3, <1>5 DEF LaunchersResolve, Plain
<1>10. /\ \A q \in Plain \ touched : Fits(receipt', q, disk'[q], cut')
       /\ \A q \in Files : disk'[q] \in Versions => disk'[q] = Owner(receipt', q)
  BY <1>2, <1>3, <1>5 DEF Plain
<1>11. QED BY <1>1, <1>2, <1>6, <1>8, <1>9, <1>10, RemovalGoesOn DEF Removing

\* Packages go when no file leads to one any more.
LEMMA GenerationsKeep ==
  ASSUME WorkInv, Apart, NEW p \in Procs, TearGeneration(p) \/ DropGeneration(p) PROVE WorkInv'
<1>1. /\ TypeInv' /\ \A q \in Procs \ {p} : op'[q] = op[q]
      /\ op[p].pc \in {"remove", "generation"} /\ op[p].todo = <<>> /\ op'[p].todo = <<>>
      /\ op'[p].pc \in {"remove", "generation"}
      /\ UNCHANGED <<disk, aside, receipt, journal, locks, cut, touched, counts>>
  <2>1. CASE TearGeneration(p)
    BY <2>1, TearGenerationIs DEF WorkInv
  <2>2. CASE DropGeneration(p)
    BY <2>2, DropGenerationIs, MovedFields DEF WorkInv, Phase, RemovePhase
  <2>3. QED BY <2>1, <2>2
<1>2. /\ receipt # None /\ cut
      /\ \A q \in Profiles \ touched : disk[q].block = "no"
      /\ \A q \in Files : disk[q] \in Versions => q \in Reaches(op[p].todo)
      /\ \A q \in Plain \ touched : Fits(receipt, q, disk[q], cut)
      /\ \A q \in Files : disk[q] \in Versions => disk[q] = Owner(receipt, q)
  BY <1>1, RemovalLeft
<1>3. \A q \in Files : disk[q] \notin Versions
  <2>1. Chg(<<>>) = {}
    BY EmptySeq, ChgOf
  <2>2. QED BY <1>1, <1>2, <2>1 DEF Reaches
<1>4. RemovePhase(p)' /\ LaunchersResolve'
  BY <1>1, <1>2, <1>3 DEF RemovePhase, LaunchersResolve
<1>5. QED BY <1>1, <1>2, <1>4, RemovalGoesOn DEF Removing

LEMMA RemoveReceiptKeeps ==
  ASSUME WorkInv, Apart, NEW p \in Procs, RemoveReceipt(p) PROVE WorkInv'
<1>1. /\ TypeInv' /\ \A q \in Procs \ {p} : op'[q] = op[q]
      /\ op[p].pc = "remove" /\ op[p].todo = <<>>
      /\ op'[p] = Moved(op[p], "unlink", op[p].todo)
      /\ receipt' = None /\ cut' = FALSE
      /\ UNCHANGED <<disk, aside, journal, generations, lockFile, shared, touched, counts>>
  BY RemoveReceiptIs DEF WorkInv
<1>2. /\ LaunchersResolve
      /\ \A q \in Profiles \ touched : disk[q].block = "no"
      /\ \A q \in Files : disk[q] \in Versions => q \in Reaches(op[p].todo)
  BY <1>1, RemovalLeft
<1>3. \A q \in Files : disk[q] \notin Versions
  <2>1. Chg(<<>>) = {}
    BY EmptySeq, ChgOf
  <2>2. QED BY <1>1, <1>2, <2>1 DEF Reaches
<1>4. \A q \in Plain \ touched : Fits(receipt', q, disk'[q], cut')
  BY <1>1, <1>2, <1>3, Given DEF Fits, Owner, Plain
<1>5. op'[p].pc = "unlink"
  BY <1>1, MovedFields
<1>6. RemovePhase(p)' /\ LaunchersResolve'
  BY <1>1, <1>2, <1>5 DEF RemovePhase, Removing, LaunchersResolve
<1>7. QED BY <1>1, <1>3, <1>4, <1>5, <1>6, RemovalGoesOn DEF Removing

LEMMA FailKeeps == ASSUME WorkInv, Apart, NEW p \in Procs, Fail(p) PROVE WorkInv'
<1>1. /\ TypeInv' /\ \A q \in Procs \ {p} : op'[q] = op[q]
      /\ \/ /\ op[p].pc \in Forward /\ journal # None /\ journal' = journal
            /\ op'[p].pc = "undo" /\ op'[p].tx = journal
            /\ Chg(op'[p].todo) = Chg(journal.changes)
         \/ /\ op'[p] = Idle
            /\ \/ journal' = journal
               \/ op[p].pc = "journal" /\ op[p].tx \in Tx /\ journal' = op[p].tx
      /\ UNCHANGED <<disk, aside, receipt, generations, cut, touched, counts>>
  BY FailIs DEF WorkInv
<1>2. CASE /\ op[p].pc \in Forward /\ journal # None /\ journal' = journal
           /\ op'[p].pc = "undo" /\ op'[p].tx = journal
           /\ Chg(op'[p].todo) = Chg(journal.changes)
  <2>1. DiskInv' /\ Working(p)
    BY <1>1, <1>2, DiskStays, UnderwayIs DEF WorkInv, Still, installation
  <2>2. Phase(p)'
    BY <1>2, UndoBegins
  <2>3. QED BY <1>1, <2>1, <2>2, WorkingStep
<1>3. CASE op'[p] = Idle /\ journal' = journal
  <2>1. Still /\ op'[p].pc = "idle"
    BY <1>1, <1>3 DEF Still, installation, Idle
  <2>2. QED BY <1>1, <2>1, RestingStep DEF Outside
<1>4. CASE op'[p] = Idle /\ op[p].pc = "journal" /\ op[p].tx \in Tx /\ journal' = op[p].tx
  <2>1. DiskInv' /\ Working(p)
    BY <1>1, <1>4, JournalWritten
  <2>2. Phase(p)'
    BY <1>4, OutsidePhase DEF Idle, Outside
  <2>3. QED BY <1>1, <2>1, <2>2, WorkingStep
<1>5. QED BY <1>1, <1>2, <1>3, <1>4

LEMMA UserEditsKeeps == ASSUME WorkInv, NEW q \in Paths, UserEdits(q) PROVE WorkInv'
<1>1. /\ TypeInv' /\ touched' = touched \cup {q}
      /\ \A r \in Paths \ {q} : disk'[r] = disk[r]
      /\ q \notin Profiles => disk'[q] \in {"absent", "foreign"}
      /\ q \in Profiles => disk'[q].text \in {"edited", disk[q].text}
      /\ UNCHANGED <<aside, installation, op, locks, cut>>
  BY UserEditsIs DEF WorkInv
<1>2. UNCHANGED <<aside, receipt, journal, generations, op, cut>>
  BY <1>1 DEF installation
<1>3. touched \subseteq touched' /\ \A r \in Paths \ touched' : disk'[r] = disk[r]
  BY <1>1
<1>4. \A r \in Files : disk'[r] \in Versions => disk'[r] = disk[r]
  BY <1>1, Given
<1>5. Plain \subseteq Paths /\ Bundles \subseteq Paths /\ Files \subseteq Plain
      /\ Profiles \subseteq Plain
  BY Given DEF Plain
<1>6. Base' = Base /\ Underway' = Underway /\ Whole' = Whole
  BY <1>2 DEF Base, Underway, Whole
<1>7. DiskInv'
  <2>1. JournalInv'
    BY <1>2, <1>6 DEF WorkInv, DiskInv, JournalInv, TxWhole
  <2>2. Unreached' /\ BackedUp'
    BY <1>2, <1>3, <1>5, <1>6 DEF WorkInv, DiskInv, Unreached, BackedUp
  <2>3. Traced'
    BY <1>2, <1>4, <1>6 DEF WorkInv, DiskInv, Traced
  <2>4. BundleInv'
    BY <1>2, <1>3, <1>5, <1>6 DEF WorkInv, DiskInv, BundleInv
  <2>5. LaunchersResolve'
    BY <1>2, <1>4 DEF WorkInv, DiskInv, LaunchersResolve
  <2>6. QED BY <2>1, <2>2, <2>3, <2>4, <2>5 DEF DiskInv
<1>8. \A c : Applied(c) => Applied(c)'
  BY <1>3, <1>4, <1>5 DEF Applied
<1>9. \A c, t : Reverted(c, t) => Reverted(c, t)'
  BY <1>3, <1>4, <1>5 DEF Reverted
<1>10. \A t, gone : Rest(t, gone) => Rest(t, gone)'
  BY <1>3, <1>5 DEF Rest
<1>11. ASSUME NEW p \in Procs PROVE Phase(p)'
  <2>1. Phase(p)
    BY DEF WorkInv
  <2>2. JournalPhase(p)'
    BY <1>2, <2>1 DEF Phase, JournalPhase
  <2>3. PlanPhase(p)'
    <3>1. op[p].pc = "prepare" => op[p].target \in Whole
      BY <2>1 DEF Phase, PlanPhase
    <3>2. ASSUME op[p].pc \in {"copy", "journal"}
          PROVE  LET t == op[p].tx IN
                 /\ t.before = receipt
                 /\ SoundTx(t) /\ TxWhole(t)'
                 /\ \A c \in Chg(t.changes) :
                      /\ c.path \notin touched' => disk'[c.path] = c.before /\ SameText(c)
                      /\ c.path \in Bundles => aside = "absent"
                      /\ op[p].pc = "copy" /\ c.path \in Profiles =>
                           (c.after.text = "edited" => disk'[c.path].text = "edited")
                 /\ Rest(t, op[p].kind = "register" /\ cut)'
      <4> DEFINE t == op[p].tx
      <4>1. /\ t.before = receipt /\ SoundTx(t) /\ TxWhole(t)
            /\ \A c \in Chg(t.changes) :
                 /\ c.path \notin touched => disk[c.path] = c.before /\ SameText(c)
                 /\ c.path \in Bundles => aside = "absent"
                 /\ op[p].pc = "copy" /\ c.path \in Profiles =>
                      (c.after.text = "edited" => disk[c.path].text = "edited")
            /\ Rest(t, op[p].kind = "register" /\ cut)
        BY <2>1, <3>2 DEF Phase, PlanPhase
      <4>2. t \in Tx
        BY <3>2, Here DEF Placed, WorkInv
      <4>3. t.changes \in Seq(TxChange)
        BY <4>2 DEF Tx
      <4>4. \A c \in Chg(t.changes) : c.path \in Paths
        <5>1. Chg(t.changes) \subseteq TxChange
          BY <4>3, ChgOf
        <5>2. QED BY <5>1 DEF TxChange
      <4>5. \A c \in Chg(t.changes) :
              c.path \notin touched' => disk'[c.path] = c.before /\ SameText(c)
        BY <1>3, <4>1, <4>4
      <4>6. TxWhole(t)' /\ Rest(t, op[p].kind = "register" /\ cut)'
        BY <1>2, <1>3, <1>5, <1>6, <4>1 DEF TxWhole, Rest
      <4>7. \A r \in Profiles : disk[r].text = "edited" => disk'[r].text = "edited"
        BY <1>1, <1>5
      <4>8. \A c \in Chg(t.changes) : op[p].pc = "copy" /\ c.path \in Profiles =>
              (c.after.text = "edited" => disk'[c.path].text = "edited")
        BY <4>1, <4>7
      <4> HIDE DEF t
      <4>9. /\ t.before = receipt /\ SoundTx(t) /\ TxWhole(t)'
            /\ \A c \in Chg(t.changes) :
                 /\ c.path \notin touched' => disk'[c.path] = c.before /\ SameText(c)
                 /\ c.path \in Bundles => aside = "absent"
                 /\ op[p].pc = "copy" /\ c.path \in Profiles =>
                      (c.after.text = "edited" => disk'[c.path].text = "edited")
            /\ Rest(t, op[p].kind = "register" /\ cut)'
        BY <4>1, <4>5, <4>6, <4>8
      <4>10. QED BY <4>9 DEF t
    <3>3. QED BY <1>2, <1>6, <3>1, <3>2 DEF PlanPhase
  <2>4. ApplyPhase(p)'
    <3> DEFINE t == op[p].tx
    <3>1. op[p].pc \in Forward => Rest(op[p].tx, op[p].kind = "register" /\ cut)'
      BY <1>2, <1>3, <1>5, <2>1 DEF Phase, ApplyPhase, Rest
    <3>2. /\ op[p].pc \in {"apply", "swap"} =>
               /\ \A c \in Chg(t.changes) \ Chg(op[p].todo) : Applied(c)'
               /\ Distinct(op[p].todo)
          /\ op[p].pc = "apply" => \A c \in Chg(op[p].todo) :
               c.path \in Bundles \ touched' => disk'[c.path] = c.before
      BY <1>3, <1>5, <1>8, <2>1 DEF Phase, ApplyPhase
    <3>3. op[p].pc \in {"verify", "commit"} =>
            receipt = t.after /\ \A c \in Chg(t.changes) : Applied(c)'
      BY <1>8, <2>1 DEF Phase, ApplyPhase
    <3>4. QED BY <1>2, <3>1, <3>2, <3>3 DEF ApplyPhase
  <2>5. UndoPhase(p)'
    <3>1. PICK t : t = op[p].tx
      OBVIOUS
    <3>2. op[p].pc \in {"undo", "put", "clear", "tear", "restore"} =>
            \A c \in Chg(t.changes) \ Chg(op[p].todo) : Reverted(c, t)'
      BY <1>9, <2>1, <3>1 DEF Phase, UndoPhase
    <3>3. op[p].pc = "undone" => receipt = t.before /\ \A c \in Chg(t.changes) : Reverted(c, t)'
      BY <1>9, <2>1, <3>1 DEF Phase, UndoPhase
    <3>5. op[p].pc = "clear" => aside # "absent" \/ Head(op[p].todo).before = "absent"
      BY <2>1 DEF Phase, UndoPhase
    <3>4. QED BY <1>2, <3>1, <3>2, <3>3, <3>5 DEF UndoPhase, Reverted
  <2>6. RemovePhase(p)'
    BY <1>2, <1>3, <1>4, <1>5, <2>1 DEF Phase, RemovePhase
  <2>7. RequestPhase(p)'
    BY <1>2, <2>1 DEF Phase, RequestPhase
  <2>8. QED BY <2>2, <2>3, <2>4, <2>5, <2>6, <2>7 DEF Phase
<1>12. QED BY <1>1, <1>7, <1>11 DEF WorkInv

LEMMA StepKeeps == ASSUME WorkInv, Apart, NEW p \in Procs, Step(p) PROVE WorkInv'
<1>1. CASE LockChannel(p) \/ LockIntegrations(p) \/ Recover(p)
  BY <1>1, LocksKeep, RecoverKeeps
<1>2. CASE \/ FindOurs(p) \/ PutBack(p) \/ FindBundle(p)
           \/ TearBundle(p) \/ DropBundle(p) \/ RestoreBundle(p)
  BY <1>2, FindOursKeeps, PutBackKeeps, FindBundleKeeps, TearBundleKeeps, DropBundleKeeps,
     RestoreBundleKeeps
<1>3. CASE RestoreReceipt(p) \/ ClearUndone(p)
  BY <1>3, RestoreReceiptKeeps, ClearUndoneKeeps
<1>4. CASE \/ Stage(p) \/ PrepareInstall(p) \/ PrepareRegister(p)
           \/ BackUp(p) \/ WriteJournal(p)
  BY <1>4, StageKeeps, PrepareInstallKeeps, PrepareRegisterKeeps, BackUpKeeps, WriteJournalKeeps
<1>5. CASE ApplyFile(p) \/ MoveAside(p) \/ ActivateBundle(p)
  BY <1>5, ApplyFileKeeps, MoveAsideKeeps, ActivateBundleKeeps
<1>6. CASE WriteReceipt(p) \/ Verify(p) \/ ClearJournal(p) \/ Finish(p)
  BY <1>6, WriteReceiptKeeps, VerifyKeeps, ClearJournalKeeps, FinishKeeps
<1>7. CASE \/ Preflight(p) \/ Unregister(p) \/ StripProfile(p)
           \/ CheckOwned(p) \/ RemoveOwned(p) \/ RemoveBundle(p)
  BY <1>7, PreflightKeeps, UnregisterKeeps, StripProfileKeeps, CheckOwnedKeeps, RemoveOwnedKeeps,
     RemoveBundleKeeps
<1>8. CASE TearGeneration(p) \/ DropGeneration(p) \/ RemoveReceipt(p) \/ Unlink(p)
  BY <1>8, GenerationsKeep, RemoveReceiptKeeps, UnlinkKeeps
<1>9. QED BY <1>1, <1>2, <1>3, <1>4, <1>5, <1>6, <1>7, <1>8 DEF Step

LEMMA NextKeeps == ASSUME WorkInv, Apart, [Next]_vars PROVE WorkInv'
<1>1. ASSUME NEW p \in Procs, Start(p) \/ Step(p) \/ Fail(p) \/ Crash(p) PROVE WorkInv'
  BY <1>1, StartKeeps, StepKeeps, FailKeeps, CrashKeeps
<1>2. ASSUME NEW q \in Paths, UserEdits(q) PROVE WorkInv'
  BY <1>2, UserEditsKeeps
<1>3. CASE UNCHANGED vars
  <2>1. Still /\ op' = op
    BY <1>3 DEF vars, Still, installation
  <2>2. TypeInv'
    BY <1>3, NextTypes DEF WorkInv
  <2>3. \A p \in Procs : Phase(p)'
    BY <2>1, PhaseStays DEF WorkInv
  <2>4. QED BY <2>1, <2>2, <2>3, DiskStays DEF WorkInv
<1>4. QED BY <1>1, <1>2, <1>3 DEF Next

LEMMA MatchesWhenStill == ASSUME WorkInv PROVE FilesMatchReceipt
<1>1. SUFFICES ASSUME journal = None, NEW q \in Paths \ (touched \cup Bundles)
               PROVE  IF q \in Profiles
                      THEN IF receipt = None THEN disk[q].block = "no"
                           ELSE receipt.path /\ ~cut => disk[q].block = "yes"
                      ELSE IF Owner(receipt, q) = None THEN disk[q] \notin Versions
                           ELSE disk[q] = Owner(receipt, q) \/ (cut /\ disk[q] = "absent")
  BY DEF FilesMatchReceipt
<1>2. Chg(<<>>) = {}
  BY EmptySeq, ChgOf
<1>3. Base = receipt /\ Reaches(Underway) = {} /\ q \in Plain \ touched
  BY <1>1, <1>2, Given DEF Base, Underway, Reaches, Plain
<1>4. Fits(receipt, q, disk[q], cut)
  BY <1>3 DEF WorkInv, DiskInv, Unreached
<1>5. QED BY <1>4 DEF Fits

LEMMA BundleKept == ASSUME WorkInv PROVE DisplacedBundleKept
<1>1. SUFFICES ASSUME journal # None, NEW i \in DOMAIN journal.changes,
                      journal.changes[i].path \in Bundles \ touched,
                      journal.changes[i].before # "absent"
               PROVE  \/ disk[journal.changes[i].path] = journal.changes[i].before
                      \/ aside = journal.changes[i].before
  BY DEF DisplacedBundleKept
<1>2. journal.changes[i] \in Chg(Underway)
  BY <1>1 DEF Underway, Chg
<1>3. QED BY <1>1, <1>2, BundleIs

-------------------------------------------------------------------------------
(* Who works together with whom.                                               *)

\* A launcher recovers under the channel lock, an installer under both: the one way for two
\* processes to work together is an install.lock that an uninstall unlinked.
LaunchersApart == \A p, q \in Procs :
  Working(p) /\ Working(q) /\ op[p].kind = "launch" => p = q

\* Every process but a launcher holds the integration lock while it works.
SharedInv == \A p \in Procs :
  op[p].kind # "launch" /\ op[p].pc \notin {"idle", "lock", "shared"} => shared = p


\* A process past its locks keeps what it holds, or lets go of everything; a removal lets go of
\* install.lock first.
Holds(p) == /\ op[p].pc \notin {"idle", "lock", "shared", "unlink"}
            /\ op'[p].pc \notin {"idle", "lock", "shared"} /\ op'[p].kind = op[p].kind
            /\ shared' = shared
            /\ op[p].kind # "uninstall" => UNCHANGED <<held, lockFile>>
LetsGo(p) == /\ op'[p] = Idle /\ shared' = IF shared = p THEN None ELSE shared
             /\ op[p].kind # "uninstall" => /\ lockFile' = lockFile /\ held'[p] = 0
                                            /\ \A q \in Procs \ {p} : held'[q] = held[q]

LEMMA ReturnLetsGo == ASSUME TypeInv, NEW p \in Procs, Return(p) PROVE LetsGo(p)
<1>1. op'[p] = Idle /\ lockFile' = lockFile /\ shared' = IF shared = p THEN None ELSE shared
  BY DEF Return, TypeInv
<1>2. held'[p] = 0 /\ \A q \in Procs \ {p} : held'[q] = held[q]
  BY ReturnIs
<1>3. QED BY <1>1, <1>2 DEF LetsGo

LEMMA HoldsOrLetsGo ==
  ASSUME TypeInv, NEW p \in Procs, Step(p) \/ Fail(p) \/ Crash(p)
  PROVE  /\ \A q \in Procs \ {p} : op'[q] = op[q]
         /\ Holds(p) \/ LetsGo(p) \/ LockChannel(p) \/ LockIntegrations(p)
<1>1. CASE LockChannel(p) \/ LockIntegrations(p)
  BY <1>1, LockChannelIs, LockIntegrationsIs
<1>2. CASE Recover(p)
  BY <1>2, RecoverIs, MovedFields, ReturnLetsGo DEF Holds, locks
<1>3. CASE \/ FindOurs(p) \/ PutBack(p) \/ FindBundle(p)
           \/ TearBundle(p) \/ DropBundle(p) \/ RestoreBundle(p)
  <2>1. CASE FindOurs(p) \/ PutBack(p) \/ FindBundle(p)
    BY <2>1, FindOursIs, PutBackIs, FindBundleIs, MovedFields DEF Holds, locks
  <2>2. CASE TearBundle(p) \/ DropBundle(p) \/ RestoreBundle(p)
    BY <2>2, TearBundleIs, DropBundleIs, RestoreBundleIs, MovedFields DEF Holds, locks
  <2>3. QED BY <1>3, <2>1, <2>2
<1>4. CASE RestoreReceipt(p) \/ ClearUndone(p)
  BY <1>4, RestoreReceiptIs, ClearUndoneIs, MovedFields, ReturnLetsGo DEF Holds, locks
<1>5. CASE \/ Stage(p) \/ PrepareInstall(p) \/ PrepareRegister(p)
           \/ BackUp(p) \/ WriteJournal(p)
  <2>1. CASE Stage(p) \/ WriteJournal(p)
    BY <2>1, StageIs, WriteJournalIs, MovedFields DEF Holds, locks
  <2>2. CASE PrepareInstall(p) \/ PrepareRegister(p) \/ BackUp(p)
    BY <2>2, PrepareInstallIs, PrepareRegisterIs, BackUpIs DEF Holds, locks
  <2>3. QED BY <1>5, <2>1, <2>2
<1>6. CASE ApplyFile(p) \/ MoveAside(p) \/ ActivateBundle(p)
  BY <1>6, ApplyFileIs, MoveAsideIs, ActivateBundleIs, MovedFields DEF Holds, locks
<1>7. CASE WriteReceipt(p) \/ Verify(p)
  BY <1>7, WriteReceiptIs, VerifyIs, MovedFields DEF Holds, locks
<1>8. CASE ClearJournal(p) \/ Finish(p)
  BY <1>8, ClearJournalIs, FinishIs, MovedFields, ReturnLetsGo DEF Holds, locks
<1>9. CASE Preflight(p) \/ Unregister(p)
  <2>1. CASE Preflight(p)
    BY <2>1, PreflightIs DEF Holds, locks
  <2>2. CASE Unregister(p)
    <3>1. /\ op[p].pc = "unregister" /\ UNCHANGED locks /\ \A q \in Procs \ {p} : op'[q] = op[q]
          /\ op'[p].kind = op[p].kind
          /\ op'[p].pc = "strip" \/ op'[p] = Moved(op[p], "remove", op[p].todo)
      BY <2>2, UnregisterIs
    <3>2. op'[p].pc \in {"strip", "remove"}
      BY <3>1, MovedFields
    <3>3. QED BY <3>1, <3>2 DEF Holds, locks
  <2>3. QED BY <1>9, <2>1, <2>2
<1>10. CASE StripProfile(p) \/ CheckOwned(p) \/ RemoveOwned(p) \/ RemoveBundle(p)
  <2>1. CASE StripProfile(p) \/ CheckOwned(p)
    BY <2>1, StripProfileIs, CheckOwnedIs, MovedFields DEF Holds, locks
  <2>2. CASE RemoveOwned(p) \/ RemoveBundle(p)
    BY <2>2, RemoveOwnedIs, RemoveBundleIs, MovedFields DEF Holds, locks
  <2>3. QED BY <1>10, <2>1, <2>2
<1>11. CASE TearGeneration(p) \/ DropGeneration(p)
  BY <1>11, TearGenerationIs, DropGenerationIs, MovedFields DEF Holds, locks
<1>12. CASE RemoveReceipt(p)
  <2>1. /\ op[p].pc = "remove" /\ op[p].kind = "uninstall" /\ shared' = shared
        /\ op'[p] = Moved(op[p], "unlink", op[p].todo) /\ \A q \in Procs \ {p} : op'[q] = op[q]
    BY <1>12, RemoveReceiptIs
  <2>2. op'[p].kind = op[p].kind /\ op'[p].pc = "unlink"
    BY <2>1, MovedFields
  <2>3. QED BY <2>1, <2>2 DEF Holds
<1>13. CASE Unlink(p)
  <2>1. op[p].kind = "uninstall"
    BY <1>13, UnlinkIs, Here DEF Placed
  <2>2. QED BY <1>13, <2>1, UnlinkIs DEF LetsGo
<1>14. CASE Fail(p)
  BY <1>14, FailIs, ReturnLetsGo DEF Holds, locks, Forward
<1>15. CASE Crash(p)
  BY <1>15, CrashIs, ReturnLetsGo
<1>16. QED
  BY <1>1, <1>2, <1>3, <1>4, <1>5, <1>6, <1>7, <1>8, <1>9, <1>10, <1>11, <1>12, <1>13, <1>14,
     <1>15 DEF Step

LEMMA NextShares == ASSUME TypeInv, SharedInv, [Next]_vars PROVE SharedInv'
<1>1. ASSUME NEW p \in Procs, Start(p) PROVE SharedInv'
  <2>1. (\A q \in Procs \ {p} : op'[q] = op[q]) /\ UNCHANGED locks
    BY <1>1, StartIs
  <2>2. PICK kind \in Kinds, target \in Versions \cup {None}, base \in Versions \cup {None},
             modify \in BOOLEAN : op'[p] = Begun(kind, target, base, modify)
    BY <1>1, StartIs
  <2>3. op'[p].pc = "lock"
    BY <2>2 DEF Begun
  <2>4. QED BY <2>1, <2>3 DEF SharedInv, locks
<1>2. ASSUME NEW p \in Procs, Step(p) \/ Fail(p) \/ Crash(p) PROVE SharedInv'
  <2>1. \A q \in Procs \ {p} : op'[q] = op[q]
    BY <1>2, HoldsOrLetsGo
  <2>2. CASE Holds(p)
    BY <2>1, <2>2 DEF Holds, SharedInv
  <2>3. CASE LetsGo(p)
    BY <2>1, <2>3 DEF LetsGo, SharedInv, Idle
  <2>4. CASE LockChannel(p)
    <3>1. shared' = shared /\ (op'[p].kind = "launch" \/ op'[p].pc = "shared")
      BY <2>4, LockChannelIs, MovedFields
    <3>2. QED BY <2>1, <3>1 DEF SharedInv
  <2>5. CASE LockIntegrations(p)
    <3>1. shared = None /\ shared' = p
      BY <2>5, LockIntegrationsIs
    <3>2. QED BY <2>1, <3>1, InstallerAssumption DEF SharedInv, InstallerAssumption
  <2>6. QED BY <1>2, <2>2, <2>3, <2>4, <2>5, HoldsOrLetsGo
<1>3. ASSUME NEW q \in Paths, UserEdits(q) PROVE SharedInv'
  BY <1>3, UserEditsIs DEF SharedInv, locks
<1>4. CASE UNCHANGED vars
  BY <1>4 DEF vars, locks, SharedInv
<1>5. QED BY <1>1, <1>2, <1>3, <1>4 DEF Next

LEMMA OneAtATime == ASSUME SharedInv, LaunchersApart PROVE Apart
  BY DEF SharedInv, LaunchersApart, Apart, Working, Outside

LEMMA AtFirst ==
  ASSUME Init PROVE \A p \in Procs : op[p].pc = "idle" /\ op[p].kind = "launch" /\ held[p] = 0
<1>1. op = [p \in Procs |-> Idle] /\ held = [p \in Procs |-> 0]
  BY DEF Init
<1>2. QED BY <1>1 DEF Idle

LEMMA StateIsKept == Spec /\ []LaunchersApart => [](WorkInv /\ SharedInv)
<1>1. Init => WorkInv /\ SharedInv
  BY InitWork, AtFirst DEF SharedInv
<1>2. WorkInv /\ SharedInv /\ LaunchersApart /\ [Next]_vars => (WorkInv /\ SharedInv)'
  BY OneAtATime, NextKeeps, NextShares DEF WorkInv
<1>3. QED BY <1>1, <1>2, PTL DEF Spec

\* Without removals the lock file stays, and who is past it holds it.
HeldInv ==
  /\ \A p \in Procs : op[p].kind # "uninstall"
  /\ \A p \in Procs : op[p].pc \notin {"idle", "lock"} => held[p] = lockFile /\ lockFile # 0
  /\ \A p, q \in Procs : held[p] = held[q] /\ held[p] # 0 => p = q

LEMMA NextHolds ==
  ASSUME TypeInv, HeldInv, "uninstall" \notin Kinds, [Next]_vars PROVE HeldInv'
<1>1. ASSUME NEW p \in Procs, Start(p) PROVE HeldInv'
  <2>1. PICK kind \in Kinds, target \in Versions \cup {None}, base \in Versions \cup {None},
             modify \in BOOLEAN : op'[p] = Begun(kind, target, base, modify)
    BY <1>1, StartIs
  <2>2. (\A q \in Procs \ {p} : op'[q] = op[q]) /\ UNCHANGED <<held, lockFile>>
    BY <1>1, StartIs DEF locks
  <2>3. op'[p].pc = "lock" /\ op'[p].kind # "uninstall"
    BY <2>1 DEF Begun
  <2>4. QED BY <2>2, <2>3 DEF HeldInv
<1>2. ASSUME NEW p \in Procs, Step(p) \/ Fail(p) \/ Crash(p) PROVE HeldInv'
  <2>1. (\A q \in Procs \ {p} : op'[q] = op[q]) /\ op[p].kind # "uninstall"
    BY <1>2, HoldsOrLetsGo DEF HeldInv
  <2>2. CASE Holds(p)
    BY <2>1, <2>2 DEF Holds, HeldInv
  <2>3. CASE LetsGo(p)
    BY <2>1, <2>3 DEF LetsGo, HeldInv, Idle
  <2>4. CASE LockChannel(p)
    <3>1. /\ op'[p].kind = op[p].kind /\ op'[p].pc \in {"locked", "shared"}
          /\ held'[p] = lockFile' /\ \A q \in Procs \ {p} : held'[q] = held[q]
      BY <2>4, LockChannelIs, MovedFields DEF TypeInv
    <3>2. /\ lockFile' # 0 /\ (lockFile # 0 => lockFile' = lockFile)
          /\ \A q \in Procs : held[q] # lockFile'
      BY <2>4, LockChannelIs
    <3>3. QED BY <2>1, <3>1, <3>2 DEF HeldInv
  <2>5. CASE LockIntegrations(p)
    <3>1. /\ op[p].pc = "shared" /\ op'[p].kind = op[p].kind /\ UNCHANGED <<held, lockFile>>
      BY <2>5, LockIntegrationsIs, MovedFields
    <3>2. QED BY <2>1, <3>1 DEF HeldInv
  <2>6. QED BY <1>2, <2>2, <2>3, <2>4, <2>5, HoldsOrLetsGo
<1>3. ASSUME NEW q \in Paths, UserEdits(q) PROVE HeldInv'
  BY <1>3, UserEditsIs DEF HeldInv, locks
<1>4. CASE UNCHANGED vars
  BY <1>4 DEF vars, locks, HeldInv
<1>5. QED BY <1>1, <1>2, <1>3, <1>4 DEF Next

LEMMA HeldIsApart == ASSUME HeldInv PROVE LaunchersApart
  BY DEF HeldInv, LaunchersApart, Working, Outside

\* Where no launcher starts, the only record of one is that of an idle process.
InstallersOnly == \A p \in Procs : op[p].pc # "idle" => op[p].kind # "launch"

LEMMA NextInstalls ==
  ASSUME TypeInv, InstallersOnly, "launch" \notin Kinds, [Next]_vars PROVE InstallersOnly'
<1>1. ASSUME NEW p \in Procs, Start(p) PROVE InstallersOnly'
  <2>1. PICK kind \in Kinds, target \in Versions \cup {None}, base \in Versions \cup {None},
             modify \in BOOLEAN : op'[p] = Begun(kind, target, base, modify)
    BY <1>1, StartIs
  <2>2. op'[p].kind # "launch" /\ \A q \in Procs \ {p} : op'[q] = op[q]
    BY <1>1, <2>1, StartIs DEF Begun
  <2>3. QED BY <2>2 DEF InstallersOnly
<1>2. ASSUME NEW p \in Procs, Step(p) \/ Fail(p) \/ Crash(p) PROVE InstallersOnly'
  <2>1. \A q \in Procs \ {p} : op'[q] = op[q]
    BY <1>2, HoldsOrLetsGo
  <2>2. CASE Holds(p)
    BY <2>1, <2>2 DEF Holds, InstallersOnly
  <2>3. CASE LetsGo(p)
    BY <2>1, <2>3 DEF LetsGo, InstallersOnly, Idle
  <2>4. CASE LockChannel(p) \/ LockIntegrations(p)
    <3>1. op[p].pc \in {"lock", "shared"} /\ op'[p].kind = op[p].kind
      BY <2>4, LockChannelIs, LockIntegrationsIs, MovedFields
    <3>2. QED BY <2>1, <3>1 DEF InstallersOnly
  <2>5. QED BY <1>2, <2>2, <2>3, <2>4, HoldsOrLetsGo
<1>3. ASSUME NEW q \in Paths, UserEdits(q) PROVE InstallersOnly'
  BY <1>3, UserEditsIs DEF InstallersOnly
<1>4. CASE UNCHANGED vars
  BY <1>4 DEF vars, InstallersOnly
<1>5. QED BY <1>1, <1>2, <1>3, <1>4 DEF Next

(* A launcher that recovers a killed installer works alone in every behaviour  *)
(* without removals: install.lock is created once, and one process holds it.   *)
(* It takes a removal that unlinks install.lock for a launcher to work beside  *)
(* an installer; two installers never do.                                      *)
THEOREM LaunchersWorkAlone ==
  ASSUME "uninstall" \notin Kinds \/ "launch" \notin Kinds PROVE Spec => []LaunchersApart
<1>1. CASE "uninstall" \notin Kinds
  <2>1. Init => TypeInv /\ HeldInv
    BY InitTypes, AtFirst DEF HeldInv
  <2>2. TypeInv /\ HeldInv /\ [Next]_vars => (TypeInv /\ HeldInv)'
    BY <1>1, NextTypes, NextHolds
  <2>3. HeldInv => LaunchersApart
    BY HeldIsApart
  <2>4. QED BY <2>1, <2>2, <2>3, PTL DEF Spec
<1>2. CASE "launch" \notin Kinds
  <2>1. Init => TypeInv /\ InstallersOnly
    BY InitTypes, AtFirst DEF InstallersOnly
  <2>2. TypeInv /\ InstallersOnly /\ [Next]_vars => (TypeInv /\ InstallersOnly)'
    BY <1>2, NextTypes, NextInstalls
  <2>3. InstallersOnly => LaunchersApart
    BY DEF InstallersOnly, LaunchersApart, Working, Outside
  <2>4. QED BY <2>1, <2>2, <2>3, PTL DEF Spec
<1>3. QED BY <1>1, <1>2

(* Installs, updates, rollbacks, registrations and removals, crashes and       *)
(* failures at any step: once no transaction is on disk, the integrations are  *)
(* those of installation.json, unless a launcher worked beside an installer.   *)
THEOREM FilesMatchTheReceipt == Spec /\ []LaunchersApart => []FilesMatchReceipt
  BY StateIsKept, MatchesWhenStill, PTL

(* At every instant a launcher script leads to a whole package (the order of   *)
(* install_checked and uninstall), unless a launcher worked beside an          *)
(* installer.                                                                  *)
THEOREM LaunchersLeadToPackages == Spec /\ []LaunchersApart => []LaunchersResolve
<1>1. WorkInv => LaunchersResolve
  BY DEF WorkInv, DiskInv
<1>2. QED BY <1>1, StateIsKept, PTL

(* The application bundle that a transaction displaces is in its place or      *)
(* aside until the journal is gone (swap_bundle, restore_bundle), unless a     *)
(* launcher worked beside an installer.                                        *)
THEOREM DisplacedBundleIsKept == Spec /\ []LaunchersApart => []DisplacedBundleKept
  BY StateIsKept, BundleKept, PTL

-------------------------------------------------------------------------------
(* What the user put at a path.                                                *)

\* What a change writes over the content it was planned from.
Genuine(c) == IF c.path \in Profiles THEN c.after.text = c.before.text ELSE c.before # "foreign"
Unspoilt(c) == disk[c.path] = c.before /\ Genuine(c)

\* What a process looked at, and nobody has edited since, is what it takes it for.
Looked == {"put", "clear", "delete", "strip"}
Looking == {"copy", "journal", "apply", "swap"} \cup Looked

Sees(p, c) == c.path \in Paths \ late[p] =>
  /\ op[p].pc \in {"put", "clear"} => disk[c.path] = c.after
  /\ op[p].pc = "delete" => disk[c.path] = c.before
  /\ op[p].pc = "strip" => disk[c.path].text = c.after.text

LatePhase(p) ==
  /\ op[p].pc \in {"copy", "journal"} => \A c \in Chg(op[p].tx.changes) :
       c.path \in Paths \ late[p] => Unspoilt(c)
  /\ op[p].pc = "apply" => \A c \in Chg(op[p].todo) :
       c.path \in Paths \ late[p] => Unspoilt(c)
  /\ op[p].pc = "swap" => \A c \in Chg(Tail(op[p].todo)) :
       c.path \in Paths \ late[p] => Unspoilt(c)
  /\ op[p].pc \in Looked => Sees(p, Head(op[p].todo))

LateInv == LateTyped /\ \A p \in Procs : LatePhase(p)

LEMMA NotLooking ==
  ASSUME NEW p \in Procs, op'[p].pc \notin Looking PROVE LatePhase(p)'
  BY DEF LatePhase, Looking, Looked

LEMMA WriterWorks ==
  ASSUME TypeInv, NEW p \in Procs, Start(p) \/ Step(p) \/ Fail(p) \/ Crash(p)
  PROVE  \/ disk' = disk
         \/ PutBack(p) \/ TearBundle(p) \/ DropBundle(p) \/ RestoreBundle(p)
         \/ ApplyFile(p) \/ MoveAside(p) \/ ActivateBundle(p)
         \/ StripProfile(p) \/ RemoveOwned(p) \/ RemoveBundle(p)
<1>1. CASE Start(p) \/ Fail(p) \/ Crash(p)
  BY <1>1 DEF Start, Fail, Crash
<1>2. CASE LockChannel(p) \/ LockIntegrations(p) \/ Recover(p) \/ RestoreReceipt(p) \/ ClearUndone(p)
  BY <1>2 DEF LockChannel, LockIntegrations, Recover, RestoreReceipt, ClearUndone
<1>3. CASE Stage(p) \/ PrepareInstall(p) \/ PrepareRegister(p) \/ BackUp(p) \/ WriteJournal(p)
  BY <1>3 DEF Stage, PrepareInstall, PrepareRegister, BackUp, WriteJournal
<1>4. CASE WriteReceipt(p) \/ Verify(p) \/ ClearJournal(p) \/ Finish(p) \/ Preflight(p)
  BY <1>4 DEF WriteReceipt, Verify, ClearJournal, Finish, Preflight
<1>5. CASE TearGeneration(p) \/ DropGeneration(p) \/ RemoveReceipt(p) \/ Unlink(p)
  BY <1>5 DEF TearGeneration, DropGeneration, RemoveReceipt, Unlink
<1>6. CASE FindOurs(p) \/ FindBundle(p) \/ Unregister(p) \/ CheckOwned(p)
  BY <1>6 DEF FindOurs, FindBundle, Unregister, CheckOwned
<1>7. QED BY <1>1, <1>2, <1>3, <1>4, <1>5, <1>6 DEF Step

LEMMA WriterAtWork ==
  ASSUME TypeInv, NEW p \in Procs, Start(p) \/ Step(p) \/ Fail(p) \/ Crash(p)
  PROVE  disk' = disk \/ Working(p)
<1>1. CASE PutBack(p) \/ TearBundle(p) \/ DropBundle(p) \/ RestoreBundle(p)
  BY <1>1 DEF PutBack, TearBundle, DropBundle, RestoreBundle, At, Working, Outside
<1>2. CASE ApplyFile(p) \/ MoveAside(p) \/ ActivateBundle(p)
  BY <1>2 DEF ApplyFile, MoveAside, ActivateBundle, At, Working, Outside
<1>3. CASE StripProfile(p) \/ RemoveOwned(p) \/ RemoveBundle(p)
  BY <1>3 DEF StripProfile, RemoveOwned, RemoveBundle, At, Working, Outside
<1>4. QED BY <1>1, <1>2, <1>3, WriterWorks

LEMMA LateStays ==
  ASSUME NEW p \in Procs, LatePhase(p), op'[p] = op[p], late'[p] = late[p], disk' = disk
  PROVE  LatePhase(p)'
  BY DEF LatePhase, Sees, Unspoilt

\* A plan is made of what is there.
LEMMA PlanIsLate ==
  ASSUME WorkInv, LateInv, NEW p \in Procs, PrepareInstall(p) \/ PrepareRegister(p) \/ BackUp(p)
         \/ WriteJournal(p)
  PROVE  LatePhase(p)'
<1>1. TypeInv
  BY DEF WorkInv
<1>2. ASSUME NEW q \in Profiles
      PROVE  [disk[q] EXCEPT !.block = "yes"].text = disk[q].text
  <2>1. disk[q] \in ProfileTexts
    BY <1>1, Given, PlaceTypes DEF TypeInv
  <2>2. QED BY <2>1 DEF ProfileTexts
<1>3. CASE PrepareInstall(p)
  <2> DEFINE t == op'[p].tx
  <2>1. /\ op'[p].pc = "copy" /\ disk' = disk
        /\ Reaches(t.changes) = Taken \cup IF Registers(p) THEN Unregistered ELSE {}
        /\ \A c \in Chg(t.changes) :
             /\ c.before = disk[c.path]
             /\ c.after = IF c.path \in Profiles THEN [disk[c.path] EXCEPT !.block = "yes"]
                          ELSE t.after.owned[c.path]
    BY <1>1, <1>3, PrepareInstallIs
  <2> HIDE DEF t
  <2>2. ASSUME NEW c \in Chg(t.changes) PROVE Unspoilt(c)'
    <3>1. CASE c.path \in Profiles
      BY <1>2, <2>1, <3>1 DEF Unspoilt, Genuine
    <3>2. CASE c.path \notin Profiles
      <4>1. c.path \in Taken
        BY <2>1, <3>2 DEF Reaches, Unregistered
      <4>2. disk[c.path] \in Versions \cup {"absent", "link"}
        BY <1>1, <4>1, ReceiptIs DEF Taken, Replaceable, Matches
      <4>3. QED BY <2>1, <3>2, <4>2, Given DEF Unspoilt, Genuine
    <3>3. QED BY <3>1, <3>2
  <2>3. QED BY <2>1, <2>2 DEF LatePhase, Looked, t
<1>4. CASE PrepareRegister(p)
  <2>1. /\ op'[p].pc = "copy" /\ disk' = disk
        /\ \A c \in Chg(op'[p].tx.changes) :
             /\ c.before = disk[c.path] /\ c.path \in Profiles
             /\ c.after = [disk[c.path] EXCEPT !.block = "yes"]
    BY <1>1, <1>4, PrepareRegisterIs
  <2>2. \A c \in Chg(op'[p].tx.changes) : Unspoilt(c)'
    BY <1>2, <2>1 DEF Unspoilt, Genuine
  <2>3. QED BY <2>1, <2>2 DEF LatePhase, Looked
<1>5. CASE BackUp(p)
  <2>1. /\ op[p].pc = "copy" /\ op'[p].pc = "journal" /\ disk' = disk /\ late' = late
        /\ \A d \in Chg(op'[p].tx.changes) : \E c \in Chg(op[p].tx.changes) :
             /\ c.path = d.path /\ c.after = d.after
             /\ d.before = IF c.path \in Bundles THEN c.before ELSE disk[c.path]
    BY <1>1, <1>5, BackUpIs DEF BackUp, Still
  <2>2. \A c \in Chg(op[p].tx.changes) : c.path \in Paths \ late[p] => Unspoilt(c)
    BY <2>1 DEF LateInv, LatePhase
  <2>3. ASSUME NEW d \in Chg(op'[p].tx.changes), d.path \in Paths \ late[p]
        PROVE  Unspoilt(d)'
    <3>1. PICK c \in Chg(op[p].tx.changes) :
            /\ c.path = d.path /\ c.after = d.after
            /\ d.before = IF c.path \in Bundles THEN c.before ELSE disk[c.path]
      BY <2>1
    <3>2. Unspoilt(c)
      BY <2>2, <2>3, <3>1
    <3>3. d.before = c.before
      BY <3>1, <3>2 DEF Unspoilt
    <3>4. QED BY <2>1, <3>1, <3>2, <3>3 DEF Unspoilt, Genuine
  <2>4. QED BY <2>1, <2>3 DEF LatePhase, Looked
<1>6. CASE WriteJournal(p)
  <2>1. /\ op[p].pc = "journal" /\ op'[p] = Moved(op[p], "apply", op[p].tx.changes)
        /\ disk' = disk /\ late' = late
    BY <1>1, <1>6, WriteJournalIs DEF WriteJournal
  <2>2. op'[p].pc = "apply" /\ op'[p].todo = op[p].tx.changes
    BY <2>1, MovedFields
  <2>3. \A c \in Chg(op[p].tx.changes) : c.path \in Paths \ late[p] => Unspoilt(c)
    BY <2>1 DEF LateInv, LatePhase
  <2>4. QED BY <2>1, <2>2, <2>3 DEF LatePhase, Unspoilt, Looked
<1>7. QED BY <1>3, <1>4, <1>5, <1>6

\* What is still to be applied is as it was planned.
LEMMA ApplyIsLate ==
  ASSUME WorkInv, LateInv, NEW p \in Procs, ApplyFile(p) \/ MoveAside(p) \/ ActivateBundle(p)
  PROVE  LatePhase(p)'
<1> DEFINE b == Change(p).path
           s == Tail(op[p].todo)
<1>1. /\ op[p].pc \in {"apply", "swap"} /\ op[p].todo # <<>> /\ late' = late
      /\ \A q \in Paths \ {b} : disk'[q] = disk[q]
      /\ \/ op'[p].pc = "apply" /\ op'[p].todo = s
         \/ op'[p].pc = "swap" /\ op'[p].todo = op[p].todo
  <2>0. TypeInv
    BY DEF WorkInv
  <2>1. late' = late
    BY DEF ApplyFile, MoveAside, ActivateBundle
  <2>2. CASE ApplyFile(p)
    BY <2>0, <2>1, <2>2, ApplyFileIs, MovedFields
  <2>3. CASE MoveAside(p)
    BY <2>0, <2>1, <2>3, MoveAsideIs, MovedFields
  <2>4. CASE ActivateBundle(p)
    BY <2>0, <2>1, <2>4, ActivateBundleIs, MovedFields
  <2>5. QED BY <2>2, <2>3, <2>4
<1>2. Chg(op[p].todo) = {Change(p)} \cup Chg(s) /\ op[p].todo \in Seq(TxChange)
  BY <1>1, TodoIs DEF WorkInv
<1>3. Distinct(op[p].todo)
  BY <1>1 DEF WorkInv, Phase, ApplyPhase
<1>4. \A c \in Chg(s) : c.path # b
  BY <1>1, <1>2, <1>3, DistinctTail DEF Change
<1>5. \A c \in Chg(s) : c.path \in Paths \ late[p] => Unspoilt(c)
  BY <1>1, <1>2 DEF LateInv, LatePhase
<1> HIDE DEF b, s
<1>6. \A c \in Chg(s) : c.path \in Paths \ late[p] => Unspoilt(c)'
  BY <1>1, <1>4, <1>5 DEF Unspoilt
<1>7. QED BY <1>1, <1>6 DEF LatePhase, Looked, s

\* What a process finds to be its own is so as long as nobody edits it.
LEMMA LookIsLate ==
  ASSUME WorkInv, NEW p \in Procs, FindOurs(p) \/ FindBundle(p) \/ Unregister(p) \/ CheckOwned(p)
  PROVE  LatePhase(p)'
<1>1. TypeInv
  BY DEF WorkInv
<1>2. CASE FindOurs(p)
  <2>1. /\ disk' = disk
        /\ \/ disk[Change(p).path] = Change(p).after /\ op'[p] = Moved(op[p], "put", op[p].todo)
           \/ op'[p] = Moved(op[p], "undo", Tail(op[p].todo))
    BY <1>1, <1>2, FindOursIs DEF Still
  <2>2. \/ op'[p].pc = "put" /\ op'[p].todo = op[p].todo /\ disk[Change(p).path] = Change(p).after
        \/ op'[p].pc = "undo"
    BY <2>1, MovedFields
  <2>3. QED BY <2>1, <2>2 DEF LatePhase, Looked, Sees, Change
<1>3. CASE FindBundle(p)
  <2>1. /\ disk' = disk
        /\ \/ OursToRemove(Change(p)) /\ op'[p] = Moved(op[p], "clear", op[p].todo)
           \/ op'[p] = Moved(op[p], "restore", op[p].todo)
    BY <1>1, <1>3, FindBundleIs DEF Still
  <2>2. \/ op'[p].pc = "clear" /\ op'[p].todo = op[p].todo /\ disk[Change(p).path] = Change(p).after
        \/ op'[p].pc = "restore"
    BY <2>1, MovedFields DEF OursToRemove
  <2>3. QED BY <2>1, <2>2 DEF LatePhase, Looked, Sees, Change
<1>4. CASE Unregister(p)
  <2>1. /\ disk' = disk
        /\ \/ \E q \in Registered : \E c \in StripChange :
                /\ disk[q] \in ProfileTexts
                /\ c.path = q /\ c.after = [disk[q] EXCEPT !.block = "no"]
                /\ op'[p].pc = "strip" /\ Head(op'[p].todo) = c
           \/ op'[p] = Moved(op[p], "remove", op[p].todo)
    BY <1>1, <1>4, UnregisterIs
  <2>2. CASE op'[p] = Moved(op[p], "remove", op[p].todo)
    BY <2>2, MovedFields, NotLooking DEF Looking, Looked
  <2>3. ASSUME NEW q \in Registered, NEW c \in StripChange,
               /\ disk[q] \in ProfileTexts
               /\ c.path = q /\ c.after = [disk[q] EXCEPT !.block = "no"]
               /\ op'[p].pc = "strip" /\ Head(op'[p].todo) = c
        PROVE  LatePhase(p)'
    <3>1. disk[c.path].text = c.after.text
      BY <2>3 DEF ProfileTexts
    <3>2. QED BY <2>1, <2>3, <3>1 DEF LatePhase, Sees, Looked
  <2>4. QED BY <2>1, <2>2, <2>3
<1>5. CASE CheckOwned(p)
  <2>1. /\ disk' = disk
        /\ \/ op'[p] = Moved(op[p], "remove", Tail(op[p].todo))
           \/ /\ disk[Change(p).path] = Change(p).before
              /\ op'[p] = Moved(op[p], "delete", op[p].todo)
    BY <1>1, <1>5, CheckOwnedIs DEF Still
  <2>2. \/ op'[p].pc = "delete" /\ op'[p].todo = op[p].todo /\ disk[Change(p).path] = Change(p).before
        \/ op'[p].pc = "remove"
    BY <2>1, MovedFields
  <2>3. QED BY <2>1, <2>2 DEF LatePhase, Looked, Sees, Change
<1>6. QED BY <1>2, <1>3, <1>4, <1>5

\* The other steps leave nothing that was looked at.
LEMMA OthersDoNotLook ==
  ASSUME TypeInv, NEW p \in Procs, Start(p) \/ Step(p) \/ Fail(p) \/ Crash(p)
  PROVE  \/ op'[p].pc \notin Looking
         \/ PrepareInstall(p) \/ PrepareRegister(p) \/ BackUp(p) \/ WriteJournal(p)
         \/ ApplyFile(p) \/ MoveAside(p) \/ ActivateBundle(p)
         \/ FindOurs(p) \/ FindBundle(p) \/ Unregister(p) \/ CheckOwned(p)
<1>1. CASE Start(p)
  <2>1. PICK kind \in Kinds, target \in Versions \cup {None}, base \in Versions \cup {None},
             modify \in BOOLEAN : op'[p] = Begun(kind, target, base, modify)
    BY <1>1, StartIs
  <2>2. op'[p].pc = "lock"
    BY <2>1 DEF Begun
  <2>3. QED BY <2>2 DEF Looking, Looked
<1>2. CASE Fail(p) \/ Crash(p) \/ Finish(p) \/ Unlink(p)
  <2>1. op'[p].pc = "undo" \/ op'[p] = Idle
    BY <1>2, FailIs, CrashIs, FinishIs, UnlinkIs
  <2>2. QED BY <2>1 DEF Idle, Looking, Looked
<1>3. CASE LockChannel(p) \/ LockIntegrations(p) \/ Recover(p)
  <2>1. op'[p].pc \in {"shared", "locked", "undo", "ready"} \/ op'[p] = Idle
    BY <1>3, LockChannelIs, LockIntegrationsIs, RecoverIs, MovedFields
  <2>2. QED BY <2>1 DEF Idle, Looking, Looked
<1>4. CASE PutBack(p) \/ TearBundle(p) \/ DropBundle(p) \/ RestoreBundle(p)
  <2>1. op'[p].pc \in {"undo", "tear", "restore"}
    BY <1>4, PutBackIs, TearBundleIs, DropBundleIs, RestoreBundleIs, MovedFields
  <2>2. QED BY <2>1 DEF Looking, Looked
<1>5. CASE RestoreReceipt(p) \/ ClearUndone(p) \/ Stage(p)
  <2>1. op'[p].pc \in {"undone", "locked", "prepare"} \/ op'[p] = Idle
    BY <1>5, RestoreReceiptIs, ClearUndoneIs, StageIs, MovedFields
  <2>2. QED BY <2>1 DEF Idle, Looking, Looked
<1>6. CASE WriteReceipt(p) \/ Verify(p) \/ ClearJournal(p) \/ Preflight(p)
  <2>1. op'[p].pc \in {"commit", "verify", "finish", "unregister"} \/ op'[p] = Idle
    BY <1>6, WriteReceiptIs, VerifyIs, ClearJournalIs, PreflightIs, MovedFields
  <2>2. QED BY <2>1 DEF Idle, Looking, Looked
<1>7. CASE StripProfile(p) \/ RemoveOwned(p) \/ RemoveBundle(p)
  <2>1. op'[p].pc \in {"unregister", "remove", "bundle"}
    BY <1>7, StripProfileIs, RemoveOwnedIs, RemoveBundleIs, MovedFields
  <2>2. QED BY <2>1 DEF Looking, Looked
<1>8. CASE TearGeneration(p) \/ DropGeneration(p) \/ RemoveReceipt(p)
  <2>1. TearGeneration(p) => op'[p].pc = "generation"
    BY TearGenerationIs
  <2>2. DropGeneration(p) => op'[p].pc = "remove"
    BY DropGenerationIs, MovedFields
  <2>3. RemoveReceipt(p) => op'[p].pc = "unlink"
    <3>1. RemoveReceipt(p) => op'[p] = Moved(op[p], "unlink", op[p].todo)
      BY RemoveReceiptIs, Zenon
    <3>2. QED BY <3>1, MovedFields
  <2>4. op'[p].pc \in {"generation", "remove", "unlink"}
    BY <1>8, <2>1, <2>2, <2>3
  <2>5. QED BY <2>4 DEF Looking, Looked
<1>9. QED BY <1>1, <1>2, <1>3, <1>4, <1>5, <1>6, <1>7, <1>8 DEF Step

LEMMA NextLate == ASSUME WorkInv, Apart, LateInv, [Next]_vars PROVE LateInv'
<1>1. TypeInv /\ LateTyped'
  BY NextIsLate DEF WorkInv, LateInv
<1>2. ASSUME NEW p \in Procs, Start(p) \/ Step(p) \/ Fail(p) \/ Crash(p)
      PROVE  \A q \in Procs : LatePhase(q)'
  <2>1. LatePhase(p)'
    BY <1>1, <1>2, OthersDoNotLook, NotLooking, PlanIsLate, ApplyIsLate, LookIsLate
  <2>2. ASSUME NEW q \in Procs, q # p PROVE LatePhase(q)'
    <3>1. op'[q] = op[q]
      BY <1>1, <1>2, <2>2, HoldsOrLetsGo, StartIs
    <3>2. late'[q] = late[q]
      BY <1>2, <2>2, LooksAlone DEF LateInv, LateTyped, Looks
    <3>3. CASE disk' = disk
      BY <3>1, <3>2, <3>3, LateStays DEF LateInv
    <3>4. CASE disk' # disk
      <4>1. Working(p)
        BY <1>1, <1>2, <3>4, WriterAtWork
      <4>2. op'[q].pc \in Outside
        BY <2>2, <3>1, <4>1 DEF Apart, Working
      <4>3. QED BY <4>2, NotLooking DEF Outside, Looking, Looked
    <3>5. QED BY <3>3, <3>4
  <2>3. QED BY <2>1, <2>2
<1>3. ASSUME NEW r \in Paths, UserEdits(r), NEW p \in Procs PROVE LatePhase(p)'
  <2>1. op' = op /\ \A q \in Paths \ {r} : disk'[q] = disk[q]
    BY <1>1, <1>3, UserEditsIs
  <2>2. late'[p] = late[p] \cup {r}
    BY <1>3 DEF UserEdits
  <2>3. \A q \in Paths \ late'[p] : q \in Paths \ late[p] /\ disk'[q] = disk[q]
    BY <2>1, <2>2
  <2>4. \A c : (c.path \in Paths \ late'[p] /\ Unspoilt(c)) => Unspoilt(c)'
    BY <2>3 DEF Unspoilt
  <2>5. \A c : Sees(p, c) => Sees(p, c)'
    BY <2>1, <2>3 DEF Sees
  <2>6. LatePhase(p)
    BY DEF LateInv
  <2>7. QED BY <2>1, <2>3, <2>4, <2>5, <2>6 DEF LatePhase, Sees
<1>4. CASE UNCHANGED vars
  BY <1>1, <1>4, LateStays DEF vars, LateInv
<1>5. QED BY <1>1, <1>2, <1>3, <1>4 DEF Next, LateInv

\* What takes away what the user put somewhere looked there before.
LEMMA OnlyWhatCameLate ==
  ASSUME WorkInv, LateInv, NEW p \in Procs, Start(p) \/ Step(p) \/ Fail(p) \/ Crash(p),
         NEW q \in Paths, Theirs(q), ~Kept(q)
  PROVE  q \in late[p] /\ op'[p] # op[p]
<1>1. TypeInv /\ LatePhase(p)
  BY DEF WorkInv, LateInv
<1>2. disk'[q] # disk[q]
  BY DEF Kept
<1>3. q \notin Profiles => disk[q] = "foreign"
  BY DEF Theirs
<1>4. CASE PutBack(p)
  <2> DEFINE c == Change(p)
             t == journal
  <2>1. /\ op'[p] = Moved(op[p], "undo", Tail(op[p].todo))
        /\ op[p].pc = "put" /\ op[p].todo # <<>> /\ c.path \in Plain
        /\ \A r \in Paths \ {c.path} : disk'[r] = disk[r]
        /\ disk'[c.path] = c.before
    BY <1>1, <1>4, PutBackIs
  <2>2. q = c.path /\ op'[p].pc = "undo"
    BY <1>2, <2>1, MovedFields
  <2>3. /\ t = op[p].tx /\ SoundTx(t) /\ Underway = t.changes
    BY <2>1, UnderwayIs DEF Backward
  <2>4. c \in TxChange /\ c \in Chg(t.changes)
    BY <1>1, <2>1, <2>3, TodoIs
  <2>5. SoundChange(c, t) /\ (c.path \notin touched => SameText(c))
    BY <2>1, <2>3, <2>4 DEF SoundTx, WorkInv, DiskInv, BackedUp
  <2>6. q \notin late[p] => disk[q] = c.after
    BY <1>1, <2>1, <2>2 DEF LatePhase, Looked, Sees, Change
  <2> HIDE DEF c
  <2>7. q \in late[p]
    <3>1. SUFFICES ASSUME disk[q] = c.after PROVE FALSE
      BY <2>6
    <3>2. CASE q \in Profiles
      <4>1. c.after.text # c.before.text /\ (q \notin touched \/ c.after.text = "edited")
        BY <2>1, <2>2, <3>1, <3>2 DEF Kept, Theirs
      <4>2. QED BY <2>2, <2>5, <3>2, <4>1 DEF SoundChange, SameText
    <3>3. CASE q \notin Profiles
      BY <1>3, <2>2, <2>5, <3>1, <3>3, Given DEF SoundChange
    <3>4. QED BY <3>2, <3>3
  <2>8. QED BY <2>1, <2>2, <2>7
<1>5. CASE TearBundle(p)
  <2>1. /\ op[p].pc = "clear" /\ op[p].todo # <<>> /\ Change(p).path \in Bundles
        /\ \A r \in Paths \ {Change(p).path} : disk'[r] = disk[r]
        /\ op'[p] = Moved(op[p], "tear", op[p].todo)
    BY <1>1, <1>5, TearBundleIs
  <2>2. q = Change(p).path /\ op'[p].pc = "tear"
    BY <1>2, <2>1, MovedFields
  <2>3. Change(p) \in TxChange
    BY <1>1, <2>1, TodoIs
  <2>4. q \notin Profiles /\ Change(p).after \in Versions
    BY <2>1, <2>2, <2>3, Given DEF TxChange
  <2>5. q \notin late[p] => disk[q] = Change(p).after
    BY <1>1, <2>1, <2>2 DEF LatePhase, Looked, Sees, Change
  <2>6. QED BY <1>3, <2>1, <2>2, <2>4, <2>5, Given
<1>6. CASE DropBundle(p)
  <2>1. /\ Change(p).path \in Bundles /\ disk[Change(p).path] = "torn"
        /\ \A r \in Paths \ {Change(p).path} : disk'[r] = disk[r]
    BY <1>1, <1>6, DropBundleIs
  <2>2. QED BY <1>2, <1>3, <2>1, Given
<1>7. CASE RestoreBundle(p)
  <2>1. /\ Change(p).path \in Bundles
        /\ disk[Change(p).path] = "absent" \/ disk' = disk
        /\ \A r \in Paths \ {Change(p).path} : disk'[r] = disk[r]
    BY <1>1, <1>7, RestoreBundleIs
  <2>2. QED BY <1>2, <1>3, <2>1, Given
<1>8. CASE ApplyFile(p)
  <2>1. /\ op'[p] = Moved(op[p], "apply", Tail(op[p].todo))
        /\ op[p].pc = "apply" /\ op[p].todo # <<>>
        /\ \A r \in Paths \ {Change(p).path} : disk'[r] = disk[r]
        /\ disk'[Change(p).path] = Change(p).after
    BY <1>1, <1>8, ApplyFileIs
  <2>2. q = Change(p).path /\ op'[p].todo = Tail(op[p].todo)
    BY <1>2, <2>1, MovedFields
  <2>3. Change(p) \in Chg(op[p].todo) /\ op[p].todo \in Seq(TxChange)
    BY <1>1, <2>1, TodoIs
  <2>4. ASSUME q \notin late[p] PROVE FALSE
    <3>1. disk[q] = Change(p).before /\ Genuine(Change(p))
      BY <1>1, <2>1, <2>2, <2>3, <2>4 DEF LatePhase, Unspoilt
    <3>2. CASE q \in Profiles
      BY <2>1, <2>2, <3>1, <3>2 DEF Genuine, Kept
    <3>3. CASE q \notin Profiles
      BY <1>3, <2>2, <3>1, <3>3 DEF Genuine
    <3>4. QED BY <3>2, <3>3
  <2>5. Tail(op[p].todo) # op[p].todo
    <3> DEFINE s == op[p].todo
    <3>1. Len(s) \in Nat \ {0} /\ DOMAIN Tail(s) = 1 .. Len(s) - 1
      BY <2>1, <2>3, TailOf
    <3>2. DOMAIN s = 1 .. Len(s)
      BY <2>3, LenProperties
    <3> HIDE DEF s
    <3>3. Len(s) \in DOMAIN s /\ Len(s) \notin DOMAIN Tail(s)
      BY <3>1, <3>2
    <3>4. QED BY <3>3 DEF s
  <2>6. QED BY <2>2, <2>4, <2>5
<1>9. CASE MoveAside(p)
  <2>1. /\ op'[p] = Moved(op[p], "swap", op[p].todo)
        /\ op[p].pc = "apply" /\ op[p].todo # <<>> /\ Change(p).path \in Bundles
        /\ \A r \in Paths \ {Change(p).path} : disk'[r] = disk[r]
    BY <1>1, <1>9, MoveAsideIs
  <2>2. q = Change(p).path /\ op'[p].pc = "swap" /\ q \notin Profiles
    BY <1>2, <2>1, MovedFields, Given
  <2>3. Change(p) \in Chg(op[p].todo)
    BY <1>1, <2>1, TodoIs
  <2>4. q \notin late[p] => disk[q] = Change(p).before /\ Genuine(Change(p))
    BY <1>1, <2>1, <2>2, <2>3 DEF LatePhase, Unspoilt
  <2>5. QED BY <1>3, <2>1, <2>2, <2>4 DEF Genuine
<1>10. CASE ActivateBundle(p)
  <2>1. /\ Change(p).path \in Bundles /\ disk[Change(p).path] = "absent"
        /\ \A r \in Paths \ {Change(p).path} : disk'[r] = disk[r]
    BY <1>1, <1>10, ActivateBundleIs
  <2>2. QED BY <1>2, <1>3, <2>1, Given
<1>11. CASE StripProfile(p)
  <2>1. /\ op[p].pc = "strip" /\ Change(p).path \in Profiles
        /\ \A r \in Paths \ {Change(p).path} : disk'[r] = disk[r]
        /\ disk'[Change(p).path] = Change(p).after
        /\ op'[p] = Moved(op[p], "unregister", Tail(op[p].todo))
    BY <1>1, <1>11, StripProfileIs
  <2>2. q = Change(p).path /\ op'[p].pc = "unregister"
    BY <1>2, <2>1, MovedFields
  <2>3. q \notin late[p] => disk[q].text = Change(p).after.text
    BY <1>1, <2>1, <2>2 DEF LatePhase, Looked, Sees, Change
  <2>4. disk'[q].text = Change(p).after.text
    BY <2>1, <2>2
  <2>5. QED BY <2>1, <2>2, <2>3, <2>4 DEF Kept
<1>12. CASE RemoveOwned(p)
  <2>1. /\ op[p].pc = "delete" /\ op[p].todo # <<>> /\ Change(p) \in RemovalChange
        /\ \A r \in Paths \ {Change(p).path} : disk'[r] = disk[r]
        /\ op'[p] = Moved(op[p], "remove", Tail(op[p].todo))
           \/ op'[p] = Moved(op[p], "bundle", op[p].todo)
    BY <1>1, <1>12, RemoveOwnedIs
  <2>2. q = Change(p).path /\ op'[p].pc \in {"remove", "bundle"}
    BY <1>2, <2>1, MovedFields
  <2>3. q \notin Profiles /\ Change(p).before \in Versions
    BY <2>1, <2>2, Given DEF RemovalChange
  <2>4. q \notin late[p] => disk[q] = Change(p).before
    BY <1>1, <2>1, <2>2 DEF LatePhase, Looked, Sees, Change
  <2>5. QED BY <1>3, <2>1, <2>2, <2>3, <2>4, Given
<1>13. CASE RemoveBundle(p)
  <2>1. /\ Change(p).path \in Bundles /\ disk[Change(p).path] = "torn"
        /\ \A r \in Paths \ {Change(p).path} : disk'[r] = disk[r]
    BY <1>1, <1>13, RemoveBundleIs
  <2>2. QED BY <1>2, <1>3, <2>1, Given
<1>14. QED
  BY <1>1, <1>2, <1>4, <1>5, <1>6, <1>7, <1>8, <1>9, <1>10, <1>11, <1>12, <1>13, WriterWorks

(* What the user put at a path is only ever changed by a process that looked   *)
(* at the path before it was there, in the window between its check and its    *)
(* write (install_checked, recover, remove_path_registration, remove_owned),   *)
(* unless a launcher worked beside an installer.                               *)
THEOREM ForeignContentIsKept == Spec /\ []LaunchersApart => ForeignContentKept
<1>1. Init => LateInv
  <2>1. ASSUME Init PROVE LateInv
    <3>1. LateTyped
      BY <2>1 DEF Init, LateTyped
    <3>2. \A p \in Procs : LatePhase(p)
      BY <2>1, AtFirst DEF LatePhase, Looked
    <3>3. QED BY <3>1, <3>2 DEF LateInv
  <2>2. QED BY <2>1
<1>2. WorkInv /\ SharedInv /\ LaunchersApart /\ LateInv /\ [Next]_vars => LateInv'
  BY OneAtATime, NextLate
<1>3. WorkInv /\ LateInv /\ [Next]_vars =>
        [\A q \in Paths : Theirs(q) /\ edits' = edits /\ ~Kept(q) =>
           \E p \in Procs : q \in late[p] /\ op'[p] # op[p]]_vars
  <2>1. ASSUME WorkInv, LateInv, Next, NEW q \in Paths, Theirs(q), edits' = edits, ~Kept(q)
        PROVE  \E p \in Procs : q \in late[p] /\ op'[p] # op[p]
    <3>1. ASSUME NEW p \in Procs, Start(p) \/ Step(p) \/ Fail(p) \/ Crash(p)
          PROVE  q \in late[p] /\ op'[p] # op[p]
      BY <2>1, <3>1, OnlyWhatCameLate
    <3>2. ASSUME NEW r \in Paths, UserEdits(r) PROVE FALSE
      BY <2>1, <3>2, UserEditsIs DEF WorkInv
    <3>3. QED BY <2>1, <3>1, <3>2 DEF Next
  <2>2. QED BY <2>1
<1>4. QED BY <1>1, <1>2, <1>3, StateIsKept, PTL DEF Spec, ForeignContentKept

-------------------------------------------------------------------------------
(* The installer keeps its promise.                                            *)

\* What is in force with a receipt, and what an operation is still to do.
View(r) == IF r = None THEN None
           ELSE [active |-> r.active, previous |-> r.previous, path |-> r.path]

Wish(o) ==
  IF \/ o.kind = "launch" \/ o.pc \in {"idle", "finish", "unlink"}
     \/ o.then = "stop" /\ o.pc \in Backward
  THEN None
  ELSE [kind |-> o.kind, base |-> o.base, modify |-> o.modify,
        target |-> IF o.kind = "uninstall" THEN None ELSE o.target]

Promised == [Promise!Next]_<<InForce, Asked>>

LEMMA PromiseIs ==
  /\ InForce = View(Base) /\ Asked = [p \in Procs |-> Wish(op[p])]
  /\ InForce' = View(Base') /\ Asked' = [p \in Procs |-> Wish(op'[p])]
  BY DEF InForce, Asked, View, Base, Wish, Backward

LEMMA NoWish ==
  /\ \A r \in Receipts : r # None /\ View(r) # None
  /\ \A o \in Op : Wish(o) \in Promise!Wishes \cup {None}
  /\ \A o \in Op : Wish(o) = None <=> \/ o.kind = "launch" \/ o.pc \in {"idle", "finish", "unlink"}
                                      \/ o.then = "stop" /\ o.pc \in Backward
<1>1. ASSUME NEW r \in Receipts PROVE r # None /\ View(r) # None
  <2>1. r # None
    BY NoneIsNothing
  <2>2. [active |-> r.active, previous |-> r.previous, path |-> r.path] \in Promise!Views
    BY DEF Receipts, Promise!Views
  <2>3. QED BY <2>1, <2>2, NoneIsNothing DEF View
<1>2. ASSUME NEW o \in Op, o.kind # "launch"
      PROVE  [kind |-> o.kind, base |-> o.base, modify |-> o.modify,
              target |-> IF o.kind = "uninstall" THEN None ELSE o.target] \in Promise!Wishes
  BY <1>2 DEF Op, OpRecord, Activating, Promise!Wishes
<1>3. QED BY <1>1, <1>2, NoneIsNothing DEF Wish

\* A step that leaves what is in force, and at most drops the wish of its process.
LEMMA KeepsOrGivesUp ==
  ASSUME TypeInv, NEW p \in Procs, \A q \in Procs \ {p} : op'[q] = op[q],
         View(Base') = View(Base), Wish(op'[p]) \in {Wish(op[p]), None}
  PROVE  Promised
<1>1. InForce' = InForce
  BY PromiseIs
<1>2. Asked' = Asked \/ (Asked[p] # None /\ Asked' = [Asked EXCEPT ![p] = None])
  BY PromiseIs
<1>3. QED BY <1>1, <1>2 DEF Promised, Promise!Next, Promise!GiveUp, Promise!Got

\* Moving on does not change the wish.
LEMMA MovedWish ==
  ASSUME NEW o, NEW x, NEW l, o.pc \notin {"idle", "finish", "unlink"} \cup Backward,
         x \notin {"idle", "finish", "unlink"} \cup Backward
  PROVE  Wish(Moved(o, x, l)) = Wish(o)
  BY MovedFields DEF Wish

LEMMA MovedBackward ==
  ASSUME NEW o, NEW x, NEW l, o.pc \in Backward, x \in Backward
  PROVE  Wish(Moved(o, x, l)) = Wish(o)
  BY MovedFields DEF Wish, Backward

\* A step of a process that leaves the receipt and the journal.
LEMMA SameInForce ==
  ASSUME receipt' = receipt, journal' = journal PROVE View(Base') = View(Base)
  BY DEF Base

LEMMA StartPromised == ASSUME TypeInv, NEW p \in Procs, Start(p) PROVE Promised
<1>1. PICK kind \in Kinds, target \in Versions \cup {None}, base \in Versions \cup {None},
           modify \in BOOLEAN : op'[p] = Begun(kind, target, base, modify)
  BY StartIs
<1>2. op[p].pc = "idle" /\ op' \in [Procs -> Op] /\ \A q \in Procs \ {p} : op'[q] = op[q]
  BY StartIs
<1>3. View(Base') = View(Base)
  BY StartIs, SameInForce DEF installation
<1>4. Wish(op[p]) = None /\ Wish(op'[p]) \in Promise!Wishes \cup {None}
  BY <1>2, NoWish DEF TypeInv
<1>5. CASE Wish(op'[p]) = None
  BY <1>2, <1>3, <1>5, KeepsOrGivesUp
<1>6. CASE Wish(op'[p]) \in Promise!Wishes
  <2>1. InForce' = InForce /\ Asked[p] = None /\ Asked'[p] \in Promise!Wishes
    BY <1>3, <1>4, <1>6, PromiseIs
  <2>2. Asked' = [Asked EXCEPT ![p] = Asked'[p]]
    BY <1>2, PromiseIs
  <2>3. QED BY <2>1, <2>2 DEF Promised, Promise!Next, Promise!Ask
<1>7. QED BY <1>4, <1>5, <1>6

\* A step that goes on towards the same wish.
LEMMA GoesOn ==
  ASSUME TypeInv, NEW p \in Procs, \A q \in Procs \ {p} : op'[q] = op[q],
         View(Base') = View(Base), NEW x, NEW l, op'[p] = Moved(op[p], x, l),
         \/ op[p].pc \notin {"idle", "finish", "unlink"} \cup Backward
            /\ x \notin {"idle", "finish", "unlink"} \cup Backward
         \/ op[p].pc \in Backward /\ x \in Backward
  PROVE  Promised
  BY MovedWish, MovedBackward, KeepsOrGivesUp

LEMMA IdleWish == Wish(Idle) = None
  BY DEF Wish, Idle

\* A step that lets go of everything.
LEMMA GivesUp ==
  ASSUME TypeInv, NEW p \in Procs, \A q \in Procs \ {p} : op'[q] = op[q],
         View(Base') = View(Base), op'[p] = Idle
  PROVE  Promised
  BY IdleWish, KeepsOrGivesUp

LEMMA RecoverPromised == ASSUME TypeInv, NEW p \in Procs, Recover(p) PROVE Promised
<1>1. /\ View(Base') = View(Base) /\ op[p].pc = "locked" /\ \A q \in Procs \ {p} : op'[q] = op[q]
  BY RecoverIs, SameInForce DEF Still, installation
<1>2. CASE /\ op'[p].kind = op[p].kind /\ op'[p].pc = "undo" /\ op'[p].target = op[p].target
           /\ op'[p].base = op[p].base /\ op'[p].modify = op[p].modify /\ op'[p].then = "go"
  <2>1. Wish(op'[p]) = Wish(op[p])
    BY <1>1, <1>2 DEF Wish, Backward
  <2>2. QED BY <1>1, <2>1, KeepsOrGivesUp
<1>3. CASE op'[p] = Idle
  BY <1>1, <1>3, GivesUp
<1>4. CASE op'[p] = Moved(op[p], "ready", op[p].todo)
  BY <1>1, <1>4, GoesOn DEF Backward
<1>5. QED BY <1>2, <1>3, <1>4, RecoverIs

\* The steps of an undo, of a staging and of a transaction that leave receipt and journal.
LEMMA QuietPromised ==
  ASSUME TypeInv, NEW p \in Procs,
         \/ LockChannel(p) \/ LockIntegrations(p)
         \/ FindOurs(p) \/ PutBack(p) \/ FindBundle(p)
         \/ TearBundle(p) \/ DropBundle(p) \/ RestoreBundle(p)
         \/ Stage(p) \/ ApplyFile(p) \/ MoveAside(p) \/ ActivateBundle(p) \/ Verify(p)
         \/ StripProfile(p) \/ CheckOwned(p) \/ RemoveOwned(p) \/ RemoveBundle(p)
         \/ DropGeneration(p)
  PROVE  Promised
<1> DEFINE Quiet ==
      /\ \A q \in Procs \ {p} : op'[q] = op[q]
      /\ receipt' = receipt /\ journal' = journal
      /\ \E x, l :
           /\ op'[p] = Moved(op[p], x, l)
           /\ \/ op[p].pc \notin {"idle", "finish", "unlink"} \cup Backward
                 /\ x \notin {"idle", "finish", "unlink"} \cup Backward
              \/ op[p].pc \in Backward /\ x \in Backward
<1>1. CASE LockChannel(p) \/ LockIntegrations(p) \/ Stage(p)
  <2>1. Quiet
    BY <1>1, LockChannelIs, LockIntegrationsIs, StageIs DEF Backward, Still, installation
  <2>2. QED BY <2>1, SameInForce, GoesOn
<1>2. CASE FindOurs(p) \/ PutBack(p) \/ FindBundle(p)
  <2>1. Quiet
    BY <1>2, FindOursIs, PutBackIs, FindBundleIs DEF Backward, Still, installation
  <2>2. QED BY <2>1, SameInForce, GoesOn
<1>3. CASE TearBundle(p) \/ DropBundle(p) \/ RestoreBundle(p)
  <2>1. Quiet
    BY <1>3, TearBundleIs, DropBundleIs, RestoreBundleIs DEF Backward, Still, installation
  <2>2. QED BY <2>1, SameInForce, GoesOn
<1>4. CASE ApplyFile(p) \/ MoveAside(p) \/ ActivateBundle(p) \/ Verify(p)
  <2>1. Quiet
    BY <1>4, ApplyFileIs, MoveAsideIs, ActivateBundleIs, VerifyIs DEF Backward, Still, installation
  <2>2. QED BY <2>1, SameInForce, GoesOn
<1>5. CASE StripProfile(p) \/ CheckOwned(p)
  <2>1. Quiet
    BY <1>5, StripProfileIs, CheckOwnedIs DEF Backward, Still, installation
  <2>2. QED BY <2>1, SameInForce, GoesOn
<1>6. CASE RemoveOwned(p) \/ RemoveBundle(p) \/ DropGeneration(p)
  <2>1. Quiet
    BY <1>6, RemoveOwnedIs, RemoveBundleIs, DropGenerationIs DEF Backward, Still, installation
  <2>2. QED BY <2>1, SameInForce, GoesOn
<1>7. QED BY <1>1, <1>2, <1>3, <1>4, <1>5, <1>6

\* The steps that plan a transaction or a removal, or take a package out.
LEMMA PlanPromised ==
  ASSUME TypeInv, NEW p \in Procs,
         \/ PrepareInstall(p) \/ PrepareRegister(p) \/ BackUp(p)
         \/ Preflight(p) \/ TearGeneration(p)
  PROVE  Promised
<1>1. \A q \in Procs \ {p} : op'[q] = op[q]
  BY PrepareInstallIs, PrepareRegisterIs, BackUpIs, PreflightIs, TearGenerationIs
<1>2. receipt' = receipt /\ journal' = journal
  BY PrepareInstallIs, PrepareRegisterIs, BackUpIs, PreflightIs, TearGenerationIs
     DEF Still, installation
<1>3. /\ op'[p].kind = op[p].kind /\ op'[p].base = op[p].base /\ op'[p].modify = op[p].modify
      /\ op[p].pc \in {"ready", "prepare", "copy", "remove"}
      /\ op'[p].pc \in {"copy", "journal", "unregister", "generation"}
      /\ op[p].kind = "uninstall" \/ op'[p].target = op[p].target
  <2>1. TearGeneration(p) => op[p].kind = "uninstall"
    BY TearGenerationIs, Here DEF Placed, Removing
  <2>2. CASE PrepareInstall(p)
    BY <2>2, PrepareInstallIs
  <2>3. CASE PrepareRegister(p)
    BY <2>3, PrepareRegisterIs
  <2>4. CASE Preflight(p)
    BY <2>4, PreflightIs
  <2>5. CASE TearGeneration(p)
    BY <2>1, <2>5, TearGenerationIs
  <2>7. CASE BackUp(p)
    BY <2>7, BackUpIs
  <2>6. QED BY <2>2, <2>3, <2>4, <2>5, <2>7
<1>4. Wish(op'[p]) = Wish(op[p])
  BY <1>3 DEF Wish, Backward
<1>5. QED BY <1>1, <1>2, <1>4, SameInForce, KeepsOrGivesUp

LEMMA UnregisterPromised == ASSUME TypeInv, NEW p \in Procs, Unregister(p) PROVE Promised
<1>1. /\ op[p].pc = "unregister" /\ receipt' = receipt /\ journal' = journal
      /\ \A q \in Procs \ {p} : op'[q] = op[q]
      /\ op'[p].kind = op[p].kind /\ op'[p].target = op[p].target
      /\ op'[p].base = op[p].base /\ op'[p].modify = op[p].modify
      /\ op'[p].pc = "strip" \/ op'[p] = Moved(op[p], "remove", op[p].todo)
  BY UnregisterIs DEF installation
<1>2. op'[p].pc \in {"strip", "remove"}
  BY <1>1, MovedFields
<1>4. Wish(op'[p]) = Wish(op[p])
  BY <1>1, <1>2 DEF Wish, Backward
<1>3. QED BY <1>1, <1>4, SameInForce, KeepsOrGivesUp

LEMMA WriteJournalPromised == ASSUME WorkInv, NEW p \in Procs, WriteJournal(p) PROVE Promised
<1>1. /\ op[p].pc = "journal" /\ op[p].tx \in Tx /\ journal' = op[p].tx /\ receipt' = receipt
      /\ op'[p] = Moved(op[p], "apply", op[p].tx.changes) /\ \A q \in Procs \ {p} : op'[q] = op[q]
  BY WriteJournalIs DEF WorkInv
<1>2. op[p].tx.before = receipt /\ journal = None
  BY <1>1 DEF WorkInv, Phase, PlanPhase, JournalPhase, Between
<1>3. Base' = Base
  BY <1>1, <1>2, TxIsTransaction DEF Base
<1>4. QED BY <1>1, <1>3, GoesOn DEF WorkInv, Backward

LEMMA ReceiptPromised ==
  ASSUME WorkInv, NEW p \in Procs, WriteReceipt(p) \/ RestoreReceipt(p) PROVE Promised
<1>1. op[p].pc \in {"apply", "undo"} /\ journal' = journal /\ \A q \in Procs \ {p} : op'[q] = op[q]
  BY WriteReceiptIs, RestoreReceiptIs DEF WorkInv
<1>2. journal # None
  BY <1>1, UnderwayIs DEF Forward, Backward
<1>3. Base' = Base
  BY <1>1, <1>2 DEF Base
<1>4. CASE WriteReceipt(p)
  <2>1. PICK x \in {"commit", "verify"} : op'[p] = Moved(op[p], x, op[p].todo)
    BY <1>4, WriteReceiptIs DEF WorkInv
  <2>2. op[p].pc = "apply"
    BY <1>4, WriteReceiptIs DEF WorkInv
  <2>3. QED BY <1>1, <1>3, <2>1, <2>2, GoesOn DEF WorkInv, Backward
<1>5. CASE RestoreReceipt(p)
  BY <1>1, <1>3, <1>5, RestoreReceiptIs, GoesOn DEF WorkInv, Backward
<1>6. QED BY <1>4, <1>5

LEMMA ClearUndonePromised == ASSUME WorkInv, NEW p \in Procs, ClearUndone(p) PROVE Promised
<1>1. /\ op[p].pc = "undone" /\ journal' = None /\ receipt' = receipt
      /\ \A q \in Procs \ {p} : op'[q] = op[q]
      /\ \/ op[p].then = "go" /\ op'[p] = Moved(op[p], "locked", op[p].todo)
         \/ op'[p] = Idle
  BY ClearUndoneIs DEF WorkInv
<1>2. Base' = Base
  <2>1. receipt = op[p].tx.before
    BY <1>1 DEF WorkInv, Phase, UndoPhase
  <2>2. Base = journal.before /\ journal = op[p].tx
    BY <1>1, UnderwayIs DEF Backward
  <2>3. QED BY <1>1, <2>1, <2>2 DEF Base
<1>3. Wish(op'[p]) \in {Wish(op[p]), None}
  <2>1. CASE op[p].then = "go" /\ op'[p] = Moved(op[p], "locked", op[p].todo)
    BY <1>1, <2>1, MovedFields DEF Wish, Backward
  <2>2. CASE op'[p] = Idle
    BY <2>2, IdleWish
  <2>3. QED BY <1>1, <2>1, <2>2
<1>4. QED BY <1>1, <1>2, <1>3, KeepsOrGivesUp DEF WorkInv

\* When the journal goes, what it was for is in force.
LEMMA ClearJournalPromised == ASSUME WorkInv, NEW p \in Procs, ClearJournal(p) PROVE Promised
<1>1. /\ op[p].pc = "commit" /\ journal' = None /\ receipt' = receipt
      /\ \A q \in Procs \ {p} : op'[q] = op[q]
      /\ \/ op[p].kind = "register" /\ op'[p] = Idle
         \/ op[p].kind \in Activating /\ op'[p] = Moved(op[p], "finish", op[p].todo)
  BY ClearJournalIs DEF WorkInv
<1>2. PICK t : t = op[p].tx
  OBVIOUS
<1>3. t \in Tx /\ t.after \in Receipts /\ (t.before = None \/ t.before \in Receipts)
  BY <1>1, <1>2, UnderwayIs DEF Forward, Tx
<1>4. receipt = t.after /\ Base = t.before
  BY <1>1, <1>2, UnderwayIs DEF WorkInv, Phase, ApplyPhase, Forward
<1>5. InForce = View(t.before) /\ InForce' = View(t.after)
  BY <1>1, <1>4, PromiseIs DEF Base
<1>6. Wish(op'[p]) = None
  BY <1>1, IdleWish, MovedFields DEF Wish
<1>7. Asked' = [Asked EXCEPT ![p] = None]
  BY <1>1, <1>6, PromiseIs
<1>8. /\ Asked[p] = [kind |-> op[p].kind, base |-> op[p].base, modify |-> op[p].modify,
                     target |-> op[p].target]
      /\ Asked[p] # None
  <2>1. op[p].kind \in Activating \cup {"register"}
    BY <1>1
  <2>2. Wish(op[p]) # None
    BY <1>1, <2>1, NoWish DEF WorkInv, TypeInv, Backward, Activating
  <2>3. QED BY <1>1, <2>1, <2>2, PromiseIs DEF Wish, Backward, Activating
<1>9. CASE op[p].kind = "register"
  <2>1. t.before # None /\ t.after = [t.before EXCEPT !.path = TRUE]
    BY <1>1, <1>2, <1>9 DEF WorkInv, Phase, RequestPhase, Forward
  <2>2. /\ t.after.active = t.before.active /\ t.after.previous = t.before.previous
        /\ t.after.path = TRUE
    BY <1>3, <2>1 DEF Receipts
  <2>3. /\ View(t.after) \in Promise!Views /\ View(t.before) \in Promise!Views
        /\ View(t.before) # None
        /\ View(t.after).active = View(t.before).active
        /\ View(t.after).previous = View(t.before).previous
        /\ View(t.after).path = TRUE
    BY <1>3, <2>1, <2>2, NoWish DEF View, Receipts, Promise!Views
  <2>4. \A v, w \in Promise!Views :
          w.active = v.active /\ w.previous = v.previous /\ w.path = TRUE =>
            w = [v EXCEPT !.path = TRUE]
    BY DEF Promise!Views
  <2>5. View(t.after) = [View(t.before) EXCEPT !.path = TRUE]
    BY <2>3, <2>4
  <2>6. InForce' = [InForce EXCEPT !.path = TRUE] /\ InForce # None
    BY <1>5, <2>3, <2>5
  <2>7. Asked[p].kind = "register"
    BY <1>8, <1>9
  <2>8. Promise!Register(p)
    BY <1>7, <1>8, <2>6, <2>7 DEF Promise!Register, Promise!Got
  <2>9. QED BY <2>8 DEF Promised, Promise!Next
<1>10. CASE op[p].kind \in Activating
  <2>1. /\ t.after.active = op[p].target
        /\ t.after.previous = IF t.before = None THEN None
                              ELSE IF t.before.active = op[p].target THEN t.before.previous
                              ELSE t.before.active
        /\ t.after.path = (op[p].modify \/ (t.before # None /\ t.before.path))
        /\ op[p].kind = "update" => t.before # None /\ t.before.active = op[p].base
    BY <1>1, <1>2, <1>10 DEF WorkInv, Phase, RequestPhase, Forward, Activating
  <2>2. View(t.after) = [active |-> t.after.active, previous |-> t.after.previous,
                         path |-> t.after.path]
    BY <1>3, NoWish DEF View
  <2>3. /\ t.before = None => View(t.before) = None
        /\ t.before # None => /\ View(t.before) # None
                              /\ View(t.before).active = t.before.active
                              /\ View(t.before).previous = t.before.previous
                              /\ View(t.before).path = t.before.path
    BY <1>3, NoWish DEF View
  <2>4. t.after.previous = Promise!Displacing(Asked[p].target, InForce)
    BY <1>5, <1>8, <2>1, <2>3 DEF Promise!Displacing
  <2>5. t.after.path = (Asked[p].modify \/ (InForce # None /\ InForce.path))
    BY <1>5, <1>8, <2>1, <2>3
  <2>6. InForce' = [active |-> Asked[p].target,
                    previous |-> Promise!Displacing(Asked[p].target, InForce),
                    path |-> Asked[p].modify \/ (InForce # None /\ InForce.path)]
    BY <1>5, <1>8, <2>1, <2>2, <2>4, <2>5
  <2>7. Asked[p].kind = "update" => InForce # None /\ InForce.active = Asked[p].base
    BY <1>5, <1>8, <2>1, <2>3
  <2>8. Asked[p].kind \in {"install", "update", "rollback"}
    BY <1>8, <1>10 DEF Activating
  <2>9. QED BY <1>7, <1>8, <2>6, <2>7, <2>8 DEF Promised, Promise!Next, Promise!Activate, Promise!Got
<1>11. QED BY <1>1, <1>9, <1>10

\* When the receipt of a removal goes, nothing is in force.
LEMMA RemoveReceiptPromised == ASSUME WorkInv, NEW p \in Procs, RemoveReceipt(p) PROVE Promised
<1>1. /\ op[p].pc = "remove" /\ op[p].kind = "uninstall" /\ receipt' = None /\ journal' = journal
      /\ op'[p] = Moved(op[p], "unlink", op[p].todo) /\ \A q \in Procs \ {p} : op'[q] = op[q]
  BY RemoveReceiptIs DEF WorkInv
<1>2. journal = None /\ receipt # None /\ receipt \in Receipts
  BY <1>1, NothingUnderway DEF WorkInv, Phase, RemovePhase, TypeInv, Removing
<1>3. InForce # None /\ InForce' = None
  BY <1>1, <1>2, PromiseIs, NoWish DEF Base, View
<1>4. Wish(op'[p]) = None
  BY <1>1, MovedFields DEF Wish
<1>5. Asked' = [Asked EXCEPT ![p] = None]
  BY <1>1, <1>4, PromiseIs
<1>6. Asked[p] # None /\ Asked[p].kind = "uninstall"
  <2>1. Wish(op[p]) # None
    BY <1>1, NoWish DEF WorkInv, TypeInv, Backward
  <2>2. QED BY <1>1, <2>1, PromiseIs DEF Wish
<1>7. QED BY <1>3, <1>5, <1>6 DEF Promised, Promise!Next, Promise!Remove, Promise!Got

LEMMA EndPromised ==
  ASSUME TypeInv, NEW p \in Procs, Finish(p) \/ Unlink(p) \/ Crash(p) PROVE Promised
<1>1. /\ op'[p] = Idle /\ receipt' = receipt /\ journal' = journal
      /\ \A q \in Procs \ {p} : op'[q] = op[q]
  BY FinishIs, UnlinkIs, CrashIs DEF installation
<1>2. QED BY <1>1, SameInForce, GivesUp

LEMMA FailPromised == ASSUME WorkInv, NEW p \in Procs, Fail(p) PROVE Promised
<1>1. receipt' = receipt /\ \A q \in Procs \ {p} : op'[q] = op[q]
  BY FailIs DEF WorkInv
<1>2. CASE journal' = journal /\ op'[p].pc = "undo" /\ op'[p].then = "stop"
  <2>1. Wish(op'[p]) = None
    BY <1>2 DEF Wish, Backward
  <2>2. QED BY <1>1, <1>2, <2>1, SameInForce, KeepsOrGivesUp DEF WorkInv
<1>3. CASE journal' = journal /\ op'[p] = Idle
  BY <1>1, <1>3, SameInForce, GivesUp DEF WorkInv
<1>4. CASE op[p].pc = "journal" /\ op[p].tx \in Tx /\ journal' = op[p].tx /\ op'[p] = Idle
  <2>1. op[p].tx.before = receipt /\ journal = None
    BY <1>4 DEF WorkInv, Phase, PlanPhase, JournalPhase, Between
  <2>2. Base' = Base
    BY <1>1, <1>4, <2>1, TxIsTransaction DEF Base
  <2>3. QED BY <1>1, <1>4, <2>2, GivesUp DEF WorkInv
<1>5. QED BY <1>2, <1>3, <1>4, FailIs DEF WorkInv

LEMMA StepPromised == ASSUME WorkInv, NEW p \in Procs, Step(p) PROVE Promised
<1>1. TypeInv
  BY DEF WorkInv
<1>2. CASE Recover(p) \/ RestoreReceipt(p) \/ ClearUndone(p)
  BY <1>1, <1>2, RecoverPromised, ReceiptPromised, ClearUndonePromised
<1>3. CASE \/ PrepareInstall(p) \/ PrepareRegister(p) \/ BackUp(p)
           \/ Preflight(p) \/ TearGeneration(p)
  BY <1>1, <1>3, PlanPromised
<1>4. CASE WriteJournal(p) \/ WriteReceipt(p) \/ ClearJournal(p)
  BY <1>4, WriteJournalPromised, ReceiptPromised, ClearJournalPromised
<1>5. CASE Unregister(p) \/ RemoveReceipt(p) \/ Finish(p) \/ Unlink(p)
  BY <1>1, <1>5, UnregisterPromised, RemoveReceiptPromised, EndPromised
<1>6. QED BY <1>1, <1>2, <1>3, <1>4, <1>5, QuietPromised DEF Step

LEMMA NextPromised == ASSUME WorkInv, [Next]_vars PROVE Promised
<1>1. ASSUME NEW p \in Procs, Start(p) \/ Step(p) \/ Fail(p) \/ Crash(p) PROVE Promised
  BY <1>1, StartPromised, StepPromised, FailPromised, EndPromised DEF WorkInv
<1>2. CASE op' = op /\ receipt' = receipt /\ journal' = journal
  <2>1. InForce' = InForce /\ Asked' = Asked
    BY <1>2, PromiseIs DEF Base
  <2>2. QED BY <2>1 DEF Promised
<1>3. ASSUME NEW q \in Paths, UserEdits(q) PROVE Promised
  BY <1>2, <1>3, UserEditsIs DEF WorkInv, installation
<1>4. CASE UNCHANGED vars
  BY <1>2, <1>4 DEF vars, installation
<1>5. QED BY <1>1, <1>3, <1>4 DEF Next

LEMMA InitPromised == ASSUME Init PROVE Promise!Init
<1>1. TypeInv /\ journal = None
  BY InitTypes DEF Init
<1>2. InForce = View(receipt)
  BY <1>1, PromiseIs DEF Base
<1>3. InForce \in Promise!Views \cup {None}
  BY <1>1, <1>2 DEF TypeInv, View, Receipts, Promise!Views
<1>4. \A p \in Procs : Wish(op[p]) = None
  BY AtFirst DEF Wish
<1>5. Asked = [p \in Procs |-> None]
  BY <1>4, PromiseIs
<1>6. QED BY <1>3, <1>5 DEF Promise!Init

(* Every request takes effect at one instant, wholly, while its process lives, *)
(* and an update only on the version its caller saw: the installer does what   *)
(* Installation promises, unless a launcher worked beside an installer.        *)
THEOREM PromiseIsKept == Spec /\ []LaunchersApart => OneVersionInForce
<1>1. Init => Promise!Init
  BY InitPromised
<1>2. WorkInv /\ [Next]_vars => [Promise!Next]_<<InForce, Asked>>
  BY NextPromised DEF Promised
<1>3. QED BY <1>1, <1>2, StateIsKept, PTL DEF Spec, OneVersionInForce, Promise!Spec
===============================================================================
