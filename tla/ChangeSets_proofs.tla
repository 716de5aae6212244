--------------------------- MODULE ChangeSets_proofs ---------------------------
(***************************************************************************)
(* Proofs about change sets, for every number of processes, sets,          *)
(* operations and revisions.  The inductive invariant IInv says, on top of *)
(* the shapes: every set and every copy of one holds a text and the same   *)
(* text with its edit (MadeInv); the file is the text an operation read or *)
(* wrote until somebody overtakes it (WindowInv); and how far the set, its *)
(* ledger entry and the file are apart at each step of an operation that   *)
(* has the set for itself (StatusInv).                                     *)
(***************************************************************************)
EXTENDS ChangeSets, TLAPS

Kinds == {"accept", "refresh", "revert", "reject"}
OpRec == [pc : {"look", "mark", "load", "read", "write", "save", "ledger", "undo", "unsave"},
          kind : Kinds, set : Sets, copy : ChangeSet, overtaken : BOOLEAN]

TypeInv == TypeOK /\ op \in [Procs -> {Idle} \cup OpRec]

\* A set that was proposed, or a copy of one: the edit is in the text it proposes
\* and not in the one it starts from.
WellMade(s, set) ==
  set.status # "none" /\ s \notin set.base.edits /\ set.proposed = Applied(set.base, s)

\* An operation works on a set that was proposed, with a copy that is well made;
\* only accepts and reverts write the text, and what they say of it is their own.
Made(p) ==
  op[p] # Idle =>
    /\ sets[op[p].set].status # "none"
    /\ op[p].pc \in {"read", "write", "save", "ledger", "undo", "unsave"} =>
         WellMade(op[p].set, op[p].copy)
    /\ op[p].pc = "read" => op[p].kind # "reject"
    /\ op[p].pc \in {"write", "ledger", "undo", "unsave"} => op[p].kind \in {"accept", "revert"}
    /\ op[p].pc = "save" /\ op[p].copy.status \in {"committed", "reverted"} =>
         op[p].kind \in {"accept", "revert"} /\ op[p].copy.status = Entry(op[p].kind)

MadeInv ==
  /\ \A s \in Sets : sets[s].status # "none" => WellMade(s, sets[s])
  /\ \A p \in Procs : Made(p)

\* The operation has written the text.
Wrote(p) ==
  \/ op[p].pc \in {"ledger", "undo"}
  \/ op[p].pc = "save" /\ op[p].copy.status \in {"committed", "reverted"}

\* The text an accept or a revert puts in the place of the other.
Put(kind, copy) == IF kind = "accept" THEN copy.proposed ELSE copy.base

\* The text is the one the operation read or wrote, until somebody overtakes it.
Window(p) ==
  op[p] # Idle /\ ~op[p].overtaken =>
    /\ op[p].pc = "write" => file = Replaces(op[p].kind, op[p].copy)
    /\ Wrote(p) => file = Put(op[p].kind, op[p].copy)

WindowInv == \A p \in Procs : Window(p)

Faithful(s) ==
  /\ ledger[s] = IF sets[s].status \in {"committed", "reverted"} THEN sets[s].status ELSE "none"
  /\ sets[s].status # "committed" => s \notin file.edits

\* What holds of the set an operation is working on.
Mid(p) ==
  LET s == op[p].set
      copy == op[p].copy IN
    /\ op[p].pc \in {"look", "mark", "load", "read", "write"} => Faithful(s)
    /\ op[p].pc \in {"read", "write"} => copy = sets[s] /\ copy.status \in Allowed(op[p].kind)
    /\ op[p].pc = "save" /\ ~Wrote(p) =>
         Faithful(s) /\ ledger[s] = "none" /\ sets[s].status # "committed"
    /\ Wrote(p) \/ op[p].pc = "unsave" =>
         /\ ledger[s] = IF op[p].kind = "accept" THEN "none" ELSE "committed"
         /\ op[p].pc \in {"ledger", "undo"} =>
              copy.status = Entry(op[p].kind) /\ sets[s].status = copy.status
         /\ op[p].pc = "unsave" =>
              copy.status = IF op[p].kind = "accept" THEN "pending" ELSE "committed"
         /\ s \in file.edits =>
              IF op[p].kind = "accept" THEN op[p].pc # "unsave" ELSE op[p].pc = "unsave"

StatusInv ==
  /\ \A p, q \in Procs : op[p] # Idle /\ op[q] # Idle /\ op[p].set = op[q].set /\ p # q
                         => op[p].set \in doubt
  /\ \A s \in Sets \ doubt : ~Busy(s) => Faithful(s)
  /\ \A p \in Procs : op[p] # Idle /\ op[p].set \notin doubt => Mid(p)

IInv == TypeInv /\ MadeInv /\ WindowInv /\ StatusInv

-------------------------------------------------------------------------------
(* What the model's operators return.                                         *)

LEMMA BlankShape == Blank \in Text /\ Unused \in ChangeSet
BY ChangesAssumption DEF ChangesAssumption, Blank, Unused, Text, ChangeSet

LEMMA AppliedShape ==
  ASSUME NEW text \in Text, NEW s \in Sets
  PROVE  /\ Applied(text, s) \in Text
         /\ Applied(text, s).rev = text.rev /\ Applied(text, s).edits = text.edits \cup {s}
BY DEF Applied, Text

LEMMA SetShape ==
  ASSUME NEW set \in ChangeSet
  PROVE  /\ set.base \in Text /\ set.proposed \in Text
         /\ \A st \in {"none", "pending", "stale", "committed", "reverted", "rejected"} :
              LET new == [set EXCEPT !.status = st] IN
                /\ new \in ChangeSet /\ new.status = st
                /\ new.base = set.base /\ new.proposed = set.proposed
BY DEF ChangeSet

\* A text that somebody wrote marks who had read another, and nothing else.
Same(p) == op'[p] = op[p] \/ (op[p] \in OpRec /\ op'[p] = [op[p] EXCEPT !.overtaken = TRUE])

LEMMA SameEffect ==
  ASSUME NEW p, op[p] \in {Idle} \cup OpRec, Same(p)
  PROVE  /\ op'[p] = Idle <=> op[p] = Idle
         /\ op'[p] \in {Idle} \cup OpRec
         /\ op[p] # Idle => /\ op'[p].pc = op[p].pc /\ op'[p].kind = op[p].kind
                            /\ op'[p].set = op[p].set /\ op'[p].copy = op[p].copy
                            /\ ~op'[p].overtaken => op'[p] = op[p]
<1>1. \A o \in OpRec : o # Idle
  BY DEF OpRec, Idle
<1>2. CASE op'[p] = op[p]
  BY <1>2
<1>3. CASE op[p] \in OpRec /\ op'[p] = [op[p] EXCEPT !.overtaken = TRUE]
  <2>1. op'[p] \in OpRec /\ op'[p].pc = op[p].pc /\ op'[p].kind = op[p].kind
        /\ op'[p].set = op[p].set /\ op'[p].copy = op[p].copy /\ op'[p].overtaken
    BY <1>3 DEF OpRec
  <2>2. QED BY <1>1, <1>3, <2>1
<1>4. QED BY <1>2, <1>3 DEF Same

LEMMA OvertakenEffect ==
  ASSUME op \in [Procs -> {Idle} \cup OpRec]
  PROVE  /\ Overtaken(op) \in [Procs -> {Idle} \cup OpRec]
         /\ \A p \in Procs :
              \/ op[p] = Idle /\ Overtaken(op)[p] = op[p]
              \/ op[p].pc \in {"look", "mark", "load", "read"} /\ Overtaken(op)[p] = op[p]
              \/ op[p] \in OpRec /\ Overtaken(op)[p] = [op[p] EXCEPT !.overtaken = TRUE]
<1>1. \A o \in OpRec : [o EXCEPT !.overtaken = TRUE] \in OpRec
  BY DEF OpRec
<1>2. ASSUME NEW p \in Procs
      PROVE  /\ \/ op[p] = Idle /\ Overtaken(op)[p] = op[p]
                \/ op[p].pc \in {"look", "mark", "load", "read"} /\ Overtaken(op)[p] = op[p]
                \/ op[p] \in OpRec /\ Overtaken(op)[p] = [op[p] EXCEPT !.overtaken = TRUE]
             /\ Overtaken(op)[p] \in {Idle} \cup OpRec
  BY <1>1 DEF Overtaken
<1>3. Overtaken(op) = [p \in Procs |-> Overtaken(op)[p]]
  BY DEF Overtaken
<1>4. QED BY <1>2, <1>3

\* Who reads the file does so after the last that wrote it.
Watches(p) ==
  /\ Same(p)
  /\ file' = file \/ op[p] = Idle \/ op[p].pc \in {"look", "mark", "load", "read"}
     \/ op'[p].overtaken

LEMMA OvertakenWatches ==
  ASSUME op \in [Procs -> {Idle} \cup OpRec], NEW p \in Procs, op'[p] = Overtaken(op)[p]
  PROVE  Watches(p)
<1>1. \A o \in OpRec : [o EXCEPT !.overtaken = TRUE].overtaken
  BY DEF OpRec
<1>2. CASE op'[p] = op[p] /\ (op[p] = Idle \/ op[p].pc \in {"look", "mark", "load", "read"})
  BY <1>2 DEF Watches, Same
<1>3. CASE op[p] \in OpRec /\ op'[p] = [op[p] EXCEPT !.overtaken = TRUE]
  BY <1>1, <1>3 DEF Watches, Same
<1>4. QED BY <1>2, <1>3, OvertakenEffect

\* An operation goes on: where it is and its copy change, and nothing else of it.
Advance(p, pc, copy) ==
  /\ op'[p] \in OpRec /\ op'[p].pc = pc /\ op'[p].copy = copy
  /\ op'[p].kind = op[p].kind /\ op'[p].set = op[p].set /\ op'[p].overtaken = op[p].overtaken

Pcs == {"look", "mark", "load", "read", "write", "save", "ledger", "undo", "unsave"}

LEMMA GotoEffect ==
  ASSUME op \in [Procs -> {Idle} \cup OpRec], NEW p \in Procs, op[p] \in OpRec,
         NEW pc \in Pcs, NEW copy \in ChangeSet, Goto(p, pc, copy)
  PROVE  /\ Advance(p, pc, copy) /\ \A q \in Procs \ {p} : op'[q] = op[q]
         /\ op' \in [Procs -> {Idle} \cup OpRec]
<1>1. PICK o \in OpRec : o = [op[p] EXCEPT !.pc = pc, !.copy = copy]
  BY DEF OpRec, Pcs
<1>2. op' = [op EXCEPT ![p] = o]
  BY <1>1 DEF Goto
<1>3. op'[p] = o /\ \A q \in Procs \ {p} : op'[q] = op[q]
  BY <1>2
<1>4. o.pc = pc /\ o.copy = copy /\ o.kind = op[p].kind /\ o.set = op[p].set
      /\ o.overtaken = op[p].overtaken
  BY <1>1 DEF OpRec
<1>5. op' \in [Procs -> {Idle} \cup OpRec]
  BY <1>2
<1>6. QED BY <1>3, <1>4, <1>5 DEF Advance

LEMMA DoneEffect ==
  ASSUME op \in [Procs -> {Idle} \cup OpRec], NEW p \in Procs, Done(p)
  PROVE  /\ op'[p] = Idle /\ \A q \in Procs \ {p} : op'[q] = op[q]
         /\ op' \in [Procs -> {Idle} \cup OpRec]
BY DEF Done

LEMMA IdleIsNot ==
  /\ Idle \notin OpRec
  /\ \A p : op[p] \in {Idle} \cup OpRec /\ op[p].pc \in Pcs => op[p] \in OpRec /\ op[p] # Idle
<1>1. Idle.pc = "idle" /\ \A o \in OpRec : o.pc \in Pcs
  BY DEF Idle, OpRec, Pcs
<1>2. QED BY <1>1 DEF Pcs

-------------------------------------------------------------------------------
(* Operations that do not take the step.                                      *)

LEMMA OtherMade ==
  ASSUME TypeInv, NEW q \in Procs, Made(q), Same(q),
         op[q] # Idle => sets'[op[q].set].status # "none"
  PROVE  Made(q)'
<1>1. op[q] \in {Idle} \cup OpRec
  BY DEF TypeInv
<1>2. /\ op'[q] = Idle <=> op[q] = Idle
      /\ op[q] # Idle => /\ op'[q].pc = op[q].pc /\ op'[q].kind = op[q].kind
                         /\ op'[q].set = op[q].set /\ op'[q].copy = op[q].copy
  BY <1>1, SameEffect
<1>3. QED BY <1>2 DEF Made

LEMMA OtherWindow ==
  ASSUME TypeInv, NEW q \in Procs, Window(q), Watches(q)
  PROVE  Window(q)'
<1>1. op[q] \in {Idle} \cup OpRec
  BY DEF TypeInv
<1>2. /\ op'[q] = Idle <=> op[q] = Idle
      /\ op[q] # Idle => /\ op'[q].pc = op[q].pc /\ op'[q].kind = op[q].kind
                         /\ op'[q].set = op[q].set /\ op'[q].copy = op[q].copy
                         /\ ~op'[q].overtaken => op'[q] = op[q]
  BY <1>1, SameEffect DEF Watches
<1>3. SUFFICES ASSUME op'[q] # Idle, ~op'[q].overtaken
               PROVE  Window(q)'
  BY DEF Window
<1>4. op'[q] = op[q] /\ op[q] # Idle
  BY <1>2, <1>3
<1>5. file' = file \/ op[q].pc \in {"look", "mark", "load", "read"}
  BY <1>3, <1>4 DEF Watches
<1>6. CASE file' = file
  BY <1>4, <1>6 DEF Window, Wrote
<1>7. CASE op[q].pc \in {"look", "mark", "load", "read"}
  BY <1>4, <1>7 DEF Window, Wrote
<1>8. QED BY <1>5, <1>6, <1>7

LEMMA OtherMid ==
  ASSUME TypeInv, NEW q \in Procs, op[q] # Idle, Mid(q), Same(q),
         sets'[op[q].set] = sets[op[q].set], ledger'[op[q].set] = ledger[op[q].set],
         op[q].set \in file'.edits => op[q].set \in file.edits
  PROVE  Mid(q)'
<1>1. op[q] \in {Idle} \cup OpRec
  BY DEF TypeInv
<1>2. /\ op'[q].pc = op[q].pc /\ op'[q].kind = op[q].kind
      /\ op'[q].set = op[q].set /\ op'[q].copy = op[q].copy
  BY <1>1, SameEffect
<1>3. PICK s : s = op[q].set
  OBVIOUS
<1>4. Faithful(s) => Faithful(s)'
  BY <1>3 DEF Faithful
<1>5. Wrote(q)' <=> Wrote(q)
  BY <1>2 DEF Wrote
<1>6. QED BY <1>2, <1>3, <1>4, <1>5 DEF Mid, Faithful

\* The step of an operation, by what it does to its own set and to its own place.
LEMMA OwnStep ==
  ASSUME TypeInv, MadeInv, WindowInv, StatusInv, NEW p \in Procs, op[p] \in OpRec,
         NEW s \in Sets, s = op[p].set,
         \A q \in Procs \ {p} : Watches(q),
         \A r \in Sets \ {s} : sets'[r] = sets[r] /\ ledger'[r] = ledger[r],
         WellMade(s, sets'[s]), doubt \subseteq doubt',
         \A r \in Sets \ doubt' : r # s /\ r \in file'.edits => r \in file.edits,
         op'[p] # Idle => op'[p].set = s /\ Made(p)' /\ Window(p)' /\ (s \notin doubt' => Mid(p)'),
         op'[p] = Idle /\ s \notin doubt' => Faithful(s)'
  PROVE  MadeInv' /\ WindowInv' /\ StatusInv'
<1>1. \A q \in Procs \ {p} : Same(q) /\ op[q] \in {Idle} \cup OpRec
  BY DEF Watches, TypeInv
<1>2. \A q \in Procs \ {p} : /\ op'[q] = Idle <=> op[q] = Idle
                             /\ op[q] # Idle => op'[q].set = op[q].set /\ op[q].set \in Sets
  BY <1>1, SameEffect DEF OpRec
<1>3. op[p] # Idle
  BY IdleIsNot
<1>4. MadeInv'
  <2>1. \A r \in Sets : sets[r].status # "none" => sets'[r].status # "none"
    BY DEF WellMade
  <2>2. \A q \in Procs \ {p} : Made(q)'
    <3>1. TAKE q \in Procs \ {p}
    <3>2. op[q] # Idle => sets'[op[q].set].status # "none"
      BY <1>2, <2>1 DEF MadeInv, Made
    <3>3. QED BY <1>1, <3>2, OtherMade DEF MadeInv
  <2>3. Made(p)'
    BY DEF Made
  <2>4. \A r \in Sets : sets'[r].status # "none" => WellMade(r, sets'[r])
    BY DEF MadeInv
  <2>5. QED BY <2>2, <2>3, <2>4 DEF MadeInv, WellMade
<1>5. WindowInv'
  <2>1. \A q \in Procs \ {p} : Window(q)'
    BY OtherWindow DEF WindowInv
  <2>2. Window(p)'
    BY DEF Window
  <2>3. QED BY <2>1, <2>2 DEF WindowInv
<1>6. StatusInv'
  <2>1. ASSUME NEW q \in Procs, NEW w \in Procs, op'[q] # Idle, op'[w] # Idle,
               op'[q].set = op'[w].set, q # w
        PROVE  op'[q].set \in doubt'
    <3>1. op[q] # Idle /\ op[q].set = op'[q].set /\ op[w] # Idle /\ op[w].set = op'[w].set
      BY <1>2, <1>3, <2>1
    <3>2. QED BY <2>1, <3>1 DEF StatusInv
  <2>2. ASSUME NEW r \in Sets \ doubt', ~(\E q \in Procs : op'[q] # Idle /\ op'[q].set = r)
        PROVE  Faithful(r)'
    <3>1. CASE r = s
      BY <2>2, <3>1
    <3>2. CASE r # s
      <4>1. ~Busy(r)
        BY <1>2, <2>2, <3>2 DEF Busy
      <4>2. Faithful(r)
        BY <2>2, <4>1 DEF StatusInv
      <4>3. sets'[r] = sets[r] /\ ledger'[r] = ledger[r] /\ (r \in file'.edits => r \in file.edits)
        BY <2>2, <3>2
      <4>4. QED BY <4>2, <4>3 DEF Faithful
    <3>3. QED BY <3>1, <3>2
  <2>3. ASSUME NEW q \in Procs, op'[q] # Idle, op'[q].set \notin doubt'
        PROVE  Mid(q)'
    <3>1. CASE q = p
      BY <2>3, <3>1
    <3>2. CASE q # p
      <4>1. op[q] # Idle /\ op[q].set = op'[q].set /\ op[q].set \in Sets \ doubt'
        BY <1>2, <2>3, <3>2
      <4>2. op[q].set # s
        BY <1>3, <3>2, <4>1 DEF StatusInv
      <4>3. Mid(q)
        BY <4>1 DEF StatusInv
      <4>4. sets'[op[q].set] = sets[op[q].set] /\ ledger'[op[q].set] = ledger[op[q].set]
            /\ (op[q].set \in file'.edits => op[q].set \in file.edits)
        BY <4>1, <4>2
      <4>5. QED BY <1>1, <3>2, <4>1, <4>3, <4>4, OtherMid
    <3>3. QED BY <3>1, <3>2
  <2>4. QED BY <2>1, <2>2, <2>3 DEF StatusInv, Busy
<1>7. QED BY <1>4, <1>5, <1>6

\* The steps of nobody: the user, another program, or a proposal.
LEMMA NobodysStep ==
  ASSUME TypeInv, MadeInv, WindowInv, StatusInv, \A q \in Procs : Watches(q),
         \A r \in Sets : \/ sets'[r] = sets[r]
                         \/ sets[r].status = "none" /\ WellMade(r, sets'[r]) /\ r \notin file'.edits
                            /\ sets'[r].status = "pending",
         ledger' = ledger, doubt \subseteq doubt',
         \A r \in Sets \ doubt' : r \in file'.edits => r \in file.edits
  PROVE  MadeInv' /\ WindowInv' /\ StatusInv'
<1>1. \A q \in Procs : Same(q) /\ op[q] \in {Idle} \cup OpRec
  BY DEF Watches, TypeInv
<1>2. \A q \in Procs : /\ op'[q] = Idle <=> op[q] = Idle
                       /\ op[q] # Idle => op'[q].set = op[q].set /\ op[q].set \in Sets
  BY <1>1, SameEffect DEF OpRec
<1>3. \A q \in Procs : op[q] # Idle => sets'[op[q].set] = sets[op[q].set]
  BY <1>2 DEF MadeInv, Made
<1>4. MadeInv'
  <2>1. \A q \in Procs : Made(q)'
    <3>1. TAKE q \in Procs
    <3>2. op[q] # Idle => sets'[op[q].set].status # "none"
      BY <1>3 DEF MadeInv, Made
    <3>3. QED BY <1>1, <3>2, OtherMade DEF MadeInv
  <2>2. \A r \in Sets : sets'[r].status # "none" => WellMade(r, sets'[r])
    BY DEF MadeInv
  <2>3. QED BY <2>1, <2>2 DEF MadeInv, WellMade
<1>5. WindowInv'
  BY OtherWindow DEF WindowInv
<1>6. StatusInv'
  <2>1. ASSUME NEW q \in Procs, NEW w \in Procs, op'[q] # Idle, op'[w] # Idle,
               op'[q].set = op'[w].set, q # w
        PROVE  op'[q].set \in doubt'
    BY <1>2, <2>1 DEF StatusInv
  <2>2. ASSUME NEW r \in Sets \ doubt', ~(\E q \in Procs : op'[q] # Idle /\ op'[q].set = r)
        PROVE  Faithful(r)'
    <3>1. ~Busy(r)
      BY <1>2, <2>2 DEF Busy
    <3>2. Faithful(r)
      BY <2>2, <3>1 DEF StatusInv
    <3>3. QED BY <2>2, <3>2 DEF Faithful
  <2>3. ASSUME NEW q \in Procs, op'[q] # Idle, op'[q].set \notin doubt'
        PROVE  Mid(q)'
    <3>1. op[q] # Idle /\ op[q].set = op'[q].set /\ op[q].set \in Sets \ doubt'
      BY <1>2, <2>3
    <3>2. Mid(q)
      BY <3>1 DEF StatusInv
    <3>3. sets'[op[q].set] = sets[op[q].set] /\ ledger'[op[q].set] = ledger[op[q].set]
          /\ (op[q].set \in file'.edits => op[q].set \in file.edits)
      BY <1>3, <3>1
    <3>4. QED BY <1>1, <3>1, <3>2, <3>3, OtherMid
  <2>4. QED BY <2>1, <2>2, <2>3 DEF StatusInv, Busy
<1>7. QED BY <1>4, <1>5, <1>6

-------------------------------------------------------------------------------
(* The operations, step by step.                                              *)

LEMMA ShapesKept ==
  ASSUME file' \in Text, buffers' \subseteq Text, sets' \in [Sets -> ChangeSet],
         ledger' \in [Sets -> {"none", "committed", "reverted"}], doubt' \subseteq Sets,
         op' \in [Procs -> {Idle} \cup OpRec]
  PROVE  TypeInv'
<1>1. \A p \in Procs : op'[p] # Idle => op'[p].set \in Sets /\ op'[p].copy \in ChangeSet
  BY DEF OpRec
<1>2. QED BY <1>1 DEF TypeInv, TypeOK

\* What is known of an operation at a step of it.
LEMMA InOperation ==
  ASSUME IInv, NEW p \in Procs, op[p].pc \in Pcs
  PROVE  /\ op[p] \in OpRec /\ op[p] # Idle /\ op[p].set \in Sets /\ op[p].copy \in ChangeSet
         /\ op[p].kind \in Kinds /\ op[p].overtaken \in BOOLEAN
         /\ sets[op[p].set] \in ChangeSet /\ sets[op[p].set].status # "none"
         /\ WellMade(op[p].set, sets[op[p].set])
         /\ Made(p) /\ Window(p) /\ (op[p].set \notin doubt => Mid(p))
         /\ op \in [Procs -> {Idle} \cup OpRec]
         /\ file \in Text /\ buffers \subseteq Text /\ sets \in [Sets -> ChangeSet]
         /\ ledger \in [Sets -> {"none", "committed", "reverted"}] /\ doubt \subseteq Sets
<1>1. op[p] \in OpRec /\ op[p] # Idle /\ op \in [Procs -> {Idle} \cup OpRec]
  BY IdleIsNot DEF IInv, TypeInv
<1>2. /\ op[p].set \in Sets /\ op[p].copy \in ChangeSet /\ op[p].kind \in Kinds
      /\ op[p].overtaken \in BOOLEAN
  BY <1>1 DEF OpRec
<1>3. /\ file \in Text /\ buffers \subseteq Text /\ sets \in [Sets -> ChangeSet]
      /\ ledger \in [Sets -> {"none", "committed", "reverted"}] /\ doubt \subseteq Sets
  BY DEF IInv, TypeInv, TypeOK
<1>4. Made(p) /\ Window(p) /\ (op[p].set \notin doubt => Mid(p))
  BY <1>1 DEF IInv, MadeInv, WindowInv, StatusInv
<1>5. sets[op[p].set].status # "none" /\ WellMade(op[p].set, sets[op[p].set])
  BY <1>1, <1>2, <1>4 DEF IInv, MadeInv, Made
<1>6. QED BY <1>1, <1>2, <1>3, <1>4, <1>5

\* A set that is well made is whatever becomes of its status.
LEMMA StatusWell ==
  ASSUME NEW s \in Sets, NEW set \in ChangeSet, WellMade(s, set),
         NEW st \in {"pending", "stale", "committed", "reverted", "rejected"}
  PROVE  LET new == [set EXCEPT !.status = st] IN
           new \in ChangeSet /\ new.status = st /\ WellMade(s, new)
<1>1. PICK new : new = [set EXCEPT !.status = st]
  OBVIOUS
<1>2. new \in ChangeSet /\ new.status = st /\ new.base = set.base /\ new.proposed = set.proposed
  BY <1>1 DEF ChangeSet
<1>3. new.status = st /\ WellMade(s, new)
  BY <1>2 DEF WellMade
<1>4. QED BY <1>1, <1>2, <1>3

\* An operation that stops, with its set in doubt or as it should be.
LEMMA StopKept ==
  ASSUME IInv, NEW p \in Procs, op[p].pc \in Pcs, NEW s, s = op[p].set, Done(p),
         UNCHANGED <<file, buffers, sets, ledger>>,
         doubt' = doubt \cup {s} \/ (doubt' = doubt /\ (s \notin doubt => Faithful(s)))
  PROVE  IInv'
<1>1. /\ op[p] \in OpRec /\ s \in Sets /\ WellMade(s, sets[s])
      /\ op \in [Procs -> {Idle} \cup OpRec]
      /\ file \in Text /\ buffers \subseteq Text /\ sets \in [Sets -> ChangeSet]
      /\ ledger \in [Sets -> {"none", "committed", "reverted"}] /\ doubt \subseteq Sets
  BY InOperation
<1>2. op'[p] = Idle /\ (\A q \in Procs \ {p} : op'[q] = op[q])
      /\ op' \in [Procs -> {Idle} \cup OpRec]
  BY <1>1, DoneEffect
<1>3. TypeInv'
  BY <1>1, <1>2, ShapesKept
<1>4. \A q \in Procs \ {p} : Watches(q)
  BY <1>2 DEF Watches, Same
<1>5. s \notin doubt' => Faithful(s)'
  BY DEF Faithful
<1>6. MadeInv' /\ WindowInv' /\ StatusInv'
  BY <1>1, <1>2, <1>4, <1>5, OwnStep DEF IInv
<1>7. QED BY <1>3, <1>6 DEF IInv

\* An operation that goes on and leaves the files.
LEMMA GoesOn ==
  ASSUME IInv, NEW p \in Procs, op[p].pc \in Pcs, NEW pc \in Pcs, NEW copy \in ChangeSet,
         Goto(p, pc, copy), UNCHANGED <<file, buffers, sets, ledger, doubt>>,
         NEW s, s = op[p].set,
         Advance(p, pc, copy) => Made(p)' /\ Window(p)' /\ (s \notin doubt => Mid(p)')
  PROVE  IInv'
<1>1. /\ op[p] \in OpRec /\ s \in Sets /\ WellMade(s, sets[s])
      /\ op \in [Procs -> {Idle} \cup OpRec]
      /\ file \in Text /\ buffers \subseteq Text /\ sets \in [Sets -> ChangeSet]
      /\ ledger \in [Sets -> {"none", "committed", "reverted"}] /\ doubt \subseteq Sets
  BY InOperation
<1>2. Advance(p, pc, copy) /\ (\A q \in Procs \ {p} : op'[q] = op[q])
      /\ op' \in [Procs -> {Idle} \cup OpRec]
  BY <1>1, GotoEffect
<1>3. TypeInv'
  BY <1>1, <1>2, ShapesKept
<1>4. \A q \in Procs \ {p} : Watches(q)
  BY <1>2 DEF Watches, Same
<1>5. op'[p].set = s /\ op'[p] # Idle
  BY <1>2, IdleIsNot DEF Advance
<1>6. MadeInv' /\ WindowInv' /\ StatusInv'
  BY <1>1, <1>2, <1>4, <1>5, OwnStep DEF IInv
<1>7. QED BY <1>3, <1>6 DEF IInv

LEMMA LookKept ==
  ASSUME IInv, NEW p \in Procs, Look(p)
  PROVE  IInv'
<1>1. op[p].pc = "look" /\ UNCHANGED <<file, buffers, sets, ledger, doubt>>
  BY DEF Look, At
<1>2. Unused \in ChangeSet /\ op[p].pc \in Pcs
  BY <1>1, BlankShape DEF Pcs
<1>3. PICK s : s = op[p].set
  OBVIOUS
<1>4. Made(p) /\ (s \notin doubt => Mid(p)) /\ op[p] # Idle
  BY <1>2, <1>3, InOperation
<1>5. s \notin doubt => Faithful(s)
  BY <1>1, <1>3, <1>4 DEF Mid
<1>6. ASSUME NEW pc \in {"mark", "load"}, Goto(p, pc, Unused)
      PROVE  IInv'
  <2>1. ASSUME Advance(p, pc, Unused)
        PROVE  Made(p)' /\ Window(p)' /\ (s \notin doubt => Mid(p)')
    <3>1. Made(p)'
      BY <1>1, <1>4, <2>1 DEF Made, Advance
    <3>2. Window(p)'
      BY <2>1 DEF Window, Wrote, Advance
    <3>3. s \notin doubt => Mid(p)'
      BY <1>1, <1>3, <1>5, <2>1 DEF Mid, Wrote, Advance, Faithful
    <3>4. QED BY <3>1, <3>2, <3>3
  <2>2. QED BY <1>1, <1>2, <1>3, <1>6, <2>1, GoesOn DEF Pcs
<1>7. CASE Done(p)
  BY <1>1, <1>2, <1>3, <1>5, <1>7, StopKept
<1>8. QED BY <1>6, <1>7 DEF Look

LEMMA MarkKept ==
  ASSUME IInv, NEW p \in Procs, Mark(p)
  PROVE  IInv'
<1>1. op[p].pc = "mark" /\ UNCHANGED <<file, buffers, sets, ledger, doubt>>
  BY DEF Mark, At
<1>2. op[p].pc \in Pcs
  BY <1>1 DEF Pcs
<1>3. PICK s : s = op[p].set
  OBVIOUS
<1>4. /\ Made(p) /\ (s \notin doubt => Mid(p)) /\ op[p] # Idle
      /\ s \in Sets /\ sets[s] \in ChangeSet /\ WellMade(s, sets[s])
  BY <1>2, <1>3, InOperation
<1>5. s \notin doubt => Faithful(s)
  BY <1>1, <1>3, <1>4 DEF Mid
<1>6. ASSUME sets[s].status = "pending", Goto(p, "save", [sets[s] EXCEPT !.status = "stale"])
      PROVE  IInv'
  <2>1. PICK copy \in ChangeSet :
          /\ copy = [sets[s] EXCEPT !.status = "stale"]
          /\ copy.status = "stale" /\ WellMade(s, copy)
    BY <1>4, StatusWell
  <2>2. ASSUME Advance(p, "save", copy)
        PROVE  Made(p)' /\ Window(p)' /\ (s \notin doubt => Mid(p)')
    <3>1. ~Wrote(p)'
      BY <2>1, <2>2 DEF Wrote, Advance
    <3>2. Made(p)'
      BY <1>1, <1>3, <1>4, <2>1, <2>2 DEF Made, Advance, WellMade
    <3>3. Window(p)'
      BY <2>2, <3>1 DEF Window, Advance
    <3>4. s \notin doubt => Mid(p)'
      BY <1>1, <1>3, <1>5, <1>6, <2>2, <3>1 DEF Mid, Advance, Faithful
    <3>5. QED BY <3>2, <3>3, <3>4
  <2>3. QED BY <1>1, <1>2, <1>3, <1>6, <2>1, <2>2, GoesOn DEF Pcs
<1>7. CASE Done(p)
  BY <1>1, <1>2, <1>3, <1>5, <1>7, StopKept
<1>8. QED BY <1>3, <1>6, <1>7 DEF Mark

LEMMA LoadKept ==
  ASSUME IInv, NEW p \in Procs, Load(p)
  PROVE  IInv'
<1>1. op[p].pc = "load" /\ UNCHANGED <<file, buffers, sets, ledger, doubt>>
  BY DEF Load, At
<1>2. op[p].pc \in Pcs
  BY <1>1 DEF Pcs
<1>3. PICK s : s = op[p].set
  OBVIOUS
<1>4. /\ Made(p) /\ (s \notin doubt => Mid(p)) /\ op[p] # Idle
      /\ s \in Sets /\ sets[s] \in ChangeSet /\ WellMade(s, sets[s])
  BY <1>2, <1>3, InOperation
<1>5. s \notin doubt => Faithful(s)
  BY <1>1, <1>3, <1>4 DEF Mid
<1>6. ASSUME sets[s].status \in Allowed("reject"), op[p].kind = "reject",
             Goto(p, "save", [sets[s] EXCEPT !.status = "rejected"])
      PROVE  IInv'
  <2>1. PICK copy \in ChangeSet :
          /\ copy = [sets[s] EXCEPT !.status = "rejected"]
          /\ copy.status = "rejected" /\ WellMade(s, copy)
    BY <1>4, StatusWell
  <2>2. sets[s].status \in {"pending", "stale"}
    BY <1>6 DEF Allowed
  <2>3. ASSUME Advance(p, "save", copy)
        PROVE  Made(p)' /\ Window(p)' /\ (s \notin doubt => Mid(p)')
    <3>1. ~Wrote(p)'
      BY <2>1, <2>3 DEF Wrote, Advance
    <3>2. Made(p)'
      BY <1>1, <1>3, <1>4, <2>1, <2>3 DEF Made, Advance, WellMade
    <3>3. Window(p)'
      BY <2>3, <3>1 DEF Window, Advance
    <3>4. s \notin doubt => Mid(p)'
      BY <1>1, <1>3, <1>5, <2>2, <2>3, <3>1 DEF Mid, Advance, Faithful
    <3>5. QED BY <3>2, <3>3, <3>4
  <2>4. QED BY <1>1, <1>2, <1>3, <1>6, <2>1, <2>3, GoesOn DEF Pcs
<1>7. ASSUME sets[s].status \in Allowed(op[p].kind), op[p].kind # "reject",
             Goto(p, "read", sets[s])
      PROVE  IInv'
  <2>1. ASSUME Advance(p, "read", sets[s])
        PROVE  Made(p)' /\ Window(p)' /\ (s \notin doubt => Mid(p)')
    <3>1. ~Wrote(p)'
      BY <2>1 DEF Wrote, Advance
    <3>2. Made(p)'
      BY <1>1, <1>3, <1>4, <1>7, <2>1 DEF Made, Advance, WellMade
    <3>3. Window(p)'
      BY <2>1, <3>1 DEF Window, Advance
    <3>4. s \notin doubt => Mid(p)'
      BY <1>1, <1>3, <1>5, <1>7, <2>1, <3>1 DEF Mid, Advance, Faithful
    <3>5. QED BY <3>2, <3>3, <3>4
  <2>2. QED BY <1>1, <1>2, <1>3, <1>4, <1>7, <2>1, GoesOn DEF Pcs
<1>8. CASE Done(p)
  BY <1>1, <1>2, <1>3, <1>5, <1>8, StopKept
<1>9. QED BY <1>3, <1>6, <1>7, <1>8 DEF Load

LEMMA ReadKept ==
  ASSUME IInv, NEW p \in Procs, Read(p)
  PROVE  IInv'
<1>1. op[p].pc = "read" /\ UNCHANGED <<file, buffers, sets, ledger, doubt>>
  BY DEF Read, At
<1>2. op[p].pc \in Pcs
  BY <1>1 DEF Pcs
<1>3. PICK s : s = op[p].set
  OBVIOUS
<1>4. /\ Made(p) /\ (s \notin doubt => Mid(p)) /\ op[p] # Idle
      /\ s \in Sets /\ op[p].copy \in ChangeSet /\ file \in Text /\ op[p].kind \in Kinds
      /\ WellMade(s, sets[s])
  BY <1>2, <1>3, InOperation
<1>5. /\ WellMade(s, op[p].copy) /\ op[p].kind # "reject" /\ sets[s].status # "none"
      /\ op[p].kind \in {"accept", "refresh", "revert"}
  BY <1>1, <1>3, <1>4 DEF Made, Kinds
<1>6. s \notin doubt => /\ Faithful(s) /\ op[p].copy = sets[s]
                        /\ op[p].copy.status \in Allowed(op[p].kind)
  BY <1>1, <1>3, <1>4 DEF Mid
<1>7. ASSUME NEW copy \in ChangeSet, copy.status \in {"pending", "stale"}, WellMade(s, copy),
             Goto(p, "save", copy), op[p].kind \in {"accept", "refresh"}
      PROVE  IInv'
  <2>1. s \notin doubt => sets[s].status \in {"pending", "stale"}
    BY <1>6, <1>7 DEF Allowed
  <2>2. ASSUME Advance(p, "save", copy)
        PROVE  Made(p)' /\ Window(p)' /\ (s \notin doubt => Mid(p)')
    <3>1. ~Wrote(p)'
      BY <1>7, <2>2 DEF Wrote, Advance
    <3>2. Made(p)'
      BY <1>1, <1>3, <1>5, <1>7, <2>2 DEF Made, Advance, WellMade
    <3>3. Window(p)'
      BY <2>2, <3>1 DEF Window, Advance
    <3>4. s \notin doubt => Mid(p)'
      BY <1>1, <1>3, <1>6, <2>1, <2>2, <3>1 DEF Mid, Advance, Faithful
    <3>5. QED BY <3>2, <3>3, <3>4
  <2>3. QED BY <1>1, <1>2, <1>3, <1>7, <2>2, GoesOn DEF Pcs
<1>8. CASE op[p].kind = "refresh" /\ s \notin file.edits /\ Goto(p, "save", Rebased(op[p].copy, s))
  <2>1. PICK copy : copy = Rebased(op[p].copy, s)
    OBVIOUS
  <2>2. copy \in ChangeSet /\ copy.status = "pending" /\ WellMade(s, copy)
    BY <1>4, <1>8, <2>1, AppliedShape DEF Rebased, ChangeSet, WellMade
  <2>3. QED BY <1>7, <1>8, <2>1, <2>2
<1>9. CASE op[p].kind = "accept" /\ Goto(p, "save", [op[p].copy EXCEPT !.status = "stale"])
  <2>1. PICK copy \in ChangeSet :
          /\ copy = [op[p].copy EXCEPT !.status = "stale"]
          /\ copy.status = "stale" /\ WellMade(s, copy)
    BY <1>4, <1>5, StatusWell
  <2>2. QED BY <1>7, <1>9, <2>1
<1>10. CASE /\ op[p].kind \in {"accept", "revert"} /\ file = Replaces(op[p].kind, op[p].copy)
            /\ Goto(p, "write", op[p].copy)
  <2>1. ASSUME Advance(p, "write", op[p].copy)
        PROVE  Made(p)' /\ Window(p)' /\ (s \notin doubt => Mid(p)')
    <3>1. ~Wrote(p)'
      BY <2>1 DEF Wrote, Advance
    <3>2. Made(p)'
      BY <1>1, <1>3, <1>5, <1>10, <2>1 DEF Made, Advance
    <3>3. Window(p)'
      BY <1>1, <1>10, <2>1, <3>1 DEF Window, Advance, Replaces
    <3>4. s \notin doubt => Mid(p)'
      BY <1>1, <1>3, <1>6, <2>1, <3>1 DEF Mid, Advance, Faithful
    <3>5. QED BY <3>2, <3>3, <3>4
  <2>2. QED BY <1>1, <1>2, <1>3, <1>4, <1>10, <2>1, GoesOn DEF Pcs
<1>11. CASE Done(p)
  BY <1>1, <1>2, <1>3, <1>6, <1>11, StopKept
<1>12. QED
  <2>1. CASE op[p].kind = "refresh"
    BY <1>3, <1>8, <1>11, <2>1 DEF Read
  <2>2. CASE op[p].kind # "refresh" /\ file = Replaces(op[p].kind, op[p].copy)
    BY <1>5, <1>10, <2>2 DEF Read
  <2>3. CASE op[p].kind = "accept" /\ file # Replaces(op[p].kind, op[p].copy)
    BY <1>9, <2>3 DEF Read
  <2>4. CASE op[p].kind = "revert" /\ file # Replaces(op[p].kind, op[p].copy)
    BY <1>11, <2>4 DEF Read
  <2>5. QED BY <1>5, <2>1, <2>2, <2>3, <2>4

\* An operation that writes the text.
LEMMA WritesKept ==
  ASSUME IInv, NEW p \in Procs, op[p].pc \in Pcs, NEW text \in Text, NEW o \in OpRec,
         Writes(p, text, o), UNCHANGED <<buffers, sets, ledger>>,
         NEW s, s = op[p].set, o.set = s,
         op'[p] = o /\ file' = text => Made(p)' /\ Window(p)' /\ (s \notin doubt => Mid(p)')
  PROVE  IInv'
<1>1. /\ op[p] \in OpRec /\ s \in Sets /\ WellMade(s, sets[s])
      /\ op \in [Procs -> {Idle} \cup OpRec]
      /\ file \in Text /\ buffers \subseteq Text /\ sets \in [Sets -> ChangeSet]
      /\ ledger \in [Sets -> {"none", "committed", "reverted"}] /\ doubt \subseteq Sets
  BY InOperation
<1>2. Overtaken(op) \in [Procs -> {Idle} \cup OpRec]
  BY <1>1, OvertakenEffect
<1>3. /\ op'[p] = o /\ op' \in [Procs -> {Idle} \cup OpRec] /\ file' = text
      /\ \A q \in Procs \ {p} : op'[q] = Overtaken(op)[q]
  BY <1>2 DEF Writes
<1>4. doubt' = doubt \cup ((text.edits \ file.edits) \ {s})
  BY DEF Writes
<1>5. text.edits \subseteq Sets
  BY DEF Text
<1>6. TypeInv'
  BY <1>1, <1>3, <1>4, <1>5, ShapesKept
<1>7. \A q \in Procs \ {p} : Watches(q)
  BY <1>1, <1>3, OvertakenWatches
<1>8. op'[p] # Idle
  BY <1>3, IdleIsNot
<1>9. \A r \in Sets \ doubt' : r # s /\ r \in file'.edits => r \in file.edits
  BY <1>3, <1>4
<1>10. s \notin doubt' => s \notin doubt
  BY <1>4
<1>11. MadeInv' /\ WindowInv' /\ StatusInv'
  BY <1>1, <1>3, <1>4, <1>7, <1>8, <1>9, <1>10, OwnStep DEF IInv
<1>12. QED BY <1>6, <1>11 DEF IInv

\* Where an operation goes with a copy of another status.
Onto(old, new, pc, st) ==
  /\ new \in OpRec /\ new.pc = pc /\ new.kind = old.kind /\ new.set = old.set
  /\ new.overtaken = old.overtaken /\ new.copy \in ChangeSet
  /\ new.copy.status = st /\ new.copy.base = old.copy.base
  /\ new.copy.proposed = old.copy.proposed

LEMMA Onward ==
  ASSUME NEW o \in OpRec, NEW pc \in Pcs,
         NEW st \in {"pending", "stale", "committed", "reverted", "rejected"},
         NEW next, next = [o EXCEPT !.pc = pc, !.copy.status = st]
  PROVE  Onto(o, next, pc, st)
<1>1. o.copy \in ChangeSet
  BY DEF OpRec
<1>2. PICK c \in ChangeSet : c = [o.copy EXCEPT !.status = st]
  BY <1>1 DEF ChangeSet
<1>3. c.status = st /\ c.base = o.copy.base /\ c.proposed = o.copy.proposed
  BY <1>1, <1>2 DEF ChangeSet
<1>4. PICK new \in OpRec : new = [o EXCEPT !.pc = pc, !.copy = c]
  BY DEF OpRec, Pcs
<1>5. /\ new.pc = pc /\ new.kind = o.kind /\ new.set = o.set /\ new.overtaken = o.overtaken
      /\ new.copy = c
  BY <1>4 DEF OpRec
<1>6. new = [o EXCEPT !.pc = pc, !.copy.status = st]
  BY <1>2, <1>4
<1>7. QED BY <1>3, <1>5, <1>6 DEF Onto

LEMMA WriteKept ==
  ASSUME IInv, NEW p \in Procs, Write(p)
  PROVE  IInv'
<1>1. op[p].pc = "write" /\ UNCHANGED <<buffers, sets, ledger>>
  BY DEF Write, At
<1>2. op[p].pc \in Pcs
  BY <1>1 DEF Pcs
<1>3. PICK s : s = op[p].set
  OBVIOUS
<1>4. /\ op[p] \in OpRec /\ Made(p) /\ (s \notin doubt => Mid(p)) /\ op[p] # Idle
      /\ s \in Sets /\ op[p].copy \in ChangeSet
  BY <1>2, <1>3, InOperation
<1>5. /\ WellMade(s, op[p].copy) /\ sets[s].status # "none"
      /\ op[p].kind \in {"accept", "revert"}
  BY <1>1, <1>3, <1>4 DEF Made
<1>6. s \notin doubt => /\ Faithful(s) /\ op[p].copy = sets[s]
                        /\ op[p].copy.status \in Allowed(op[p].kind)
  BY <1>1, <1>3, <1>4 DEF Mid
<1>7. ASSUME NEW st \in {"committed", "reverted"}, st = Entry(op[p].kind),
             Writes(p, Put(op[p].kind, op[p].copy), [op[p] EXCEPT !.pc = "save", !.copy.status = st])
      PROVE  IInv'
  <2>1. PICK o : o = [op[p] EXCEPT !.pc = "save", !.copy.status = st]
    OBVIOUS
  <2>shape. /\ o \in OpRec /\ o.pc = "save" /\ o.kind = op[p].kind /\ o.set = s
        /\ o.copy \in ChangeSet /\ o.copy.status = st
        /\ o.copy.base = op[p].copy.base /\ o.copy.proposed = op[p].copy.proposed
    <3>1. Onto(op[p], o, "save", st)
      BY <1>4, <2>1, Onward DEF Pcs
    <3>2. QED BY <1>3, <3>1 DEF Onto
  <2>2. PICK text \in Text : text = Put(op[p].kind, op[p].copy) /\ text = Put(o.kind, o.copy)
    BY <1>4, <2>shape DEF Put, ChangeSet
  <2>3. WellMade(s, o.copy)
    BY <1>5, <2>shape DEF WellMade
  <2>4. s \notin doubt => ledger[s] = IF o.kind = "accept" THEN "none" ELSE "committed"
    BY <1>5, <1>6, <2>shape DEF Faithful, Allowed
  <2>5. o.kind # "accept" => s \notin text.edits
    BY <2>2, <2>3 DEF WellMade, Put
  <2>6. ASSUME op'[p] = o, file' = text
        PROVE  Made(p)' /\ Window(p)' /\ (s \notin doubt => Mid(p)')
    <3>1. Wrote(p)'
      BY <2>shape, <2>6, <1>7 DEF Wrote
    <3>2. Made(p)'
      BY <1>1, <1>5, <1>7, <2>shape, <2>3, <2>6 DEF Made, WellMade
    <3>3. Window(p)'
      BY <2>shape, <2>2, <2>6 DEF Window, Put
    <3>4. s \notin doubt => Mid(p)'
      BY <1>1, <2>shape, <2>4, <2>5, <2>6, <3>1 DEF Mid
    <3>5. QED BY <3>2, <3>3, <3>4
  <2>7. Writes(p, text, o) /\ o.set = s
    BY <1>3, <1>7, <2>1, <2>shape, <2>2
  <2>8. QED BY <1>1, <1>2, <1>3, <2>shape, <2>6, <2>7, WritesKept
<1>8. CASE Done(p) /\ UNCHANGED <<file, doubt>>
  BY <1>1, <1>2, <1>3, <1>6, <1>8, StopKept
<1>9. CASE op[p].kind = "accept"
  BY <1>7, <1>8, <1>9 DEF Write, Put, Entry
<1>10. CASE op[p].kind = "revert"
  BY <1>7, <1>8, <1>10 DEF Write, Put, Entry
<1>11. QED BY <1>5, <1>9, <1>10

LEMMA SaveKept ==
  ASSUME IInv, NEW p \in Procs, Save(p)
  PROVE  IInv'
<1>1. op[p].pc = "save" /\ UNCHANGED <<file, buffers, ledger>>
  BY DEF Save, At
<1>2. op[p].pc \in Pcs
  BY <1>1 DEF Pcs
<1>3. PICK s : s = op[p].set
  OBVIOUS
<1>4. /\ op[p] \in OpRec /\ Made(p) /\ Window(p) /\ (s \notin doubt => Mid(p)) /\ op[p] # Idle
      /\ s \in Sets /\ op[p].copy \in ChangeSet
      /\ op \in [Procs -> {Idle} \cup OpRec] /\ file \in Text /\ buffers \subseteq Text
      /\ sets \in [Sets -> ChangeSet]
      /\ ledger \in [Sets -> {"none", "committed", "reverted"}] /\ doubt \subseteq Sets
  BY <1>2, <1>3, InOperation
<1>5. WellMade(s, op[p].copy)
  BY <1>1, <1>3, <1>4 DEF Made
<1>6. CASE Done(p) /\ doubt' = doubt \cup {s} /\ UNCHANGED sets
  BY <1>1, <1>2, <1>3, <1>6, StopKept
<1>7. CASE sets' = [sets EXCEPT ![s] = op[p].copy] /\ doubt' = doubt
           /\ IF op[p].copy.status \in {"committed", "reverted"}
              THEN Goto(p, "ledger", op[p].copy) ELSE Done(p)
  <2>1. /\ sets'[s] = op[p].copy /\ sets' \in [Sets -> ChangeSet]
        /\ \A r \in Sets \ {s} : sets'[r] = sets[r]
    BY <1>4, <1>7
  <2>2. /\ op' \in [Procs -> {Idle} \cup OpRec] /\ \A q \in Procs \ {p} : op'[q] = op[q]
        /\ Wrote(p) => Advance(p, "ledger", op[p].copy)
        /\ ~Wrote(p) => op'[p] = Idle
    BY <1>1, <1>4, <1>7, GotoEffect, DoneEffect DEF Pcs, Wrote
  <2>3. TypeInv'
    BY <1>1, <1>4, <1>7, <2>1, <2>2, ShapesKept
  <2>4. \A q \in Procs \ {p} : Watches(q)
    BY <1>1, <2>2 DEF Watches, Same
  <2>5. CASE Wrote(p)
    <3>1. /\ op'[p] # Idle /\ op'[p].set = s /\ op'[p].copy = op[p].copy /\ op'[p].pc = "ledger"
          /\ op'[p].kind = op[p].kind /\ op'[p].overtaken = op[p].overtaken
      BY <1>3, <2>2, <2>5, IdleIsNot DEF Advance
    <3>2. op[p].kind \in {"accept", "revert"} /\ op[p].copy.status = Entry(op[p].kind)
      BY <1>1, <1>4, <2>5 DEF Made, Wrote
    <3>3. Made(p)'
      BY <1>5, <2>1, <3>1, <3>2 DEF Made, WellMade
    <3>4. Window(p)'
      BY <1>1, <1>4, <2>5, <3>1 DEF Window, Wrote
    <3>5. s \notin doubt => Mid(p)'
      BY <1>1, <1>3, <1>4, <2>1, <2>5, <3>1, <3>2 DEF Mid, Wrote
    <3>6. MadeInv' /\ WindowInv' /\ StatusInv'
      BY <1>1, <1>3, <1>4, <1>5, <1>7, <2>1, <2>4, <3>1, <3>3, <3>4, <3>5, OwnStep DEF IInv
    <3>7. QED BY <2>3, <3>6 DEF IInv
  <2>6. CASE ~Wrote(p)
    <3>1. s \notin doubt => /\ Faithful(s) /\ ledger[s] = "none" /\ sets[s].status # "committed"
      BY <1>1, <1>3, <1>4, <2>6 DEF Mid
    <3>2. s \notin doubt => Faithful(s)'
      BY <1>1, <2>1, <2>6, <3>1 DEF Faithful, Wrote
    <3>3. MadeInv' /\ WindowInv' /\ StatusInv'
      BY <1>1, <1>3, <1>4, <1>5, <1>7, <2>1, <2>2, <2>4, <2>6, <3>2, OwnStep DEF IInv
    <3>4. QED BY <2>3, <3>3 DEF IInv
  <2>7. QED BY <2>5, <2>6
<1>8. QED BY <1>3, <1>6, <1>7 DEF Save

LEMMA LedgerKept ==
  ASSUME IInv, NEW p \in Procs, Ledger(p)
  PROVE  IInv'
<1>1. op[p].pc = "ledger" /\ UNCHANGED <<file, buffers, sets, doubt>>
  BY DEF Ledger, At
<1>2. op[p].pc \in Pcs
  BY <1>1 DEF Pcs
<1>3. PICK s : s = op[p].set
  OBVIOUS
<1>4. /\ op[p] \in OpRec /\ Made(p) /\ Window(p) /\ (s \notin doubt => Mid(p)) /\ op[p] # Idle
      /\ s \in Sets /\ op[p].copy \in ChangeSet /\ WellMade(s, sets[s])
      /\ op \in [Procs -> {Idle} \cup OpRec] /\ file \in Text /\ buffers \subseteq Text
      /\ sets \in [Sets -> ChangeSet]
      /\ ledger \in [Sets -> {"none", "committed", "reverted"}] /\ doubt \subseteq Sets
  BY <1>2, <1>3, InOperation
<1>5. op[p].kind \in {"accept", "revert"}
  BY <1>1, <1>4 DEF Made
<1>6. CASE ledger' = [ledger EXCEPT ![s] = Entry(op[p].kind)] /\ Done(p)
  <2>1. /\ ledger'[s] = Entry(op[p].kind) /\ \A r \in Sets \ {s} : ledger'[r] = ledger[r]
        /\ ledger' \in [Sets -> {"none", "committed", "reverted"}]
    BY <1>4, <1>6 DEF Entry
  <2>2. op'[p] = Idle /\ (\A q \in Procs \ {p} : op'[q] = op[q])
        /\ op' \in [Procs -> {Idle} \cup OpRec]
    BY <1>4, <1>6, DoneEffect
  <2>3. TypeInv'
    BY <1>1, <1>4, <2>1, <2>2, ShapesKept
  <2>4. \A q \in Procs \ {p} : Watches(q)
    BY <1>1, <2>2 DEF Watches, Same
  <2>5. s \notin doubt => Faithful(s)'
    BY <1>1, <1>3, <1>4, <1>5, <2>1 DEF Mid, Faithful, Entry, Wrote
  <2>6. MadeInv' /\ WindowInv' /\ StatusInv'
    BY <1>1, <1>3, <1>4, <2>1, <2>2, <2>4, <2>5, OwnStep DEF IInv
  <2>7. QED BY <2>3, <2>6 DEF IInv
<1>7. CASE Goto(p, "undo", op[p].copy) /\ UNCHANGED ledger
  <2>1. ASSUME Advance(p, "undo", op[p].copy)
        PROVE  Made(p)' /\ Window(p)' /\ (s \notin doubt => Mid(p)')
    <3>1. Wrote(p) /\ Wrote(p)'
      BY <1>1, <2>1 DEF Wrote, Advance
    <3>2. Made(p)'
      BY <1>1, <1>4, <2>1 DEF Made, Advance
    <3>3. Window(p)'
      BY <1>1, <1>4, <2>1, <3>1 DEF Window, Advance
    <3>4. s \notin doubt => Mid(p)'
      BY <1>1, <1>3, <1>4, <1>7, <2>1, <3>1 DEF Mid, Advance
    <3>5. QED BY <3>2, <3>3, <3>4
  <2>2. QED BY <1>1, <1>2, <1>3, <1>4, <1>7, <2>1, GoesOn DEF Pcs
<1>8. QED BY <1>3, <1>6, <1>7 DEF Ledger

LEMMA UndoKept ==
  ASSUME IInv, NEW p \in Procs, Undo(p)
  PROVE  IInv'
<1>1. op[p].pc = "undo" /\ UNCHANGED <<buffers, sets, ledger>>
  BY DEF Undo, At
<1>2. op[p].pc \in Pcs
  BY <1>1 DEF Pcs
<1>3. PICK s : s = op[p].set
  OBVIOUS
<1>4. /\ op[p] \in OpRec /\ Made(p) /\ Window(p) /\ (s \notin doubt => Mid(p)) /\ op[p] # Idle
      /\ s \in Sets /\ op[p].copy \in ChangeSet /\ WellMade(s, sets[s])
      /\ op \in [Procs -> {Idle} \cup OpRec] /\ file \in Text /\ buffers \subseteq Text
      /\ sets \in [Sets -> ChangeSet]
      /\ ledger \in [Sets -> {"none", "committed", "reverted"}] /\ doubt \subseteq Sets
  BY <1>2, <1>3, InOperation
<1>5. /\ WellMade(s, op[p].copy) /\ sets[s].status # "none"
      /\ op[p].kind \in {"accept", "revert"}
  BY <1>1, <1>3, <1>4 DEF Made
<1>6. PICK st \in {"pending", "committed"} : st = IF op[p].kind = "accept" THEN "pending" ELSE "committed"
  OBVIOUS
<1>7. PICK o : o = [op[p] EXCEPT !.pc = "unsave", !.copy.status = st]
  OBVIOUS
<1>shape. /\ o \in OpRec /\ o.pc = "unsave" /\ o.kind = op[p].kind /\ o.set = s
      /\ o.copy \in ChangeSet /\ o.copy.status = st
      /\ o.copy.base = op[p].copy.base /\ o.copy.proposed = op[p].copy.proposed
  <2>1. Onto(op[p], o, "unsave", st)
    BY <1>4, <1>7, Onward DEF Pcs
  <2>2. QED BY <1>3, <2>1 DEF Onto
<1>8. WellMade(s, o.copy)
  BY <1>5, <1>shape DEF WellMade
<1>9. ASSUME op'[p] = o
      PROVE  Made(p)' /\ Window(p)'
  <2>1. ~Wrote(p)'
    BY <1>shape, <1>9 DEF Wrote
  <2>2. Made(p)'
    BY <1>1, <1>5, <1>shape, <1>8, <1>9 DEF Made, WellMade
  <2>3. Window(p)'
    BY <1>shape, <1>9, <2>1 DEF Window
  <2>4. QED BY <2>2, <2>3
<1>10. CASE Writes(p, Undone(op[p].kind, op[p].copy), o)
  <2>1. PICK text \in Text : text = Undone(op[p].kind, op[p].copy)
    BY <1>4 DEF Undone, Replaces, ChangeSet
  <2>2. op[p].kind = "accept" => s \notin text.edits
    BY <1>5, <2>1 DEF Undone, Replaces, WellMade
  <2>3. s \notin doubt => ledger[s] = IF o.kind = "accept" THEN "none" ELSE "committed"
    BY <1>1, <1>3, <1>4, <1>shape DEF Mid, Wrote
  <2>4. ASSUME op'[p] = o, file' = text
        PROVE  s \notin doubt => Mid(p)'
    BY <1>1, <1>6, <1>shape, <2>2, <2>3, <2>4 DEF Mid, Wrote
  <2>5. Writes(p, text, o) /\ o.set = s
    BY <1>3, <1>shape, <1>10, <2>1
  <2>6. QED BY <1>1, <1>2, <1>3, <1>shape, <1>9, <2>4, <2>5, WritesKept
<1>11. CASE op' = [op EXCEPT ![p] = o] /\ doubt' = doubt \cup {s} /\ UNCHANGED file
  <2>1. /\ op'[p] = o /\ op' \in [Procs -> {Idle} \cup OpRec]
        /\ \A q \in Procs \ {p} : op'[q] = op[q]
    BY <1>4, <1>shape, <1>11
  <2>2. TypeInv'
    BY <1>1, <1>4, <1>11, <2>1, ShapesKept
  <2>3. \A q \in Procs \ {p} : Watches(q)
    BY <1>11, <2>1 DEF Watches, Same
  <2>4. MadeInv' /\ WindowInv' /\ StatusInv'
    BY <1>1, <1>3, <1>4, <1>shape, <1>9, <1>11, <2>1, <2>3, OwnStep DEF IInv
  <2>5. QED BY <2>2, <2>4 DEF IInv
<1>12. QED BY <1>3, <1>6, <1>7, <1>10, <1>11 DEF Undo

LEMMA UnsaveKept ==
  ASSUME IInv, NEW p \in Procs, Unsave(p)
  PROVE  IInv'
<1>1. op[p].pc = "unsave" /\ UNCHANGED <<file, buffers, ledger>> /\ Done(p)
  BY DEF Unsave, At
<1>2. op[p].pc \in Pcs
  BY <1>1 DEF Pcs
<1>3. PICK s : s = op[p].set
  OBVIOUS
<1>4. /\ op[p] \in OpRec /\ Made(p) /\ (s \notin doubt => Mid(p)) /\ op[p] # Idle
      /\ s \in Sets /\ op[p].copy \in ChangeSet
      /\ op \in [Procs -> {Idle} \cup OpRec] /\ file \in Text /\ buffers \subseteq Text
      /\ sets \in [Sets -> ChangeSet]
      /\ ledger \in [Sets -> {"none", "committed", "reverted"}] /\ doubt \subseteq Sets
  BY <1>2, <1>3, InOperation
<1>5. WellMade(s, op[p].copy) /\ op[p].kind \in {"accept", "revert"}
  BY <1>1, <1>3, <1>4 DEF Made
<1>6. CASE doubt' = doubt \cup {s} /\ UNCHANGED sets
  BY <1>1, <1>2, <1>3, <1>6, StopKept
<1>7. CASE sets' = [sets EXCEPT ![s] = op[p].copy] /\ doubt' = doubt
  <2>1. /\ sets'[s] = op[p].copy /\ sets' \in [Sets -> ChangeSet]
        /\ \A r \in Sets \ {s} : sets'[r] = sets[r]
    BY <1>4, <1>7
  <2>2. op'[p] = Idle /\ (\A q \in Procs \ {p} : op'[q] = op[q])
        /\ op' \in [Procs -> {Idle} \cup OpRec]
    BY <1>1, <1>4, DoneEffect
  <2>3. TypeInv'
    BY <1>1, <1>4, <1>7, <2>1, <2>2, ShapesKept
  <2>4. \A q \in Procs \ {p} : Watches(q)
    BY <1>1, <2>2 DEF Watches, Same
  <2>5. s \notin doubt => Faithful(s)'
    BY <1>1, <1>3, <1>4, <1>5, <2>1 DEF Mid, Faithful, Wrote
  <2>6. MadeInv' /\ WindowInv' /\ StatusInv'
    BY <1>1, <1>3, <1>4, <1>5, <1>7, <2>1, <2>2, <2>4, <2>5, OwnStep DEF IInv
  <2>7. QED BY <2>3, <2>6 DEF IInv
<1>8. QED BY <1>3, <1>6, <1>7 DEF Unsave

LEMMA StartKept ==
  ASSUME IInv, NEW p \in Procs, NEW s \in Sets,
         NEW kind \in {"accept", "refresh", "revert", "reject"}, Start(p, s, kind)
  PROVE  IInv'
<1>1. /\ op \in [Procs -> {Idle} \cup OpRec] /\ file \in Text /\ buffers \subseteq Text
      /\ sets \in [Sets -> ChangeSet]
      /\ ledger \in [Sets -> {"none", "committed", "reverted"}] /\ doubt \subseteq Sets
  BY DEF IInv, TypeInv, TypeOK
<1>2. /\ UNCHANGED <<file, buffers, sets, ledger>> /\ op[p] = Idle /\ sets[s].status # "none"
      /\ doubt' = IF Busy(s) THEN doubt \cup {s} ELSE doubt
  BY DEF Start
<1>3. PICK pc \in {"look", "load"} :
        op' = [op EXCEPT ![p] = [pc |-> pc, kind |-> kind, set |-> s, copy |-> Unused,
                                 overtaken |-> FALSE]]
  BY DEF Start
<1>4. PICK o : o = [pc |-> pc, kind |-> kind, set |-> s, copy |-> Unused,
                    overtaken |-> FALSE]
  OBVIOUS
<1>5. o.pc = pc /\ o.set = s /\ o \in OpRec
  <2>1. o.pc = pc /\ o.set = s
    BY <1>4
  <2>2. Unused \in ChangeSet /\ kind \in Kinds /\ FALSE \in BOOLEAN
    BY BlankShape DEF Kinds
  <2>3. o \in OpRec
    BY <1>4, <2>2 DEF OpRec
  <2>4. QED BY <2>1, <2>3
<1>6. /\ op'[p] = o /\ op' \in [Procs -> {Idle} \cup OpRec] /\ o # Idle
      /\ \A q \in Procs \ {p} : op'[q] = op[q]
  BY <1>1, <1>3, <1>4, <1>5, IdleIsNot
<1>7. TypeInv'
  BY <1>1, <1>2, <1>6, ShapesKept
<1>8. \A q \in Procs \ {p} : Watches(q) /\ Same(q)
  BY <1>2, <1>6 DEF Watches, Same
<1>9. MadeInv'
  <2>1. \A q \in Procs \ {p} : Made(q)'
    BY <1>2, <1>6 DEF IInv, MadeInv, Made
  <2>2. Made(p)'
    BY <1>2, <1>5, <1>6 DEF Made
  <2>3. QED BY <1>2, <2>1, <2>2 DEF IInv, MadeInv
<1>10. WindowInv'
  <2>1. \A q \in Procs \ {p} : Window(q)'
    BY <1>7, <1>8, OtherWindow DEF IInv, WindowInv
  <2>2. Window(p)'
    BY <1>5, <1>6 DEF Window, Wrote
  <2>3. QED BY <2>1, <2>2 DEF WindowInv
<1>11. StatusInv'
  <2>1. ASSUME NEW q \in Procs, NEW w \in Procs, op'[q] # Idle, op'[w] # Idle,
               op'[q].set = op'[w].set, q # w
        PROVE  op'[q].set \in doubt'
    <3>1. CASE q # p /\ w # p
      BY <1>2, <1>6, <2>1, <3>1 DEF IInv, StatusInv
    <3>2. CASE q = p \/ w = p
      <4>1. Busy(s) /\ op'[q].set = s
        BY <1>5, <1>6, <2>1, <3>2 DEF Busy
      <4>2. QED BY <1>2, <4>1
    <3>3. QED BY <3>1, <3>2
  <2>2. ASSUME NEW r \in Sets \ doubt', ~(\E q \in Procs : op'[q] # Idle /\ op'[q].set = r)
        PROVE  Faithful(r)'
    <3>1. ~Busy(r)
      BY <1>2, <1>6, <2>2 DEF Busy
    <3>2. Faithful(r)
      BY <1>2, <2>2, <3>1 DEF IInv, StatusInv
    <3>3. QED BY <1>2, <3>2 DEF Faithful
  <2>3. ASSUME NEW q \in Procs, op'[q] # Idle, op'[q].set \notin doubt'
        PROVE  Mid(q)'
    <3>1. CASE q = p
      <4>1. ~Busy(s) /\ s \notin doubt
        BY <1>2, <1>5, <1>6, <2>3, <3>1
      <4>2. Faithful(s)
        BY <4>1 DEF IInv, StatusInv
      <4>3. QED BY <1>2, <1>5, <1>6, <3>1, <4>2 DEF Mid, Wrote, Faithful
    <3>2. CASE q # p
      <4>1. op[q] # Idle /\ op[q].set \notin doubt /\ op'[q] = op[q]
        BY <1>2, <1>6, <2>3, <3>2
      <4>2. Mid(q)
        BY <4>1 DEF IInv, StatusInv
      <4>3. QED BY <1>2, <1>8, <3>2, <4>1, <4>2, OtherMid DEF IInv
    <3>3. QED BY <3>1, <3>2
  <2>4. QED BY <2>1, <2>2, <2>3 DEF StatusInv, Busy
<1>12. QED BY <1>7, <1>9, <1>10, <1>11 DEF IInv

LEMMA ProposeKept ==
  ASSUME IInv, NEW s \in Sets, Propose(s)
  PROVE  IInv'
<1>1. /\ op \in [Procs -> {Idle} \cup OpRec] /\ file \in Text /\ buffers \subseteq Text
      /\ sets \in [Sets -> ChangeSet]
      /\ ledger \in [Sets -> {"none", "committed", "reverted"}] /\ doubt \subseteq Sets
  BY DEF IInv, TypeInv, TypeOK
<1>2. /\ UNCHANGED <<file, buffers, ledger, op, doubt>> /\ sets[s].status = "none"
      /\ s \notin file.edits
  BY DEF Propose
<1>3. PICK set : set = [status |-> "pending", base |-> file, proposed |-> Applied(file, s)]
  OBVIOUS
<1>4. set \in ChangeSet /\ WellMade(s, set) /\ set.status = "pending"
  BY <1>1, <1>2, <1>3, AppliedShape DEF ChangeSet, WellMade
<1>5. /\ sets' \in [Sets -> ChangeSet] /\ sets'[s] = set
      /\ \A r \in Sets \ {s} : sets'[r] = sets[r]
  BY <1>1, <1>3, <1>4 DEF Propose
<1>6. TypeInv'
  BY <1>1, <1>2, <1>5, ShapesKept
<1>7. \A q \in Procs : Watches(q)
  BY <1>2 DEF Watches, Same
<1>8. MadeInv' /\ WindowInv' /\ StatusInv'
  BY <1>2, <1>4, <1>5, <1>7, NobodysStep DEF IInv
<1>9. QED BY <1>6, <1>8 DEF IInv

LEMMA UserKept ==
  ASSUME IInv, User
  PROVE  IInv'
<1>1. /\ op \in [Procs -> {Idle} \cup OpRec] /\ file \in Text /\ buffers \subseteq Text
      /\ sets \in [Sets -> ChangeSet]
      /\ ledger \in [Sets -> {"none", "committed", "reverted"}] /\ doubt \subseteq Sets
  BY DEF IInv, TypeInv, TypeOK
<1>2. /\ UNCHANGED <<sets, ledger>> /\ file' \in Text /\ buffers' \subseteq Text
      /\ (op' = op /\ file' = file) \/ op' = Overtaken(op)
      /\ doubt \subseteq doubt' /\ doubt' \subseteq doubt \cup file'.edits
      /\ \A s \in Sets \ doubt' : s \in file'.edits => s \in file.edits
  <2>1. CASE Type
    BY <1>1, <2>1 DEF Type
  <2>2. CASE UserSaves
    BY <1>1, <2>2 DEF UserSaves
  <2>3. CASE CloseBuffer
    BY <1>1, <2>3 DEF CloseBuffer
  <2>4. CASE EditFile
    BY <1>1, <2>4 DEF EditFile
  <2>5. CASE Publish
    BY <1>1, <2>5 DEF Publish
  <2>6. QED BY <2>1, <2>2, <2>3, <2>4, <2>5 DEF User
<1>3. op' \in [Procs -> {Idle} \cup OpRec] /\ doubt' \subseteq Sets
  BY <1>1, <1>2, OvertakenEffect DEF Text
<1>4. TypeInv'
  BY <1>1, <1>2, <1>3, ShapesKept
<1>5. \A q \in Procs : Watches(q)
  <2>1. CASE op' = op /\ file' = file
    BY <2>1 DEF Watches, Same
  <2>2. CASE op' = Overtaken(op)
    BY <1>1, <2>2, OvertakenWatches
  <2>3. QED BY <1>2, <2>1, <2>2
<1>6. MadeInv' /\ WindowInv' /\ StatusInv'
  BY <1>2, <1>5, NobodysStep DEF IInv
<1>7. QED BY <1>4, <1>6 DEF IInv

LEMMA CrashKept ==
  ASSUME IInv, NEW p \in Procs, Crash(p)
  PROVE  IInv'
<1>1. /\ op[p] # Idle /\ doubt' = doubt \cup {op[p].set} /\ Done(p)
      /\ UNCHANGED <<file, buffers, sets, ledger>>
  BY DEF Crash
<1>2. op[p].pc \in Pcs
  BY <1>1 DEF IInv, TypeInv, OpRec, Pcs
<1>3. QED BY <1>1, <1>2, StopKept

\* A step of an operation leaves another where it is, or overtakes it.
LEMMA OtherPlaces ==
  ASSUME IInv, NEW p \in Procs, NEW q \in Procs \ {p},
         Operation(q)
  PROVE  op'[p] = op[p] \/ op'[p] = Overtaken(op)[p]
<1>1. \A pc, copy : Goto(q, pc, copy) => op'[p] = op[p]
  BY DEF Goto, IInv, TypeInv
<1>2. Done(q) => op'[p] = op[p]
  BY DEF Done, IInv, TypeInv
<1>3. Overtaken(op) \in [Procs -> {Idle} \cup OpRec]
  BY OvertakenEffect DEF IInv, TypeInv
<1>4. \A text, o : Writes(q, text, o) => op'[p] = Overtaken(op)[p]
  BY <1>3 DEF Writes
<1>5. ASSUME NEW s \in Sets, NEW kind, Start(q, s, kind) PROVE op'[p] = op[p]
  BY <1>5 DEF Start, IInv, TypeInv
<1>6. Look(q) \/ Mark(q) => op'[p] = op[p]
  BY <1>1, <1>2 DEF Look, Mark
<1>7. Load(q) => op'[p] = op[p]
  BY <1>1, <1>2 DEF Load
<1>8. ASSUME Read(q) PROVE op'[p] = op[p]
  <2>1. op[q].pc = "read" /\ op[q].pc \in Pcs
    BY <1>8 DEF Read, At, Pcs
  <2>2. op[q].kind \in {"accept", "refresh", "revert"}
    BY <2>1, InOperation DEF Made, Kinds
  <2>3. QED BY <1>1, <1>2, <1>8, <2>2 DEF Read
<1>9. Write(q) => op'[p] = op[p] \/ op'[p] = Overtaken(op)[p]
  BY <1>2, <1>4 DEF Write
<1>10. Save(q) \/ Ledger(q) \/ Unsave(q) \/ Crash(q) => op'[p] = op[p]
  BY <1>1, <1>2 DEF Save, Ledger, Unsave, Crash
<1>11. ASSUME Undo(q) PROVE op'[p] = op[p] \/ op'[p] = Overtaken(op)[p]
  <2>1. PICK back : \/ Writes(q, Undone(op[q].kind, op[q].copy), back)
                    \/ op' = [op EXCEPT ![q] = back]
    BY <1>11 DEF Undo
  <2>2. op' = [op EXCEPT ![q] = back] => op'[p] = op[p]
    BY DEF IInv, TypeInv
  <2>3. QED BY <1>4, <2>1, <2>2
<1>12. QED
  BY <1>5, <1>6, <1>7, <1>8, <1>9, <1>10, <1>11 DEF Operation

LEMMA InitHolds == ASSUME Init PROVE IInv
<1>1. /\ \A p \in Procs : op[p] = Idle
      /\ \A s \in Sets : sets[s] = Unused /\ ledger[s] = "none"
      /\ file = Blank /\ doubt = {}
  BY DEF Init
<1>2. Unused.status = "none" /\ Blank.edits = {}
  BY DEF Unused, Blank
<1>3. TypeInv
  BY <1>1, BlankShape DEF Init, TypeInv, TypeOK
<1>4. MadeInv /\ WindowInv /\ StatusInv
  BY <1>1, <1>2 DEF MadeInv, Made, WindowInv, Window, StatusInv, Faithful
<1>5. QED BY <1>3, <1>4 DEF IInv

LEMMA StepKept == ASSUME IInv, [Next]_vars PROVE IInv'
<1>1. CASE UNCHANGED vars
  <2>1. /\ UNCHANGED <<file, buffers, sets, ledger, op, doubt>>
        /\ op \in [Procs -> {Idle} \cup OpRec] /\ file \in Text /\ buffers \subseteq Text
        /\ sets \in [Sets -> ChangeSet]
        /\ ledger \in [Sets -> {"none", "committed", "reverted"}] /\ doubt \subseteq Sets
    BY <1>1 DEF vars, IInv, TypeInv, TypeOK
  <2>2. TypeInv' /\ \A q \in Procs : Watches(q)
    BY <2>1, ShapesKept DEF Watches, Same
  <2>3. QED BY <2>1, <2>2, NobodysStep DEF IInv
<1>2. ASSUME NEW p \in Procs, Operation(p)
      PROVE  IInv'
  BY <1>2, StartKept, LookKept, MarkKept, LoadKept, ReadKept, WriteKept, SaveKept, LedgerKept,
     UndoKept, UnsaveKept, CrashKept DEF Operation
<1>3. QED BY <1>1, <1>2, UserKept, ProposeKept DEF Next

LEMMA Invariance == Spec => []IInv
BY InitHolds, StepKept, PTL DEF Spec

\* Every variable keeps its shape, for any number of processes and change sets.
THEOREM TypeCorrect == Spec => []TypeOK
<1>1. IInv => TypeOK
  BY DEF IInv, TypeInv
<1>2. QED BY <1>1, Invariance, PTL

\* A set, its ledger entry and the text agree about a set nobody works on, through
\* accepts and reverts that are refused, that fail at any of their writes and that
\* are undone: accept_gated, refresh, revert and reject of changes.rs.
THEOREM SetsSayWhatIs == Spec => []StatusFaithful
<1>1. IInv => StatusFaithful
  BY DEF IInv, StatusInv, Faithful, StatusFaithful
<1>2. QED BY <1>1, Invariance, PTL

\* A write of an accept, a revert or their undoing changes its own edit in the text
\* and nothing else, unless somebody wrote the file after the operation read it.
THEOREM EditsStayApart == Spec => OnlyItsOwnEdit
<1>1. ASSUME IInv, Next, NEW p \in Procs,
             op[p].pc \in {"write", "undo"}, op'[p].pc \in {"save", "unsave"}, ~op[p].overtaken
      PROVE  file'.rev = file.rev /\ file'.edits \ {op[p].set} = file.edits \ {op[p].set}
  <2>1. /\ op[p] \in OpRec /\ op[p] # Idle /\ Made(p) /\ Window(p) /\ op[p].set \in Sets
        /\ op[p].copy \in ChangeSet /\ op \in [Procs -> {Idle} \cup OpRec]
    BY <1>1, InOperation DEF Pcs
  <2>2. PICK s, copy, kind : s = op[p].set /\ copy = op[p].copy /\ kind = op[p].kind
    OBVIOUS
  <2>3. /\ WellMade(s, copy) /\ kind \in {"accept", "revert"}
        /\ file \in {copy.base, copy.proposed}
    BY <1>1, <2>1, <2>2 DEF Made, Window, Wrote, Replaces, Put
  <2>4. /\ copy.base \in Text /\ copy.proposed.rev = copy.base.rev
        /\ copy.proposed.edits = copy.base.edits \cup {s}
    <3>1. copy \in ChangeSet /\ s \in Sets /\ copy.proposed = Applied(copy.base, s)
      BY <2>1, <2>2, <2>3 DEF WellMade
    <3>2. copy.base \in Text
      BY <3>1 DEF ChangeSet
    <3>3. QED BY <3>1, <3>2, AppliedShape
  <2>5. file' \in {file, copy.base, copy.proposed}
    <3>1. CASE User \/ \E s2 \in Sets : Propose(s2)
      <4>1. op'[p].pc = op[p].pc
        <5>1. op' = op \/ op' = Overtaken(op)
          BY <3>1 DEF User, Publish, Type, UserSaves, CloseBuffer, EditFile, Propose
        <5>2. Watches(p) => op'[p].pc = op[p].pc
          BY <2>1, SameEffect DEF Watches
        <5>3. QED BY <2>1, <5>1, <5>2, OvertakenWatches
      <4>2. QED BY <1>1, <4>1
    <3>2. ASSUME NEW q \in Procs \ {p}, Operation(q)
          PROVE  file' \in {file, copy.base, copy.proposed}
      <4>1. op'[p] = op[p] \/ op'[p] = Overtaken(op)[p]
        BY <1>1, <2>1, <3>2, OtherPlaces
      <4>2. Watches(p) => op'[p].pc = op[p].pc
        BY <2>1, SameEffect DEF Watches
      <4>3. op'[p].pc = op[p].pc
        BY <2>1, <4>1, <4>2, OvertakenWatches
      <4>4. QED BY <1>1, <4>3
    <3>3. CASE Operation(p)
      <4>1. Write(p) \/ Undo(p) \/ UNCHANGED file
        BY <3>3 DEF Operation, Start, Look, Mark, Load, Read, Save, Ledger, Unsave, Crash
      <4>2. QED BY <2>2, <4>1 DEF Write, Undo, Writes, Undone, Replaces
    <3>4. QED BY <1>1, <3>1, <3>2, <3>3 DEF Next
  <2>6. QED BY <2>2, <2>3, <2>4, <2>5
<1>2. IInv /\ [Next]_vars =>
        [\A p \in Procs :
           /\ op[p].pc \in {"write", "undo"} /\ op'[p].pc \in {"save", "unsave"}
           /\ ~op[p].overtaken
           => /\ file'.rev = file.rev
              /\ file'.edits \ {op[p].set} = file.edits \ {op[p].set}]_vars
  BY <1>1
<1>3. QED BY <1>2, Invariance, PTL DEF Spec, OnlyItsOwnEdit
===============================================================================
