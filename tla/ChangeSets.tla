----------------------------- MODULE ChangeSets -----------------------------
(***************************************************************************)
(* Text-editor change sets (src/host/changes.rs) of one file.  An agent    *)
(* proposes an edit, which is kept in a file of its own until it is         *)
(* accepted, refreshed, rejected or reverted.  These operations run in the *)
(* host and in any number of command-line processes; nothing locks the     *)
(* text, a set or the ledger, so every read and every write of a file is a *)
(* step of its own, and the user saves texts in between.                   *)
(*                                                                         *)
(* A text is a revision of the user's and the edits applied to it.  Any    *)
(* write may fail and leave the file as it was; a process may die between  *)
(* two steps.                                                              *)
(***************************************************************************)
EXTENDS Naturals

CONSTANTS
  Procs,        \* processes that work on change sets
  Sets,         \* change sets, each an edit of its own
  MaxOps,       \* bound on the operations started
  MaxRev        \* bound on the user's revisions

ASSUME ChangesAssumption == MaxOps \in Nat /\ MaxRev \in Nat

Text == [rev : 0 .. MaxRev, edits : SUBSET Sets]

VARIABLES
  file,         \* the text on disk
  buffers,      \* texts the host published from open editors, at most one
  sets,         \* change-sets/<id>.json
  ledger,       \* the last entry of each set in the ledger
  op,           \* the operation each process is in
  rev,          \* the last revision of the user
  started,
  doubt         \* history: sets two operations worked on at once, whose operation
                \* died, whose own record could not be written, or whose edit came
                \* back with a text that somebody had read earlier

vars == <<file, buffers, sets, ledger, op, rev, started, doubt>>

Blank == [rev |-> 0, edits |-> {}]
Unused == [status |-> "none", base |-> Blank, proposed |-> Blank]

ChangeSet == [status : {"none", "pending", "stale", "committed", "reverted", "rejected"},
              base : Text, proposed : Text]

Idle == [pc |-> "idle"]
Busy(s) == \E p \in Procs : op[p] # Idle /\ op[p].set = s

Done(p) == op' = [op EXCEPT ![p] = Idle]

-----------------------------------------------------------------------------
Init ==
  /\ file = Blank
  /\ buffers = {}
  /\ sets = [s \in Sets |-> Unused]
  /\ ledger = [s \in Sets |-> "none"]
  /\ op = [p \in Procs |-> Idle]
  /\ rev = 0
  /\ started = 0
  /\ doubt = {}

-----------------------------------------------------------------------------
(* The text, its editor, its user.                                           *)

\* apply_once: the old string of an edit is there once, unless the edit has been
\* applied or the user's text has no place for it.
Applied(text, s) == [text EXCEPT !.edits = @ \cup {s}]

\* Somebody else writes the file: who has read it holds an older text.
Overtaken(o) == [p \in Procs |->
  IF o[p] # Idle /\ o[p].pc \notin {"look", "mark", "load", "read"}
  THEN [o[p] EXCEPT !.overtaken = TRUE] ELSE o[p]]

NewText(t) ==
  /\ rev < MaxRev
  /\ rev' = rev + 1
  /\ t.rev = rev + 1

\* An editor opens the file or takes over what is on disk: the host publishes
\* the texts of clean editors too.
Publish ==
  /\ buffers # {file} /\ buffers' = {file}
  /\ UNCHANGED <<file, sets, ledger, op, rev, started, doubt>>

Type ==
  /\ \E from \in buffers, t \in Text :
       NewText(t) /\ t.edits \subseteq from.edits /\ buffers' = {t}
  /\ UNCHANGED <<file, sets, ledger, op, started, doubt>>

\* More than the editor allows, which saves only what was typed and asks first
\* when the disk has changed under it.
UserSaves ==
  /\ \E t \in buffers : t # file /\ file' = t
  /\ op' = Overtaken(op)
  /\ doubt' = doubt \cup (file'.edits \ file.edits)
  /\ UNCHANGED <<buffers, sets, ledger, rev, started>>

CloseBuffer ==
  /\ buffers # {} /\ buffers' = {}
  /\ UNCHANGED <<file, sets, ledger, op, rev, started, doubt>>

\* Another program changes the file.
EditFile ==
  /\ \E t \in Text : NewText(t) /\ t.edits \subseteq file.edits /\ file' = t
  /\ op' = Overtaken(op)
  /\ UNCHANGED <<buffers, sets, ledger, started, doubt>>

-----------------------------------------------------------------------------
(* Operations.                                                               *)

\* prepare_edit: nothing refers to the set before its file is written.
Propose(s) ==
  /\ sets[s].status = "none"
  /\ s \notin file.edits
  /\ sets' = [sets EXCEPT ![s] =
       [status |-> "pending", base |-> file, proposed |-> Applied(file, s)]]
  /\ UNCHANGED <<file, buffers, ledger, op, rev, started, doubt>>

Start(p, s, kind) ==
  /\ op[p] = Idle
  /\ sets[s].status # "none"
  /\ started < MaxOps
  /\ started' = started + 1
  /\ op' = [op EXCEPT ![p] = [pc |-> IF kind = "accept" THEN "look" ELSE "load",
              kind |-> kind, set |-> s, copy |-> Unused, overtaken |-> FALSE]]
  /\ doubt' = IF Busy(s) THEN doubt \cup {s} ELSE doubt
  /\ UNCHANGED <<file, buffers, sets, ledger, rev>>

At(p, pc) == op[p].pc = pc

Goto(p, pc, copy) == op' = [op EXCEPT ![p].pc = pc, ![p].copy = copy]

\* accept_gated: an open editor with another text makes the set stale; then the
\* edit is admitted, or not.  The editor that shows the set does the same: it
\* marks it stale over another text and commits it without the admission.
Look(p) ==
  /\ At(p, "look")
  /\ LET set == sets[op[p].set] IN
       IF set.status = "pending" /\ \E t \in buffers : t # set.base
       THEN Goto(p, "mark", Unused)
       ELSE Goto(p, "load", Unused) \/ Done(p)
  /\ UNCHANGED <<file, buffers, sets, ledger, rev, started, doubt>>

\* mark_stale reads the set again.
Mark(p) ==
  /\ At(p, "mark")
  /\ LET set == sets[op[p].set] IN
       IF set.status = "pending" THEN Goto(p, "save", [set EXCEPT !.status = "stale"])
       ELSE Done(p)
  /\ UNCHANGED <<file, buffers, sets, ledger, rev, started, doubt>>

Allowed(kind) ==
  CASE kind = "accept" -> {"pending"}
    [] kind = "revert" -> {"committed"}
    [] OTHER           -> {"pending", "stale"}

\* From here on the operation works with its own copy of the set.
Load(p) ==
  /\ At(p, "load")
  /\ LET set == sets[op[p].set] IN
       IF set.status \notin Allowed(op[p].kind) THEN Done(p)
       ELSE IF op[p].kind = "reject" THEN Goto(p, "save", [set EXCEPT !.status = "rejected"])
       ELSE Goto(p, "read", set)
  /\ UNCHANGED <<file, buffers, sets, ledger, rev, started, doubt>>

\* Mutant: a set is accepted whatever the file says.
ReplacesAny(kind, copy) == file

\* The text an accept or a revert replaces.
Replaces(kind, copy) == IF kind = "accept" THEN copy.base ELSE copy.proposed

Rebased(copy, s) ==
  [status |-> "pending", base |-> file, proposed |-> Applied(file, s)]

Read(p) ==
  /\ At(p, "read")
  /\ LET copy == op[p].copy
         kind == op[p].kind IN
       CASE kind = "refresh" ->
              \/ /\ op[p].set \notin file.edits
                 /\ Goto(p, "save", Rebased(copy, op[p].set))
              \/ Done(p)
         [] kind # "refresh" /\ file = Replaces(kind, copy) -> Goto(p, "write", copy)
         [] kind = "accept" /\ file # Replaces(kind, copy) ->
              Goto(p, "save", [copy EXCEPT !.status = "stale"])
         [] kind = "revert" /\ file # Replaces(kind, copy) -> Done(p)
  /\ UNCHANGED <<file, buffers, sets, ledger, rev, started, doubt>>

Writes(p, text, o) ==
  /\ file' = text
  /\ op' = [Overtaken(op) EXCEPT ![p] = o]
  /\ doubt' = doubt \cup ((text.edits \ file.edits) \ {op[p].set})

Write(p) ==
  /\ At(p, "write")
  /\ LET copy == op[p].copy IN
       \/ IF op[p].kind = "accept"
          THEN Writes(p, copy.proposed,
                 [op[p] EXCEPT !.pc = "save", !.copy.status = "committed"])
          ELSE Writes(p, copy.base,
                 [op[p] EXCEPT !.pc = "save", !.copy.status = "reverted"])
       \/ Done(p) /\ UNCHANGED <<file, doubt>>
  /\ UNCHANGED <<buffers, sets, ledger, rev, started>>

Save(p) ==
  /\ At(p, "save")
  /\ \/ /\ sets' = [sets EXCEPT ![op[p].set] = op[p].copy]
        /\ IF op[p].copy.status \in {"committed", "reverted"}
           THEN Goto(p, "ledger", op[p].copy) ELSE Done(p)
        /\ UNCHANGED doubt
     \/ /\ Done(p)
        /\ doubt' = doubt \cup {op[p].set}
        /\ UNCHANGED sets
  /\ UNCHANGED <<file, buffers, ledger, rev, started>>

\* Mutant: the entry names the request.
EntryOfRequest(kind) == kind

\* The action of a ledger entry, by the status it gives a set.
Entry(kind) == IF kind = "accept" THEN "committed" ELSE "reverted"

Ledger(p) ==
  /\ At(p, "ledger")
  /\ \/ /\ ledger' = [ledger EXCEPT ![op[p].set] = Entry(op[p].kind)]
        /\ Done(p)
     \/ /\ Goto(p, "undo", op[p].copy)
        /\ UNCHANGED ledger
  /\ UNCHANGED <<file, buffers, sets, rev, started, doubt>>

\* Mutant: an accept that cannot be recorded only takes back its status.
UndoneKeeps(kind, copy) == copy.proposed

\* What is put back when the ledger cannot be written.
Undone(kind, copy) == Replaces(kind, copy)

Undo(p) ==
  /\ At(p, "undo")
  /\ LET kind == op[p].kind
         back == [op[p] EXCEPT !.pc = "unsave",
                    !.copy.status = IF kind = "accept" THEN "pending" ELSE "committed"] IN
       \/ Writes(p, Undone(kind, op[p].copy), back)
       \/ /\ op' = [op EXCEPT ![p] = back]
          /\ doubt' = doubt \cup {op[p].set}
          /\ UNCHANGED file
  /\ UNCHANGED <<buffers, sets, ledger, rev, started>>

Unsave(p) ==
  /\ At(p, "unsave")
  /\ \/ /\ sets' = [sets EXCEPT ![op[p].set] = op[p].copy]
        /\ UNCHANGED doubt
     \/ /\ doubt' = doubt \cup {op[p].set}
        /\ UNCHANGED sets
  /\ Done(p)
  /\ UNCHANGED <<file, buffers, ledger, rev, started>>

Crash(p) ==
  /\ op[p] # Idle
  /\ doubt' = doubt \cup {op[p].set}
  /\ Done(p)
  /\ UNCHANGED <<file, buffers, sets, ledger, rev, started>>

-----------------------------------------------------------------------------
User == Publish \/ Type \/ UserSaves \/ CloseBuffer \/ EditFile

Operation(p) ==
  \/ \E s \in Sets, kind \in {"accept", "refresh", "revert", "reject"} : Start(p, s, kind)
  \/ Look(p) \/ Mark(p) \/ Load(p) \/ Read(p) \/ Write(p) \/ Save(p)
  \/ Ledger(p) \/ Undo(p) \/ Unsave(p)
  \/ Crash(p)

Next ==
  \/ User
  \/ \E s \in Sets : Propose(s)
  \/ \E p \in Procs : Operation(p)

Spec == Init /\ [][Next]_vars

-----------------------------------------------------------------------------
(* What change sets promise.                                                 *)

\* Every variable keeps its shape.
TypeOK ==
  /\ file \in Text
  /\ buffers \subseteq Text
  /\ sets \in [Sets -> ChangeSet]
  /\ ledger \in [Sets -> {"none", "committed", "reverted"}]
  /\ \A p \in Procs : op[p] # Idle => op[p].set \in Sets /\ op[p].copy \in ChangeSet
  /\ doubt \subseteq Sets

\* "A byte change on disk after propose marks the set stale and accept refuses it"
\* (changes.rs:6) holds up to one window: whatever was proposed, refreshed and
\* committed before, a write of an accept, a revert or their undoing changes its
\* own edit in the text and nothing else, the user's revision and the other edits
\* stay, unless somebody wrote the file after the operation had read it.
OnlyItsOwnEdit ==
  [][\A p \in Procs :
       /\ op[p].pc \in {"write", "undo"} /\ op'[p].pc \in {"save", "unsave"}
       /\ ~op[p].overtaken
       => /\ file'.rev = file.rev
          /\ file'.edits \ {op[p].set} = file.edits \ {op[p].set}]_vars

\* What a set says of itself is what the ledger and the text say, through
\* refused accepts and failed ledger writes: a set that is not committed is not in
\* the text, and the ledger has what was committed and reverted last.  Only two
\* operations on one set, a process that dies, a record that cannot be written or
\* a reader that saves a text from before part them.
StatusFaithful ==
  \A s \in Sets \ doubt : ~Busy(s) =>
    /\ ledger[s] = IF sets[s].status \in {"committed", "reverted"}
                   THEN sets[s].status ELSE "none"
    /\ sets[s].status # "committed" => s \notin file.edits
=============================================================================
