------------------------------ MODULE Installer ------------------------------
(***************************************************************************)
(* The installer of one channel (crates/distribution/src/transaction.rs):  *)
(* install, update, rollback, path registration, removal, and the recovery *)
(* of what a killed installer left behind, which the launcher runs too.    *)
(*                                                                         *)
(* Every action is one file operation of one process, or reads only.  A    *)
(* process may die between any two, any of them may fail, and the user may *)
(* edit the integrations at any time.                                      *)
(***************************************************************************)
EXTENDS Naturals, Sequences, FiniteSets

CONSTANTS
  Procs,     \* processes that run the installer or the launcher
  Versions,  \* packages; a version stands for its digest, build id and files
  None,
  Order,     \* the integrations, in the order they are prepared
  DropIns,   \* those of Order left alone when someone else's file is there
  Profiles,  \* those of Order that are shell profiles of the user
  Bundles,   \* those of Order that are copied application bundles
  Kinds,     \* the operations people start in a behaviour
  MaxStarts, MaxCrashes, MaxEdits  \* bounds

Paths == {Order[i] : i \in DOMAIN Order}
Files == Paths \ (Profiles \cup Bundles)

ASSUME InstallerAssumption ==
  /\ Order \in Seq(Paths)
  /\ \A i, j \in DOMAIN Order : Order[i] = Order[j] => i = j
  /\ Profiles \subseteq Paths /\ Bundles \subseteq Paths
  /\ Profiles \cap Bundles = {} /\ DropIns \subseteq Files
  /\ \A a, b \in Bundles : a = b   \* a package has one application
  /\ Versions \cap {"absent", "foreign", "link", "torn"} = {}
  /\ None \notin Versions \cup Procs
  /\ IsFiniteSet(Procs)
  /\ Kinds \subseteq {"install", "update", "rollback", "register",
                      "uninstall", "launch"}
  /\ MaxStarts \in Nat /\ MaxCrashes \in Nat /\ MaxEdits \in Nat

Activating == {"install", "update", "rollback"}

VARIABLES
  disk,        \* what is at each integration path
  aside,       \* the displaced bundle, in the scratch of the transaction
  receipt,     \* installation.json
  journal,     \* transaction.json
  generations, \* the packages under generations/
  op,          \* the operation of each process
  held,        \* the lock file each process holds, 0 if none
  lockFile,    \* the lock file at install.lock, 0 if there is none
  shared,      \* the process that holds the integration lock
  cut,         \* history: a removal began and has not completed
  touched,     \* history: paths the user ever edited
  late,        \* history: what the user edited since each process looked at it
  starts, crashes, edits

installation == <<receipt, journal, generations>>
locks   == <<held, lockFile, shared>>
counts  == <<starts, crashes, edits>>
vars == <<disk, aside, installation, op, locks, cut, touched, late, counts>>

-------------------------------------------------------------------------------
(* Contents.  A plain file is absent, foreign, or ours of some version; an     *)
(* app bundle may also be an old link into the installation, or torn by a      *)
(* removal that was cut short.  A profile has the user's text and our block,   *)
(* which the user may have changed.                                            *)
Contents == Versions \cup {"absent", "foreign", "link", "torn"}
ProfileTexts == [text: {"old", "edited"}, block: {"no", "yes", "changed"}]
Places(q) == IF q \in Profiles THEN ProfileTexts ELSE Contents

Receipts == [active: Versions, previous: Versions \cup {None},
             owned: [Files \cup Bundles -> Versions \cup {None}], path: BOOLEAN]

Transactions == [before: Receipts \cup {None}, after: Receipts,
                 changes: Seq([path: Paths, before: UNION {Places(q) : q \in Paths},
                               after: UNION {Places(q) : q \in Paths}])]

Owner(r, q) == IF r = None THEN None ELSE r.owned[q]

\* OwnedPath::matches of a path that is recorded
Matches(r, q) == Owner(r, q) # None /\ disk[q] = Owner(r, q)

Idle == [kind |-> "launch", pc |-> "idle", target |-> None, base |-> None,
         modify |-> FALSE, todo |-> <<>>, tx |-> None, then |-> "stop"]

\* A process sees what is at these paths.
Looks(p, paths) == late' = [late EXCEPT ![p] = @ \ paths]

Goto(p, pc) == op' = [op EXCEPT ![p].pc = pc]

Backwards(s) == [i \in 1 .. Len(s) |-> s[Len(s) + 1 - i]]

\* The function returns: both guards are dropped.
Return(p) ==
  /\ op' = [op EXCEPT ![p] = Idle]
  /\ held' = [held EXCEPT ![p] = 0]
  /\ shared' = IF shared = p THEN None ELSE shared
  /\ UNCHANGED lockFile

Init ==
  \E v \in Versions, links \in BOOLEAN, installed \in BOOLEAN :
    /\ receipt = IF ~installed THEN None
                 ELSE [active |-> v, previous |-> None, path |-> FALSE,
                       owned |-> [q \in Files \cup Bundles |-> v]]
    /\ disk = [q \in Paths |->
                 CASE q \in Profiles -> [text |-> "old", block |-> "no"]
                   [] q \in Bundles /\ links /\ ~installed -> "link"
                   [] OTHER -> IF installed THEN v ELSE "absent"]
    /\ generations = [w \in Versions |->
                        IF installed /\ w = v THEN "whole" ELSE "absent"]
    /\ journal = None /\ aside = "absent"
    /\ op = [p \in Procs |-> Idle]
    /\ held = [p \in Procs |-> 0]
    /\ lockFile = IF installed THEN 1 ELSE 0
    /\ shared = None
    /\ cut = FALSE /\ touched = {} /\ late = [p \in Procs |-> {}]
    /\ starts = 0 /\ crashes = 0 /\ edits = 0

-------------------------------------------------------------------------------
(* The start of an operation and its locks.                                    *)

Begin(p, kind, target, base, modify) ==
  op' = [op EXCEPT ![p] = [Idle EXCEPT !.kind = kind, !.pc = "lock",
             !.target = target, !.base = base, !.modify = modify]]

\* An update names the build its caller saw; a rollback reads the receipt
\* before it locks anything, and loads the package it names.
Start(p) ==
  /\ op[p].pc = "idle"
  /\ starts < MaxStarts
  /\ starts' = starts + 1
  /\ \E kind \in Kinds :
       \/ /\ kind = "install"
          /\ \E v \in Versions, m \in BOOLEAN : Begin(p, kind, v, None, m)
       \/ /\ kind = "update" /\ receipt # None
          /\ \E v \in Versions :
               Begin(p, kind, v, receipt.active, receipt.path)
       \/ /\ kind = "rollback" /\ receipt # None /\ receipt.previous # None
          /\ generations[receipt.previous] = "whole"
          /\ Begin(p, kind, receipt.previous, None, receipt.path)
       \/ /\ kind \in {"register", "uninstall", "launch"}
          /\ Begin(p, kind, None, None, FALSE)
  /\ Looks(p, Paths)   \* nothing that is there already comes late
  /\ UNCHANGED <<disk, aside, installation, locks, cut, touched, crashes, edits>>

\* lock creates the file if need be; it is the file that is locked, not its
\* name, so whoever opened a file that was unlinked still holds a lock.
LockChannel(p) ==
  /\ op[p].pc = "lock"
  /\ lockFile = 0 \/ \A q \in Procs : held[q] # lockFile
  /\ lockFile' = IF lockFile # 0 THEN lockFile
                 ELSE CHOOSE i \in 1 .. Cardinality(Procs) + 1 :
                        \A q \in Procs : held[q] # i
  /\ held' = [held EXCEPT ![p] = lockFile']
  /\ Goto(p, IF op[p].kind = "launch" THEN "locked" ELSE "shared")
  /\ UNCHANGED <<disk, aside, installation, shared, cut, touched, late, counts>>

RootExists == \/ lockFile # 0 \/ receipt # None \/ journal # None
              \/ \E v \in Versions : generations[v] # "absent"

LockIntegrations(p) ==
  /\ op[p].pc = "shared"
  /\ shared = None /\ RootExists
  /\ shared' = p
  /\ Goto(p, "locked")
  /\ UNCHANGED <<disk, aside, installation, held, lockFile, cut, touched, late, counts>>

-------------------------------------------------------------------------------
(* recover: the changes of the journal are undone last to first, then the      *)
(* receipt is put back, then the journal is removed.                           *)

Undoing(p, then) ==
  op' = [op EXCEPT ![p].pc = "undo", ![p].tx = journal, ![p].then = then,
                   ![p].todo = Backwards(journal.changes)]

\* A launcher recovers under the channel lock alone and starts the version of
\* the receipt; without the lock, it starts it as it is.
Recover(p) ==
  /\ op[p].pc = "locked"
  /\ IF journal # None THEN Undoing(p, "go") /\ UNCHANGED locks
     ELSE IF op[p].kind = "launch" THEN Return(p)
     ELSE Goto(p, "ready") /\ UNCHANGED locks
  /\ UNCHANGED <<disk, aside, installation, cut, touched, late, counts>>

Change(p) == Head(op[p].todo)
At(p, pc) == op[p].pc = pc /\ op[p].todo # <<>>
Done(p, pc) == op[p].pc = pc /\ op[p].todo = <<>>
Advance(p, pc) ==
  op' = [op EXCEPT ![p].pc = pc, ![p].todo = Tail(op[p].todo)]

\* Mutant: the path is restored whoever wrote it last.
FindAnything(p) ==
  /\ At(p, "undo") /\ Change(p).path \notin Bundles
  /\ Goto(p, "put")
  /\ Looks(p, {Change(p).path})
  /\ UNCHANGED <<disk, aside, installation, locks, cut, touched, counts>>

\* What this transaction wrote is found by its digest; anything else stays.
FindOurs(p) ==
  /\ At(p, "undo") /\ Change(p).path \notin Bundles
  /\ IF disk[Change(p).path] = Change(p).after THEN Goto(p, "put") ELSE Advance(p, "undo")
  /\ Looks(p, {Change(p).path})
  /\ UNCHANGED <<disk, aside, installation, locks, cut, touched, counts>>

\* Mutant: the backup is not written back.
PutNothing(p) ==
  /\ At(p, "put")
  /\ LET c == Change(p) IN
       disk' = IF c.path \in Files THEN [disk EXCEPT ![c.path] = "absent"] ELSE disk
  /\ Advance(p, "undo")
  /\ UNCHANGED <<aside, installation, locks, cut, touched, late, counts>>

\* Whatever is there by now is replaced by the backup, or removed.
PutBack(p) ==
  /\ At(p, "put")
  /\ disk' = [disk EXCEPT ![Change(p).path] = Change(p).before]
  /\ Advance(p, "undo")
  /\ UNCHANGED <<aside, installation, locks, cut, touched, late, counts>>

\* Mutant: whatever matches is taken for the copy of this transaction.
MatchesAfter(c) == disk[c.path] = c.after

\* restore_bundle: a copy of ours is removed first.
OursToRemove(c) == /\ aside # "absent" \/ c.before = "absent"
                   /\ disk[c.path] = c.after

FindBundle(p) ==
  /\ At(p, "undo") /\ Change(p).path \in Bundles
  /\ Goto(p, IF OursToRemove(Change(p)) THEN "clear" ELSE "restore")
  /\ Looks(p, {Change(p).path})
  /\ UNCHANGED <<disk, aside, installation, locks, cut, touched, counts>>

\* remove_dir_all takes more than one step.
TearBundle(p) ==
  /\ At(p, "clear") /\ disk[Change(p).path] # "absent"
  /\ disk' = [disk EXCEPT ![Change(p).path] = "torn"]
  /\ Goto(p, "tear")
  /\ UNCHANGED <<aside, installation, locks, cut, touched, late, counts>>

DropBundle(p) ==
  /\ At(p, "tear") /\ disk[Change(p).path] = "torn"
  /\ disk' = [disk EXCEPT ![Change(p).path] = "absent"]
  /\ Goto(p, "restore")
  /\ UNCHANGED <<aside, installation, locks, cut, touched, late, counts>>

RestoreBundle(p) ==
  /\ At(p, "restore")
  /\ LET b == Change(p).path IN
       IF aside # "absent" /\ disk[b] = "absent"
       THEN disk' = [disk EXCEPT ![b] = aside] /\ aside' = "absent"
       ELSE UNCHANGED <<disk, aside>>
  /\ Advance(p, "undo")
  /\ UNCHANGED <<installation, locks, cut, touched, late, counts>>

\* Mutant: the receipt of the interrupted transaction stays.
KeepReceipt(p) ==
  /\ Done(p, "undo")
  /\ receipt' = receipt
  /\ Goto(p, "undone")
  /\ UNCHANGED <<disk, aside, journal, generations, locks, cut, touched, late, counts>>

RestoreReceipt(p) ==
  /\ Done(p, "undo")
  /\ receipt' = op[p].tx.before
  /\ Goto(p, "undone")
  /\ UNCHANGED <<disk, aside, journal, generations, locks, cut, touched, late, counts>>

ClearUndone(p) ==
  /\ op[p].pc = "undone"
  /\ journal' = None
  /\ IF op[p].then = "go"
     THEN Goto(p, "locked") /\ UNCHANGED locks
     ELSE Return(p)
  /\ UNCHANGED <<disk, aside, receipt, generations, cut, touched, late, counts>>

-------------------------------------------------------------------------------
(* install_checked and register_path under the locks.                          *)

\* The base of an update is compared, and the package copied beside its
\* destination, validated and probed.
Stage(p) ==
  /\ op[p].pc = "ready" /\ op[p].kind \in Activating
  /\ op[p].kind = "update" => receipt # None /\ receipt.active = op[p].base
  /\ generations[op[p].target] \in {"absent", "whole"}
  /\ generations' = [generations EXCEPT ![op[p].target] = "whole"]
  /\ Goto(p, "prepare")
  /\ UNCHANGED <<disk, aside, receipt, journal, locks, cut, touched, late, counts>>

\* Nothing there, or what the receipt records, or our old link
Replaceable(q) == \/ disk[q] = "absent" \/ Matches(receipt, q)
                  \/ q \in Bundles /\ disk[q] = "link"

\* Mutant: a profile is overwritten instead of extended.
WholeFileChanges(after, order) ==
  [i \in DOMAIN order |->
     [path |-> order[i], before |-> disk[order[i]], after |-> after.active]]

Changes(after, order) ==
  [i \in DOMAIN order |->
     LET q == order[i] IN
       [path |-> q, before |-> disk[q],
        after |-> IF q \in Profiles THEN [disk[q] EXCEPT !.block = "yes"]
                  ELSE after.owned[q]]]

\* Some of the paths, in the order of Order
InOrder(chosen) ==
  {s \in [1 .. Cardinality(chosen) -> chosen] :
     \A i, j \in DOMAIN s : i < j =>
       \E m, n \in DOMAIN Order : m < n /\ s[i] = Order[m] /\ s[j] = Order[n]}

Transaction(p, after, chosen) ==
  \E order \in InOrder(chosen) :
    op' = [op EXCEPT ![p].pc = "copy",
                     ![p].tx = [before |-> receipt, after |-> after,
                                changes |-> Changes(after, order)]]

\* prepare_path_registration refuses a block that was edited.
CanRegister == \A q \in Profiles : disk[q].block # "changed"
Unregistered == {q \in Profiles : disk[q].block = "no"}

PrepareInstall(p) ==
  /\ op[p].pc = "prepare"
  /\ \A q \in (Files \cup Bundles) \ DropIns : Replaceable(q)
  /\ LET taken    == {q \in Files \cup Bundles : Replaceable(q)}
         register == op[p].modify \/ (receipt # None /\ receipt.path)
         previous == IF receipt = None THEN None
                     ELSE IF receipt.active = op[p].target THEN receipt.previous
                     ELSE receipt.active
         after    == [active |-> op[p].target, previous |-> previous,
                      path |-> register,
                      owned |-> [q \in Files \cup Bundles |->
                        IF q \in taken THEN op[p].target ELSE Owner(receipt, q)]]
     IN /\ register => CanRegister
        /\ Transaction(p, after, taken \cup IF register THEN Unregistered ELSE {})
  /\ aside' = "absent"   \* a new scratch directory
  /\ Looks(p, Paths)
  /\ UNCHANGED <<disk, installation, locks, cut, touched, counts>>

PrepareRegister(p) ==
  /\ op[p].pc = "ready" /\ op[p].kind = "register"
  /\ receipt # None /\ CanRegister
  /\ Transaction(p, [receipt EXCEPT !.path = TRUE], Unregistered)
  /\ Looks(p, Paths)
  /\ UNCHANGED <<disk, aside, installation, locks, cut, touched, counts>>

\* prepare_file copies what is there by now.  The code checks and copies one
\* path after the other; what the user does to one does not depend on others.
Copied(c) == IF c.path \in Bundles THEN c ELSE [c EXCEPT !.before = disk[c.path]]

BackUp(p) ==
  /\ op[p].pc = "copy"
  /\ LET changes == op[p].tx.changes IN
       op' = [op EXCEPT ![p].pc = "journal",
                        ![p].tx.changes = [i \in DOMAIN changes |-> Copied(changes[i])]]
  /\ UNCHANGED <<disk, aside, installation, locks, cut, touched, late, counts>>

WriteJournal(p) ==
  /\ op[p].pc = "journal"
  /\ journal' = op[p].tx
  /\ op' = [op EXCEPT ![p].pc = "apply", ![p].todo = op[p].tx.changes]
  /\ UNCHANGED <<disk, aside, receipt, generations, locks, cut, touched, late, counts>>

ApplyFile(p) ==
  /\ At(p, "apply") /\ Change(p).path \notin Bundles
  /\ disk' = [disk EXCEPT ![Change(p).path] = Change(p).after]
  /\ Advance(p, "apply")
  /\ UNCHANGED <<aside, installation, locks, cut, touched, late, counts>>

\* swap_bundle: two renames
MoveAside(p) ==
  /\ At(p, "apply") /\ Change(p).path \in Bundles
  /\ Change(p).before # "absent" /\ disk[Change(p).path] # "absent"
  /\ aside' = disk[Change(p).path]
  /\ disk' = [disk EXCEPT ![Change(p).path] = "absent"]
  /\ Goto(p, "swap")
  /\ UNCHANGED <<installation, locks, cut, touched, late, counts>>

ActivateBundle(p) ==
  /\ \/ At(p, "swap")
     \/ At(p, "apply") /\ Change(p).path \in Bundles /\ Change(p).before = "absent"
  /\ disk[Change(p).path] = "absent"
  /\ disk' = [disk EXCEPT ![Change(p).path] = Change(p).after]
  /\ Advance(p, "apply")
  /\ UNCHANGED <<aside, installation, locks, cut, touched, late, counts>>

WriteReceipt(p) ==
  /\ Done(p, "apply")
  /\ receipt' = op[p].tx.after
  /\ Goto(p, IF op[p].kind = "register" THEN "commit" ELSE "verify")
  /\ UNCHANGED <<disk, aside, journal, generations, locks, cut, touched, late, counts>>

\* verify_target runs the package that is now active.
Verify(p) ==
  /\ op[p].pc = "verify"
  /\ generations[op[p].target] = "whole"
  /\ Goto(p, "commit")
  /\ UNCHANGED <<disk, aside, installation, locks, cut, touched, late, counts>>

ClearJournal(p) ==
  /\ op[p].pc = "commit"
  /\ journal' = None
  /\ IF op[p].kind = "register" THEN Return(p)
     ELSE Goto(p, "finish") /\ UNCHANGED locks
  /\ cut' = (cut /\ op[p].kind = "register")
  /\ UNCHANGED <<disk, aside, receipt, generations, touched, late, counts>>

\* finish_bundle_swap; a failure is only logged.
Finish(p) ==
  /\ op[p].pc = "finish"
  /\ aside' \in {aside, "absent"}
  /\ Return(p)
  /\ UNCHANGED <<disk, installation, cut, touched, late, counts>>

-------------------------------------------------------------------------------
(* uninstall: nothing is journalled, everything is checked first.              *)

Recorded == {q \in Files \cup Bundles : Owner(receipt, q) # None}

Preflight(p) ==
  /\ op[p].pc = "ready" /\ op[p].kind = "uninstall"
  /\ receipt # None
  /\ \A q \in Recorded : disk[q] = "absent" \/ Matches(receipt, q)
  /\ \E order \in InOrder(Recorded) :
       op' = [op EXCEPT ![p].pc = "unregister", ![p].todo =
                [i \in DOMAIN order |->
                   [path |-> order[i], before |-> receipt.owned[order[i]],
                    after |-> "absent"]]]
  /\ UNCHANGED <<disk, aside, installation, locks, cut, touched, late, counts>>

\* remove_path_registration reads a profile and writes it without our block.
Registered == IF receipt # None /\ receipt.path
              THEN {q \in Profiles : disk[q].block = "yes"} ELSE {}

Unregister(p) ==
  /\ op[p].pc = "unregister"
  /\ cut' = TRUE
  /\ \/ \E q \in Registered :
          /\ op' = [op EXCEPT ![p].pc = "strip", ![p].todo =
                      <<[path |-> q, before |-> disk[q],
                         after |-> [disk[q] EXCEPT !.block = "no"]]>> \o @]
          /\ Looks(p, {q})
     \/ Registered = {} /\ Goto(p, "remove") /\ UNCHANGED late
  /\ UNCHANGED <<disk, aside, installation, locks, touched, counts>>

StripProfile(p) ==
  /\ At(p, "strip")
  /\ disk' = [disk EXCEPT ![Change(p).path] = Change(p).after]
  /\ Advance(p, "unregister")
  /\ UNCHANGED <<aside, installation, locks, cut, touched, late, counts>>

\* remove_owned checks each path again, and then removes what is there.
CheckOwned(p) ==
  /\ At(p, "remove")
  /\ \/ disk[Change(p).path] = "absent" /\ Advance(p, "remove")
     \/ disk[Change(p).path] = Change(p).before /\ Goto(p, "delete")
  /\ Looks(p, {Change(p).path})
  /\ UNCHANGED <<disk, aside, installation, locks, cut, touched, counts>>

RemoveOwned(p) ==
  /\ At(p, "delete")
  /\ LET q == Change(p).path IN
       \/ /\ q \in Files
          /\ disk' = [disk EXCEPT ![q] = "absent"]
          /\ Advance(p, "remove")
       \/ /\ q \in Bundles /\ disk[q] # "absent"
          /\ disk' = [disk EXCEPT ![q] = "torn"]
          /\ Goto(p, "bundle")
  /\ UNCHANGED <<aside, installation, locks, cut, touched, late, counts>>

RemoveBundle(p) ==
  /\ At(p, "bundle") /\ disk[Change(p).path] = "torn"
  /\ disk' = [disk EXCEPT ![Change(p).path] = "absent"]
  /\ Advance(p, "remove")
  /\ UNCHANGED <<aside, installation, locks, cut, touched, late, counts>>

\* Mutant: packages go while files that lead to them are still there.
TearGenerationEarly(p) ==
  /\ op[p].pc = "remove"
  /\ \E v \in Versions :
       /\ generations[v] = "whole"
       /\ generations' = [generations EXCEPT ![v] = "torn"]
       /\ op' = [op EXCEPT ![p].pc = "generation", ![p].target = v]
  /\ UNCHANGED <<disk, aside, receipt, journal, locks, cut, touched, late, counts>>

\* A generation loses its manifest first or last: without it, it is no package
\* any more; with it, it fails to validate.
TearGeneration(p) ==
  /\ Done(p, "remove")
  /\ \E v \in Versions :
       /\ generations[v] = "whole"
       /\ \E state \in {"damaged", "torn"} :
            generations' = [generations EXCEPT ![v] = state]
       /\ op' = [op EXCEPT ![p].pc = "generation", ![p].target = v]
  /\ UNCHANGED <<disk, aside, receipt, journal, locks, cut, touched, late, counts>>

DropGeneration(p) ==
  /\ op[p].pc = "generation"
  /\ generations' = [generations EXCEPT ![op[p].target] = "absent"]
  /\ Goto(p, "remove")
  /\ UNCHANGED <<disk, aside, receipt, journal, locks, cut, touched, late, counts>>

RemoveReceipt(p) ==
  /\ Done(p, "remove")
  /\ \A v \in Versions : generations[v] \in {"absent", "torn"}
  /\ receipt' = None
  /\ cut' = FALSE
  /\ held' = [held EXCEPT ![p] = 0]
  /\ Goto(p, "unlink")
  /\ UNCHANGED <<disk, aside, journal, generations, lockFile, shared, touched, late, counts>>

\* The lock is dropped, then its file unlinked, whoever holds it by now; the
\* root goes with it when nothing is left inside.
Unlink(p) ==
  /\ op[p].pc = "unlink"
  /\ lockFile' = 0
  /\ op' = [op EXCEPT ![p] = Idle]
  /\ shared' = IF shared = p THEN None ELSE shared
  /\ UNCHANGED <<disk, aside, installation, held, cut, touched, late, counts>>

-------------------------------------------------------------------------------
(* Whatever else may happen.                                                   *)

\* A refusal or an I/O error.  After the journal is written, the transaction
\* is undone; the journal itself may be in place although its write failed.
Fail(p) ==
  /\ op[p].pc # "idle"
  /\ IF op[p].pc \in {"apply", "swap", "verify", "commit"} /\ journal # None
     THEN Undoing(p, "stop") /\ UNCHANGED locks
     ELSE Return(p)
  /\ journal' \in IF op[p].pc = "journal" THEN {journal, op[p].tx} ELSE {journal}
  /\ UNCHANGED <<disk, aside, receipt, generations, cut, touched, late, counts>>

Crash(p) ==
  /\ op[p].pc # "idle"
  /\ crashes < MaxCrashes
  /\ crashes' = crashes + 1
  /\ Return(p)
  /\ UNCHANGED <<disk, aside, installation, cut, touched, late, starts, edits>>

\* The user replaces or deletes a file, or edits a profile.
UserEdits(q) ==
  /\ edits < MaxEdits
  /\ edits' = edits + 1
  /\ touched' = touched \cup {q}
  /\ late' = [p \in Procs |-> late[p] \cup {q}]
  /\ IF q \in Profiles
     THEN \/ disk' = [disk EXCEPT ![q].text = "edited"]
          \/ disk[q].block = "yes" /\ disk' = [disk EXCEPT ![q].block = "changed"]
     ELSE \E content \in {"absent", "foreign"} \ {disk[q]} :
            disk' = [disk EXCEPT ![q] = content]
  /\ UNCHANGED <<aside, installation, op, locks, cut, starts, crashes>>

Step(p) ==
  \/ LockChannel(p) \/ LockIntegrations(p) \/ Recover(p)
  \/ FindOurs(p) \/ PutBack(p) \/ FindBundle(p) \/ TearBundle(p) \/ DropBundle(p) \/ RestoreBundle(p)
  \/ RestoreReceipt(p) \/ ClearUndone(p)
  \/ Stage(p) \/ PrepareInstall(p) \/ PrepareRegister(p)
  \/ BackUp(p) \/ WriteJournal(p)
  \/ ApplyFile(p) \/ MoveAside(p) \/ ActivateBundle(p)
  \/ WriteReceipt(p) \/ Verify(p) \/ ClearJournal(p) \/ Finish(p)
  \/ Preflight(p) \/ Unregister(p) \/ StripProfile(p)
  \/ CheckOwned(p) \/ RemoveOwned(p) \/ RemoveBundle(p)
  \/ TearGeneration(p) \/ DropGeneration(p) \/ RemoveReceipt(p) \/ Unlink(p)

Next ==
  \/ \E p \in Procs : Start(p) \/ Step(p) \/ Fail(p) \/ Crash(p)
  \/ \E q \in Paths : UserEdits(q)

Spec == Init /\ [][Next]_vars

-------------------------------------------------------------------------------
IsChange(c) == c.path \in Paths /\ {c.before, c.after} \subseteq Places(c.path)

\* The types of the state (Receipt, Journal, Change, OwnedPath).
TypeOK ==
  /\ \A q \in Paths : disk[q] \in Places(q)
  /\ aside \in Contents
  /\ receipt \in Receipts \cup {None}
  /\ generations \in [Versions -> {"absent", "whole", "damaged", "torn"}]
  /\ \A t \in {journal} \cup {op[p].tx : p \in Procs} : t # None =>
       /\ t.before \in Receipts \cup {None} /\ t.after \in Receipts
       /\ \A i \in DOMAIN t.changes : IsChange(t.changes[i])
  /\ \A p \in Procs : \A i \in DOMAIN op[p].todo : IsChange(op[p].todo[i])
  /\ held \in [Procs -> 0 .. Cardinality(Procs) + 1]
  /\ shared \in Procs \cup {None}
  /\ late \in [Procs -> SUBSET touched]

(* With no transaction on disk, every recorded file is the recorded one and    *)
(* every profile of a registered installation has the block, and without a     *)
(* receipt nothing of any version is left; save what the user edited and what  *)
(* a removal in progress or cut short has taken away.                          *)
FilesMatchReceipt ==
  journal = None => \A q \in Paths \ (touched \cup Bundles) :
    IF q \in Profiles
    THEN IF receipt = None THEN disk[q].block = "no"
         ELSE receipt.path /\ ~cut => disk[q].block = "yes"
    ELSE IF Owner(receipt, q) = None THEN disk[q] \notin Versions
         ELSE disk[q] = Owner(receipt, q) \/ (cut /\ disk[q] = "absent")

(* The launcher runs the installer inside the package it was written for: a    *)
(* file of a version is only there while that version's package is whole, at   *)
(* every instant of every operation (the order of install_checked, uninstall). *)
LaunchersResolve ==
  \A q \in Files : disk[q] \in Versions => generations[disk[q]] = "whole"

(* While a transaction is on disk, the bundle it displaces is in its place or  *)
(* aside (swap_bundle, restore_bundle, finish_bundle_swap).                    *)
DisplacedBundleKept ==
  journal # None => \A i \in DOMAIN journal.changes :
    LET c == journal.changes[i] IN
      c.path \in Bundles \ touched /\ c.before # "absent" =>
        disk[c.path] = c.before \/ aside = c.before

(* What the user put at a path, a foreign file or the text of a profile, is    *)
(* only ever changed by a process that looked at the path before it was there: *)
(* between the check and the copy or the write (install_checked, recover,      *)
(* remove_path_registration, remove_owned), never before its operation or      *)
(* before its last look.                                                       *)
Theirs(q) == IF q \in Profiles THEN q \notin touched \/ disk[q].text = "edited"
             ELSE disk[q] = "foreign"
Kept(q) == IF q \in Profiles THEN disk'[q].text = disk[q].text
           ELSE disk'[q] = disk[q]

ForeignContentKept ==
  [][\A q \in Paths : Theirs(q) /\ edits' = edits /\ ~Kept(q) =>
       \E p \in Procs : q \in late[p] /\ op'[p] # op[p]]_vars

-------------------------------------------------------------------------------
(* The installation in force is that of the journal's before while there is a  *)
(* journal, else that of the receipt.                                          *)
InForce == LET r == IF journal # None THEN journal.before ELSE receipt IN
  IF r = None THEN None
  ELSE [active |-> r.active, previous |-> r.previous, path |-> r.path]

Asked == [p \in Procs |->
  IF \/ op[p].kind = "launch" \/ op[p].pc \in {"idle", "finish", "unlink"}
     \/ op[p].then = "stop" /\ op[p].pc \in {"undo", "put", "clear", "tear", "restore", "undone"}
  THEN None
  ELSE [kind |-> op[p].kind, base |-> op[p].base, modify |-> op[p].modify,
        target |-> IF op[p].kind = "uninstall" THEN None ELSE op[p].target]]

Promise == INSTANCE Installation WITH view <- InForce, want <- Asked

(* Every request takes effect at one instant, wholly, while its process lives: *)
(* when the journal is removed, or the receipt by a removal (install_checked,  *)
(* register_path, uninstall, recover).                                         *)
OneVersionInForce == Promise!Spec

\* The absence of a receipt, a journal or a wish is told from each of them.
ASSUME NoneIsNothing ==
  None \notin Receipts \cup Transactions \cup Promise!Views \cup Promise!Wishes
===============================================================================
