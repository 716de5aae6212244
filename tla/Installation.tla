----------------------------- MODULE Installation -----------------------------
(***************************************************************************)
(* What the installer of one channel promises: at every instant one        *)
(* version is in force, or none; a request takes effect at one instant     *)
(* while its process lives, entirely or not at all.  An update takes       *)
(* effect only on the version its caller saw.                              *)
(***************************************************************************)
CONSTANTS
  Procs,     \* processes that run the installer
  Versions,  \* packages, named by the digest of their manifest
  None

VARIABLES
  view,  \* the installation in force, or None
  want   \* what each process asks for and has not got yet, or None

Views == [active: Versions, previous: Versions \cup {None}, path: BOOLEAN]
Wishes == [kind: {"install", "update", "rollback", "register", "uninstall"},
           target: Versions \cup {None}, base: Versions \cup {None},
           modify: BOOLEAN]

TypeOK == /\ view \in Views \cup {None}
          /\ want \in [Procs -> Wishes \cup {None}]

Init == /\ view \in Views \cup {None}
        /\ want = [p \in Procs |-> None]

Ask(p) ==
  /\ want[p] = None
  /\ want'[p] \in Wishes
  /\ want' = [want EXCEPT ![p] = want'[p]]
  /\ UNCHANGED view

\* The displaced version becomes the one to roll back to.
Displacing(v, old) == IF old = None THEN None
                      ELSE IF old.active = v THEN old.previous ELSE old.active

Got(p) == want' = [want EXCEPT ![p] = None]

Activate(p) ==
  /\ want[p] # None
  /\ want[p].kind \in {"install", "update", "rollback"}
  /\ want[p].kind = "update" => view # None /\ view.active = want[p].base
  /\ view' = [active   |-> want[p].target,
              previous |-> Displacing(want[p].target, view),
              path     |-> want[p].modify \/ (view # None /\ view.path)]
  /\ Got(p)

Register(p) ==
  /\ want[p] # None /\ want[p].kind = "register"
  /\ view # None
  /\ view' = [view EXCEPT !.path = TRUE]
  /\ Got(p)

Remove(p) ==
  /\ want[p] # None /\ want[p].kind = "uninstall"
  /\ view # None
  /\ view' = None
  /\ Got(p)

\* Refused, failed or killed: nothing changes.
GiveUp(p) == want[p] # None /\ Got(p) /\ UNCHANGED view

Next == \E p \in Procs : Ask(p) \/ Activate(p) \/ Register(p) \/ Remove(p)
                         \/ GiveUp(p)

Spec == Init /\ [][Next]_<<view, want>>
===============================================================================
