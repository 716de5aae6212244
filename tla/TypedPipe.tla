------------------------------ MODULE TypedPipe ------------------------------
(***************************************************************************)
(* The pipes of one app pane: the handle table of src/host/wasm_app.rs and *)
(* the registry of src/host/typed_pipes.rs, whose binary pipes each have a *)
(* lock-free ring and a drain thread that writes the frames to the client. *)
(*                                                                         *)
(* The guest and the host call the registry with exclusive access, one     *)
(* call at a time; a close joins the drain thread inside the call.  A drain *)
(* thread shares only the ring and two flags with them: each pop, each     *)
(* write and each load of a flag is a step of its own.  A write blocks as  *)
(* long as the client does not read, so it ends whenever the client likes. *)
(***************************************************************************)
EXTENDS Naturals, Sequences

CONSTANTS
  Ids,          \* pipe names
  Capacity,     \* slots of a ring
  MaxFrames,    \* bound on the frames offered to one open pipe
  MaxHandles    \* bound on the handles ever given out

None == "none"

ASSUME PipeAssumption ==
  /\ None \notin Ids
  /\ Capacity \in Nat \ {0}
  /\ MaxFrames \in Nat
  /\ MaxHandles \in Nat

VARIABLES
  windows,      \* the platform, fixed
  handles,      \* pipe_handles: what each handle was given out for
  entries,      \* the registry: per id no entry, a JSON or a binary one
  joining,      \* the id whose close waits for its drain thread, or None
  dropped,      \* the pane is gone
  drain,        \* where the drain thread of an id stands
  hand,         \* the frame it has popped and not yet written
  ring,         \* the frames between them
  shutdown,     \* flag set by close
  failed,       \* error_flag, set by the drain thread
  offered,      \* how many frames were offered to the open pipe
  accepted,     \* those the ring took
  delivered,    \* those written to the client
  late,         \* frames taken while the drain thread had found the ring empty
  crossed       \* ids registered by the host while a binary pipe had them

tableVars == <<handles, entries, joining, dropped>>
drainVars == <<drain, hand, failed, delivered>>
sendVars  == <<offered, accepted, late>>
vars == <<windows, tableVars, drainVars, ring, shutdown, sendVars, crossed>>

Frame == 1 .. MaxFrames

Binding == [id : Ids, binary : BOOLEAN, host : BOOLEAN]
Entries == {"absent", "binary", "reads", "mute"}   \* the last two are JSON

\* "check": the ring was empty and the shutdown flag has not been looked at.
Serving == {"look", "write", "check"}
DrainStates == {"none", "accept", "eos", "gone"} \cup Serving

Free == joining = None /\ ~dropped   \* nobody is inside the registry

-----------------------------------------------------------------------------
Init ==
  /\ windows \in BOOLEAN
  /\ handles = << >>
  /\ entries = [i \in Ids |-> "absent"]
  /\ joining = None
  /\ dropped = FALSE
  /\ drain = [i \in Ids |-> "none"]
  /\ hand = [i \in Ids |-> << >>]
  /\ ring = [i \in Ids |-> << >>]
  /\ shutdown = [i \in Ids |-> FALSE]
  /\ failed = [i \in Ids |-> FALSE]
  /\ offered = [i \in Ids |-> 0]
  /\ accepted = [i \in Ids |-> << >>]
  /\ delivered = [i \in Ids |-> << >>]
  /\ late = [i \in Ids |-> {}]
  /\ crossed = {}

-----------------------------------------------------------------------------
(* The handle table.  A closed handle stays in the sequence as << >>, so    *)
(* that numbers are never given out twice.                                  *)

Live(h) == h \in DOMAIN handles /\ handles[h] # << >>

NewHandle(b) ==
  /\ Len(handles) < MaxHandles
  /\ handles' = Append(handles, <<b>>)

BindingOf(h) == handles[h][1]

JsonHandles(i) ==
  {h \in DOMAIN handles : Live(h) /\ BindingOf(h).id = i /\ ~BindingOf(h).binary}

\* open_json, and open_binary below, refuse a name that has an entry.
OpenJson(i, reads) ==
  /\ entries[i] = "absent"
  /\ entries' = [entries EXCEPT ![i] = IF reads THEN "reads" ELSE "mute"]

\* The guest opens a JSON pipe: it takes over what the host registered for it.
Open(i) ==
  /\ Free
  /\ \/ \E h \in JsonHandles(i) :
          /\ BindingOf(h).host
          /\ handles' = [handles EXCEPT ![h] = <<[BindingOf(h) EXCEPT !.host = FALSE]>>]
          /\ UNCHANGED entries
     \/ /\ \A h \in JsonHandles(i) : ~BindingOf(h).host
        /\ \E reads \in BOOLEAN : OpenJson(i, reads)
        /\ NewHandle([id |-> i, binary |-> FALSE, host |-> FALSE])
  /\ UNCHANGED <<windows, joining, dropped, drainVars, ring, shutdown, sendVars,
                 crossed>>

\* A binary pipe: a fresh ring, fresh flags and a drain thread that listens.
OpenBinary(i) ==
  /\ Free
  /\ entries[i] = "absent"
  /\ entries' = [entries EXCEPT ![i] = "binary"]
  /\ NewHandle([id |-> i, binary |-> TRUE, host |-> FALSE])
  /\ drain' = [drain EXCEPT ![i] = "accept"]
  /\ hand' = [hand EXCEPT ![i] = << >>]
  /\ ring' = [ring EXCEPT ![i] = << >>]
  /\ shutdown' = [shutdown EXCEPT ![i] = FALSE]
  /\ failed' = [failed EXCEPT ![i] = FALSE]
  /\ offered' = [offered EXCEPT ![i] = 0]
  /\ accepted' = [accepted EXCEPT ![i] = << >>]
  /\ delivered' = [delivered EXCEPT ![i] = << >>]
  /\ late' = [late EXCEPT ![i] = {}]
  /\ UNCHANGED <<windows, joining, dropped, crossed>>

\* The host routes a directed pipe to this pane; a name that is taken counts as
\* registered, whatever kind of pipe has it.  A JSON handle there is stays.
RegisterDirected(i) ==
  /\ Free
  /\ OpenJson(i, TRUE) \/ (entries[i] # "absent" /\ UNCHANGED entries)
  /\ IF JsonHandles(i) = {} THEN NewHandle([id |-> i, binary |-> FALSE, host |-> TRUE])
     ELSE UNCHANGED handles
  /\ crossed' = IF entries[i] = "binary" THEN crossed \cup {i} ELSE crossed
  /\ UNCHANGED <<windows, joining, dropped, drainVars, ring, shutdown, sendVars>>

\* Mutants: a full ring makes room by forgetting its oldest frame; the ring grows.
PushForgets(i, f) ==
  /\ ring' = [ring EXCEPT ![i] =
               IF Len(@) < Capacity THEN Append(@, f) ELSE Append(Tail(@), f)]
  /\ accepted' = [accepted EXCEPT ![i] = Append(@, f)]
  /\ late' = [late EXCEPT ![i] = IF drain[i] = "check" THEN @ \cup {f} ELSE @]

PushGrows(i, f) ==
  /\ ring' = [ring EXCEPT ![i] = Append(@, f)]
  /\ accepted' = [accepted EXCEPT ![i] = Append(@, f)]
  /\ late' = [late EXCEPT ![i] = IF drain[i] = "check" THEN @ \cup {f} ELSE @]

\* The ring takes the frame, or the guest is told of the overrun.
Push(i, f) ==
  \/ /\ Len(ring[i]) < Capacity
     /\ ring' = [ring EXCEPT ![i] = Append(@, f)]
     /\ accepted' = [accepted EXCEPT ![i] = Append(@, f)]
     /\ late' = [late EXCEPT ![i] = IF drain[i] = "check" THEN @ \cup {f} ELSE @]
  \/ /\ Len(ring[i]) = Capacity
     /\ UNCHANGED <<ring, accepted, late>>

SendBinary(h) ==
  /\ Free /\ Live(h) /\ BindingOf(h).binary
  /\ LET i == BindingOf(h).id IN
       /\ entries[i] = "binary"
       /\ offered[i] < MaxFrames
       /\ offered' = [offered EXCEPT ![i] = @ + 1]
       /\ Push(i, offered[i] + 1)
  /\ UNCHANGED <<windows, tableVars, drainVars, shutdown, crossed>>

\* close of the registry: the entry goes first, then the thread is told and
\* awaited.
Remove(i) ==
  /\ entries' = [entries EXCEPT ![i] = "absent"]
  /\ shutdown' = IF entries[i] = "binary" THEN [shutdown EXCEPT ![i] = TRUE] ELSE shutdown
  /\ joining' = IF entries[i] = "binary" THEN i ELSE None

\* Mutant: the handle is kept when its pipe is closed.
CloseKeepsHandle(h) ==
  /\ Free /\ Live(h)
  /\ UNCHANGED handles
  /\ Remove(BindingOf(h).id)
  /\ UNCHANGED <<windows, dropped, drainVars, ring, sendVars, crossed>>

Close(h) ==
  /\ Free /\ Live(h)
  /\ handles' = [handles EXCEPT ![h] = << >>]
  /\ Remove(BindingOf(h).id)
  /\ UNCHANGED <<windows, dropped, drainVars, ring, sendVars, crossed>>

Joined ==
  /\ joining # None
  /\ drain[joining] = "gone"
  /\ joining' = None
  /\ UNCHANGED <<windows, handles, entries, dropped, drainVars, ring, shutdown,
                 sendVars, crossed>>

\* The pane goes away: its handles die and the registry closes what is open.
Drop ==
  /\ Free
  /\ dropped' = TRUE
  /\ handles' = << >>
  /\ UNCHANGED <<windows, entries, joining, drainVars, ring, shutdown, sendVars,
                 crossed>>

DropEntry(i) ==
  /\ dropped /\ joining = None
  /\ entries[i] # "absent"
  /\ Remove(i)
  /\ UNCHANGED <<windows, handles, dropped, drainVars, ring, sendVars, crossed>>

-----------------------------------------------------------------------------
(* The drain thread.                                                         *)

Goto(i, s) == drain' = [drain EXCEPT ![i] = s]

Connected(i) ==
  /\ drain[i] = "accept"
  /\ Goto(i, "look")
  /\ UNCHANGED <<windows, tableVars, hand, failed, delivered, ring, shutdown,
                 sendVars, crossed>>

\* Mutant: accept blocks until a client comes.
NotConnectedNever(i) ==
  /\ drain[i] = "accept" /\ FALSE
  /\ UNCHANGED vars

\* Nobody connected and the pipe is being closed, ...
NotConnected(i) ==
  /\ drain[i] = "accept"
  /\ shutdown[i]
  /\ Goto(i, "gone")
  /\ UNCHANGED <<windows, tableVars, hand, failed, delivered, ring, shutdown,
                 sendVars, crossed>>

\* ... or listening failed, which only Windows reports, and there only when the
\* flag, looked at afterwards, is not set.
AcceptFails(i) ==
  /\ drain[i] = "accept"
  /\ Goto(i, "gone")
  /\ failed' = [failed EXCEPT ![i] = windows /\ ~shutdown[i]]
  /\ UNCHANGED <<windows, tableVars, hand, delivered, ring, shutdown, sendVars,
                 crossed>>

Pop(i) ==
  /\ drain[i] = "look"
  /\ IF ring[i] = << >>
     THEN Goto(i, "check") /\ UNCHANGED <<hand, ring>>
     ELSE /\ hand' = [hand EXCEPT ![i] = <<Head(ring[i])>>]
          /\ ring' = [ring EXCEPT ![i] = Tail(@)]
          /\ Goto(i, "write")
  /\ UNCHANGED <<windows, tableVars, failed, delivered, shutdown, sendVars, crossed>>

\* Mutant: the frame is written again when the loop comes round.
WrittenTwice(i) ==
  /\ drain[i] = "write"
  /\ \/ Goto(i, "look") /\ hand' = [hand EXCEPT ![i] = << >>]
     \/ UNCHANGED <<drain, hand>>
  /\ delivered' = [delivered EXCEPT ![i] = @ \o hand[i]]
  /\ UNCHANGED <<windows, tableVars, failed, ring, shutdown, sendVars, crossed>>

Written(i) ==
  /\ drain[i] = "write"
  /\ Goto(i, "look")
  /\ hand' = [hand EXCEPT ![i] = << >>]
  /\ delivered' = [delivered EXCEPT ![i] = @ \o hand[i]]
  /\ UNCHANGED <<windows, tableVars, failed, ring, shutdown, sendVars, crossed>>

WriteFails(i) ==
  /\ drain[i] = "write"
  /\ hand' = [hand EXCEPT ![i] = << >>]
  /\ failed' = [failed EXCEPT ![i] = TRUE]
  /\ Goto(i, IF windows THEN "gone" ELSE "eos")
  /\ UNCHANGED <<windows, tableVars, delivered, ring, shutdown, sendVars, crossed>>

\* Mutants: the flag ends the loop before the ring is looked at; a thread that
\* found the ring empty only wakes up to end.
CheckShutdownOnly(i) ==
  /\ drain[i] = "check"
  /\ shutdown[i]
  /\ Goto(i, "eos")
  /\ UNCHANGED <<windows, tableVars, hand, failed, delivered, ring, shutdown,
                 sendVars, crossed>>

CheckShutdownFirst(i) ==
  /\ drain[i] \in {"look", "check"}
  /\ Goto(i, IF shutdown[i] THEN "eos" ELSE "look")
  /\ UNCHANGED <<windows, tableVars, hand, failed, delivered, ring, shutdown,
                 sendVars, crossed>>

\* The ring was empty a moment ago: the flag says whether to look again.
CheckShutdown(i) ==
  /\ drain[i] = "check"
  /\ Goto(i, IF shutdown[i] THEN "eos" ELSE "look")
  /\ UNCHANGED <<windows, tableVars, hand, failed, delivered, ring, shutdown,
                 sendVars, crossed>>

\* End-of-stream, whether or not the client takes it.
WriteEos(i) ==
  /\ drain[i] = "eos"
  /\ Goto(i, "gone")
  /\ UNCHANGED <<windows, tableVars, hand, failed, delivered, ring, shutdown,
                 sendVars, crossed>>

-----------------------------------------------------------------------------
Guest ==
  \/ \E i \in Ids : Open(i) \/ OpenBinary(i)
  \/ \E h \in DOMAIN handles : SendBinary(h) \/ Close(h)

Host == Drop \/ \E i \in Ids : RegisterDirected(i)

Call == Joined \/ \E i \in Ids : DropEntry(i)   \* inside a close or a drop

\* What the thread does by itself; a client may let a write or an accept wait.
DrainStep(i) == NotConnected(i) \/ Pop(i) \/ CheckShutdown(i)

Client(i) ==
  \/ Connected(i) \/ AcceptFails(i) \/ Written(i) \/ WriteFails(i) \/ WriteEos(i)

Next == Guest \/ Host \/ Call \/ \E i \in Ids : DrainStep(i) \/ Client(i)

Fairness == WF_vars(Call) /\ \A i \in Ids : WF_vars(DrainStep(i))

Spec == Init /\ [][Next]_vars /\ Fairness

-----------------------------------------------------------------------------
(* What the pipes promise.                                                   *)

\* Every variable keeps its shape and a ring never holds more than its slots.
TypeOK ==
  /\ windows \in BOOLEAN
  /\ \A h \in DOMAIN handles : handles[h] = << >> \/ handles[h][1] \in Binding
  /\ Len(handles) <= MaxHandles
  /\ entries \in [Ids -> Entries]
  /\ joining \in Ids \cup {None}
  /\ dropped \in BOOLEAN
  /\ drain \in [Ids -> DrainStates]
  /\ shutdown \in [Ids -> BOOLEAN]
  /\ failed \in [Ids -> BOOLEAN]
  /\ offered \in [Ids -> 0 .. MaxFrames]
  /\ ring \in [Ids -> Seq(Frame)] /\ hand \in [Ids -> Seq(Frame)]
  /\ accepted \in [Ids -> Seq(Frame)] /\ delivered \in [Ids -> Seq(Frame)]
  /\ late \in [Ids -> SUBSET Frame]
  /\ \A i \in Ids : /\ Len(ring[i]) <= Capacity
                    /\ hand[i] # << >> <=> drain[i] = "write"
                    /\ Len(hand[i]) <= 1
  /\ crossed \subseteq Ids

\* As long as the drain thread has not given up on a write, every frame the
\* guest was told is sent is written, in the thread's hand or in the ring, in
\* the order of the calls: no interleaving of push and pop loses or doubles one.
NoFrameLost ==
  \A i \in Ids : ~failed[i] => accepted[i] = delivered[i] \o hand[i] \o ring[i]

\* "Exits when shutdown is set and ring is empty" (typed_pipes.rs:210) holds up
\* to one window: a thread that ends without an error leaves behind only frames
\* that were taken between its last look at the ring and its look at the flag.
OnlyLateFramesCut ==
  \A i \in Ids : drain[i] = "eos" /\ ~failed[i] =>
    \A k \in DOMAIN ring[i] : ring[i][k] \in late[i]

\* is_connected for a binary handle (wasm_app.rs:428).
IsConnected(h) == ~(entries[BindingOf(h).id] = "binary" /\ failed[BindingOf(h).id])

\* A handle in the table names an open pipe of its own kind.
HandlesNameEntries ==
  \A h \in DOMAIN handles : Live(h) =>
    LET b == BindingOf(h) IN
      \/ b.id \in crossed
      \/ IF b.binary THEN entries[b.id] = "binary" ELSE entries[b.id] \in {"reads", "mute"}

\* A binary pipe that is_connected calls connected has a thread that serves it,
\* still waits for the client, or never got to serve anybody (listening failed).
ConnectedIsServed ==
  \A h \in DOMAIN handles :
    Live(h) /\ BindingOf(h).binary /\ BindingOf(h).id \notin crossed /\ IsConnected(h) =>
      \/ drain[BindingOf(h).id] \in Serving \cup {"accept"}
      \/ ~windows /\ drain[BindingOf(h).id] = "gone" /\ delivered[BindingOf(h).id] = << >>

\* What the guest can learn of its pipes is true whatever closed, failed or
\* registered in between: a handle names an open pipe of its kind, and a pipe it
\* is told is connected is served.  The one exception: the host registered a
\* directed pipe under the name of a binary one, and the two handles close each
\* other's pipe.
HandlesTellTruth == HandlesNameEntries /\ ConnectedIsServed

\* close and the drop of a pane return, whether or not a client ever connected,
\* provided the client lets no write of the thread wait forever.
CloseReturns ==
  (\A i \in Ids : []<>(drain[i] \notin {"write", "eos"}))
    => \A i \in Ids : joining = i ~> joining # i

\* A frame that was taken leaves the ring while a client is connected and reads.
FramesDrain ==
  (\A i \in Ids : []<>(drain[i] \notin {"write", "eos"}))
    => \A i \in Ids, f \in Frame :
         (drain[i] \in Serving /\ \E k \in DOMAIN ring[i] : ring[i][k] = f)
           ~> ((\A k \in DOMAIN ring[i] : ring[i][k] # f) \/ drain[i] \notin Serving)

\* Every pipe is a frame stream: bounded, in order, without loss until it ends.
Stream(i) ==
  INSTANCE FrameStream WITH
    Frame <- Frame, Slots <- Capacity + 1,
    accepted <- accepted[i], delivered <- delivered[i],
    open <- drain[i] \in Serving \cup {"accept"}

ImplementsStream ==
  /\ \A i \in Ids : Stream(i)!Init
  /\ [][\A i \in Ids : Stream(i)!Next \/ UNCHANGED Stream(i)!vars]_vars
=============================================================================
