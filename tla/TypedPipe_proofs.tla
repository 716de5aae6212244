--------------------------- MODULE TypedPipe_proofs ---------------------------
(***************************************************************************)
(* Proofs about typed pipes, for every set of names, every capacity and    *)
(* every number of frames and handles.  The inductive invariant has three  *)
(* parts on top of the shapes: how a drain thread stands to its entry and  *)
(* its flags (ThreadInv), what it did with the frames (FlowInv), and what  *)
(* the handles stand for (HandleInv).  A fourth part, how far writing may   *)
(* lag behind accepting (LagInv), serves the refinement of FrameStream.    *)
(***************************************************************************)
EXTENDS TypedPipe, SequenceTheorems, TLAPS

Slot == {<< >>} \cup {<<b>> : b \in Binding}

TypeInv == TypeOK /\ handles \in Seq(Slot)

\* No pipe is open at first, and every shape is right.
LEMMA InitTypeInv == ASSUME PipeAssumption, Init PROVE TypeInv
<1>1. << >> \in Seq(Frame) /\ << >> \in Seq(Slot) /\ Len(<< >>) = 0 /\ DOMAIN << >> = {}
  BY EmptySeq
<1>2. handles = << >> /\ \A i \in Ids : /\ hand[i] = << >> /\ ring[i] = << >>
                                        /\ drain[i] = "none"
  BY DEF Init
<1>3. /\ hand \in [Ids -> Seq(Frame)] /\ ring \in [Ids -> Seq(Frame)]
      /\ accepted \in [Ids -> Seq(Frame)] /\ delivered \in [Ids -> Seq(Frame)]
  BY <1>1 DEF Init
<1>4. /\ entries \in [Ids -> Entries] /\ drain \in [Ids -> DrainStates]
      /\ shutdown \in [Ids -> BOOLEAN] /\ failed \in [Ids -> BOOLEAN]
      /\ offered \in [Ids -> 0 .. MaxFrames] /\ crossed \subseteq Ids
  BY PipeAssumption DEF PipeAssumption, Init, Entries, DrainStates
<1>5. /\ late \in [Ids -> SUBSET Frame]
      /\ windows \in BOOLEAN /\ joining \in Ids \cup {None} /\ dropped \in BOOLEAN
      /\ Capacity \in Nat /\ MaxHandles \in Nat
  BY PipeAssumption DEF PipeAssumption, Init
<1>6. QED BY <1>1, <1>2, <1>3, <1>4, <1>5 DEF TypeInv, TypeOK

\* The table after a handle was given out.
LEMMA NewHandleType ==
  ASSUME TypeInv, PipeAssumption, NEW b \in Binding, NewHandle(b)
  PROVE  /\ handles' \in Seq(Slot) /\ Len(handles') <= MaxHandles
         /\ DOMAIN handles' = DOMAIN handles \cup {Len(handles) + 1}
         /\ Len(handles) + 1 \notin DOMAIN handles
         /\ handles'[Len(handles) + 1] = <<b>>
         /\ \A h \in DOMAIN handles : handles'[h] = handles[h]
         /\ \A h \in DOMAIN handles' : handles'[h] = << >> \/ handles'[h][1] \in Binding
<1>1. <<b>> \in Slot
  BY DEF Slot
<1>2. handles \in Seq(Slot) /\ Len(handles) \in Nat /\ DOMAIN handles = 1 .. Len(handles)
  BY LenProperties DEF TypeInv
<1>3. handles' = Append(handles, <<b>>) /\ Len(handles) < MaxHandles
  BY DEF NewHandle
<1>4. /\ handles' \in Seq(Slot) /\ Len(handles') = Len(handles) + 1
      /\ DOMAIN handles' = 1 .. (Len(handles) + 1)
      /\ \A h \in 1 .. Len(handles) : handles'[h] = handles[h]
      /\ handles'[Len(handles) + 1] = <<b>>
  BY <1>1, <1>2, <1>3, AppendProperties, LenProperties
<1>5. MaxHandles \in Nat
  BY PipeAssumption DEF PipeAssumption
<1>6. \A h \in DOMAIN handles : handles[h] = << >> \/ handles[h][1] \in Binding
  BY DEF TypeInv, TypeOK
<1>7. QED BY <1>2, <1>3, <1>4, <1>5, <1>6

\* The table after one handle was closed or renamed.
LEMMA HandleSetType ==
  ASSUME TypeInv, NEW h \in DOMAIN handles, NEW v \in Slot,
         handles' = [handles EXCEPT ![h] = v]
  PROVE  /\ handles' \in Seq(Slot) /\ Len(handles') <= MaxHandles
         /\ DOMAIN handles' = DOMAIN handles
         /\ \A g \in DOMAIN handles : handles'[g] = IF g = h THEN v ELSE handles[g]
         /\ \A g \in DOMAIN handles' : handles'[g] = << >> \/ handles'[g][1] \in Binding
<1>1. handles \in Seq(Slot) /\ DOMAIN handles = 1 .. Len(handles) /\ Len(handles) <= MaxHandles
  BY LenProperties DEF TypeInv, TypeOK
<1>2. /\ handles' \in Seq(Slot) /\ Len(handles') = Len(handles)
      /\ \A g \in 1 .. Len(handles) : handles'[g] = IF g = h THEN v ELSE handles[g]
  BY <1>1, ExceptSeq
<1>3. DOMAIN handles' = DOMAIN handles
  BY <1>1, <1>2, LenProperties
<1>4. v = << >> \/ v[1] \in Binding
  BY DEF Slot
<1>5. \A g \in DOMAIN handles : handles[g] = << >> \/ handles[g][1] \in Binding
  BY DEF TypeInv, TypeOK
<1>6. QED BY <1>1, <1>2, <1>3, <1>4, <1>5

\* Every step keeps every shape; one step per operation.
LEMMA StepTypeInv ==
  ASSUME PipeAssumption, TypeInv, [Next]_vars
  PROVE  TypeInv'
<1> USE DEF TypeInv
<1>1. CASE UNCHANGED vars
  BY <1>1 DEF TypeOK, vars, tableVars, drainVars, sendVars
<1>2. ASSUME NEW i \in Ids, Open(i)
      PROVE  TypeInv'
  <2>1. CASE \E h \in JsonHandles(i) :
               /\ BindingOf(h).host
               /\ handles' = [handles EXCEPT ![h] = <<[BindingOf(h) EXCEPT !.host = FALSE]>>]
               /\ UNCHANGED entries
    <3>1. PICK h \in JsonHandles(i) :
               /\ handles' = [handles EXCEPT ![h] = <<[BindingOf(h) EXCEPT !.host = FALSE]>>]
               /\ UNCHANGED entries
      BY <2>1
    <3>2. h \in DOMAIN handles /\ BindingOf(h) \in Binding
      BY DEF JsonHandles, Live, BindingOf, TypeOK
    <3>3. <<[BindingOf(h) EXCEPT !.host = FALSE]>> \in Slot
      BY <3>2 DEF Slot, Binding
    <3>4. QED BY <1>2, <3>1, <3>2, <3>3, HandleSetType DEF Open, TypeOK, drainVars, sendVars
  <2>2. CASE /\ \E reads \in BOOLEAN : OpenJson(i, reads)
             /\ NewHandle([id |-> i, binary |-> FALSE, host |-> FALSE])
    <3>1. [id |-> i, binary |-> FALSE, host |-> FALSE] \in Binding
      BY DEF Binding
    <3>2. entries' \in [Ids -> Entries]
      BY <2>2 DEF OpenJson, TypeOK, Entries
    <3>3. QED BY <1>2, <2>2, <3>1, <3>2, NewHandleType DEF Open, TypeOK, drainVars, sendVars
  <2>3. QED BY <1>2, <2>1, <2>2 DEF Open
<1>3. ASSUME NEW i \in Ids, OpenBinary(i)
      PROVE  TypeInv'
  <2>1. [id |-> i, binary |-> TRUE, host |-> FALSE] \in Binding
    BY DEF Binding
  <2>2. handles' \in Seq(Slot) /\ Len(handles') <= MaxHandles
        /\ \A h \in DOMAIN handles' : handles'[h] = << >> \/ handles'[h][1] \in Binding
    BY <1>3, <2>1, NewHandleType DEF OpenBinary
  <2>3. << >> \in Seq(Frame) /\ Len(<< >>) = 0
    BY EmptySeq
  <2>4. /\ entries' \in [Ids -> Entries] /\ drain' \in [Ids -> DrainStates]
        /\ shutdown' \in [Ids -> BOOLEAN] /\ failed' \in [Ids -> BOOLEAN]
        /\ offered' \in [Ids -> 0 .. MaxFrames]
    BY <1>3, PipeAssumption DEF OpenBinary, TypeOK, Entries, DrainStates, PipeAssumption
  <2>5. /\ ring' \in [Ids -> Seq(Frame)] /\ hand' \in [Ids -> Seq(Frame)]
        /\ accepted' \in [Ids -> Seq(Frame)] /\ delivered' \in [Ids -> Seq(Frame)]
        /\ late' \in [Ids -> SUBSET Frame]
    BY <1>3, <2>3 DEF OpenBinary, TypeOK
  <2>6. \A j \in Ids : /\ Len(ring'[j]) <= Capacity
                       /\ hand'[j] # << >> <=> drain'[j] = "write"
                       /\ Len(hand'[j]) <= 1
    BY <1>3, <2>3, PipeAssumption DEF OpenBinary, TypeOK, PipeAssumption
  <2>7. QED BY <1>3, <2>2, <2>4, <2>5, <2>6 DEF OpenBinary, TypeOK
<1>4. ASSUME NEW i \in Ids, RegisterDirected(i)
      PROVE  TypeInv'
  <2>1. [id |-> i, binary |-> FALSE, host |-> TRUE] \in Binding
    BY DEF Binding
  <2>2. entries' \in [Ids -> Entries] /\ crossed' \subseteq Ids
    BY <1>4 DEF RegisterDirected, OpenJson, TypeOK, Entries
  <2>3. QED BY <1>4, <2>1, <2>2, NewHandleType DEF RegisterDirected, TypeOK, drainVars, sendVars
<1>5. ASSUME NEW h \in DOMAIN handles, SendBinary(h)
      PROVE  TypeInv'
  <2>1. PICK i \in Ids : /\ offered[i] < MaxFrames
                         /\ offered' = [offered EXCEPT ![i] = @ + 1]
                         /\ Push(i, offered[i] + 1)
    BY <1>5 DEF SendBinary, Live, BindingOf, TypeOK, Binding
  <2>2. offered[i] + 1 \in Frame /\ offered' \in [Ids -> 0 .. MaxFrames]
    <3>1. offered \in [Ids -> 0 .. MaxFrames] /\ MaxFrames \in Nat
      BY PipeAssumption DEF TypeOK, PipeAssumption
    <3>2. offered[i] \in 0 .. MaxFrames /\ offered[i] < MaxFrames
      BY <2>1, <3>1
    <3>3. offered[i] + 1 \in 0 .. MaxFrames /\ offered[i] + 1 \in 1 .. MaxFrames
      BY <3>1, <3>2
    <3>4. QED BY <2>1, <3>1, <3>3 DEF Frame
  <2>3. ring[i] \in Seq(Frame) /\ accepted[i] \in Seq(Frame)
    BY DEF TypeOK
  <2>4. /\ Append(ring[i], offered[i] + 1) \in Seq(Frame)
        /\ Len(Append(ring[i], offered[i] + 1)) = Len(ring[i]) + 1
        /\ Append(accepted[i], offered[i] + 1) \in Seq(Frame)
    BY <2>2, <2>3, AppendProperties
  <2>5. /\ ring' \in [Ids -> Seq(Frame)] /\ accepted' \in [Ids -> Seq(Frame)]
        /\ late' \in [Ids -> SUBSET Frame] /\ \A j \in Ids : Len(ring'[j]) <= Capacity
    <3>1. /\ ring \in [Ids -> Seq(Frame)] /\ accepted \in [Ids -> Seq(Frame)]
          /\ late \in [Ids -> SUBSET Frame] /\ \A j \in Ids : Len(ring[j]) <= Capacity
      BY DEF TypeOK
    <3>2. Len(ring[i]) \in Nat /\ Capacity \in Nat
      BY <2>3, LenProperties, PipeAssumption DEF PipeAssumption
    <3>3. DEFINE f == offered[i] + 1
    <3> HIDE DEF f
    <3>4. f \in Frame /\ Append(ring[i], f) \in Seq(Frame) /\ Append(accepted[i], f) \in Seq(Frame)
          /\ Len(Append(ring[i], f)) = Len(ring[i]) + 1
      BY <2>2, <2>4 DEF f
    <3>5. Push(i, f)
      BY <2>1 DEF f
    <3>6. CASE UNCHANGED <<ring, accepted, late>>
      BY <3>1, <3>6
    <3>7. CASE /\ Len(ring[i]) < Capacity
               /\ ring' = [ring EXCEPT ![i] = Append(@, f)]
               /\ accepted' = [accepted EXCEPT ![i] = Append(@, f)]
               /\ late' = [late EXCEPT ![i] = IF drain[i] = "check" THEN @ \cup {f} ELSE @]
      <4>1. ring' \in [Ids -> Seq(Frame)] /\ accepted' \in [Ids -> Seq(Frame)]
        BY <3>1, <3>4, <3>7
      <4>2. \A j \in Ids : Len(ring'[j]) <= Capacity
        BY <3>1, <3>2, <3>4, <3>7
      <4>3. late' \in [Ids -> SUBSET Frame]
        BY <3>1, <3>4, <3>7
      <4>4. QED BY <4>1, <4>2, <4>3
    <3>8. QED BY <3>5, <3>6, <3>7 DEF Push
  <2>6. QED BY <1>5, <2>2, <2>5 DEF SendBinary, TypeOK, tableVars, drainVars
<1>6. ASSUME NEW h \in DOMAIN handles, Close(h)
      PROVE  TypeInv'
  <2>1. << >> \in Slot /\ BindingOf(h).id \in Ids
    BY <1>6 DEF Close, Slot, Live, BindingOf, TypeOK, Binding
  <2>2. entries' \in [Ids -> Entries] /\ shutdown' \in [Ids -> BOOLEAN] /\ joining' \in Ids \cup {None}
    BY <1>6, <2>1 DEF Close, Remove, TypeOK, Entries
  <2>3. QED BY <1>6, <2>1, <2>2, HandleSetType DEF Close, TypeOK, drainVars, sendVars
<1>7. CASE Joined
  BY <1>7 DEF Joined, TypeOK, drainVars, sendVars
<1>8. CASE Drop
  BY <1>8, EmptySeq, PipeAssumption DEF Drop, TypeOK, drainVars, sendVars, PipeAssumption
<1>9. ASSUME NEW i \in Ids, DropEntry(i)
      PROVE  TypeInv'
  BY <1>9 DEF DropEntry, Remove, TypeOK, drainVars, sendVars, Entries
<1>10. ASSUME NEW i \in Ids, \/ Connected(i) \/ NotConnected(i) \/ AcceptFails(i)
                             \/ CheckShutdown(i) \/ WriteEos(i)
       PROVE  TypeInv'
  <2>1. /\ drain' \in [Ids -> DrainStates] /\ failed' \in [Ids -> BOOLEAN]
        /\ \A j \in Ids : drain'[j] = "write" <=> drain[j] = "write"
    BY <1>10 DEF Connected, NotConnected, AcceptFails, CheckShutdown, WriteEos, Goto,
                 TypeOK, DrainStates, Serving
  <2>2. UNCHANGED <<windows, handles, entries, joining, dropped, hand, delivered, ring,
                    shutdown, offered, accepted, late, crossed>>
    BY <1>10 DEF Connected, NotConnected, AcceptFails, CheckShutdown, WriteEos, tableVars,
                 sendVars
  <2>3. QED BY <2>1, <2>2 DEF TypeOK
<1>11. ASSUME NEW i \in Ids, Pop(i)
       PROVE  TypeInv'
  <2>1. CASE ring[i] = << >>
    BY <1>11, <2>1 DEF Pop, Goto, TypeOK, tableVars, sendVars, DrainStates, Serving
  <2>2. CASE ring[i] # << >>
    <3>1. ring[i] \in Seq(Frame) /\ Len(ring[i]) \in Nat
      BY LenProperties DEF TypeOK
    <3>2. Head(ring[i]) \in Frame /\ Tail(ring[i]) \in Seq(Frame)
          /\ Len(Tail(ring[i])) = Len(ring[i]) - 1
      BY <2>2, <3>1, HeadTailProperties
    <3>3. <<Head(ring[i])>> \in Seq(Frame) /\ <<Head(ring[i])>> # << >>
          /\ Len(<<Head(ring[i])>>) = 1
      BY <3>2
    <3>4. hand' \in [Ids -> Seq(Frame)] /\ ring' \in [Ids -> Seq(Frame)]
      <4>1. hand \in [Ids -> Seq(Frame)] /\ ring \in [Ids -> Seq(Frame)]
        BY DEF TypeOK
      <4>2. /\ hand' = [hand EXCEPT ![i] = <<Head(ring[i])>>]
            /\ ring' = [ring EXCEPT ![i] = Tail(ring[i])]
        BY <1>11, <2>2, <4>1 DEF Pop
      <4>3. QED BY <3>2, <3>3, <4>1, <4>2
    <3>5. drain' \in [Ids -> DrainStates]
      <4>1. drain \in [Ids -> DrainStates] /\ drain' = [drain EXCEPT ![i] = "write"]
        BY <1>11, <2>2 DEF Pop, Goto, TypeOK
      <4>2. QED BY <4>1 DEF DrainStates, Serving
    <3>6. \A j \in Ids : /\ Len(ring'[j]) <= Capacity
                         /\ hand'[j] # << >> <=> drain'[j] = "write"
                         /\ Len(hand'[j]) <= 1
      <4>1. \A j \in Ids : /\ hand'[j] = IF j = i THEN <<Head(ring[i])>> ELSE hand[j]
                           /\ ring'[j] = IF j = i THEN Tail(ring[i]) ELSE ring[j]
                           /\ drain'[j] = IF j = i THEN "write" ELSE drain[j]
        BY <1>11, <2>2 DEF Pop, Goto, TypeOK
      <4>2. Capacity \in Nat
        BY PipeAssumption DEF PipeAssumption
      <4>3. \A j \in Ids : /\ Len(ring[j]) <= Capacity /\ Len(hand[j]) <= 1
                           /\ hand[j] # << >> <=> drain[j] = "write"
        BY DEF TypeOK
      <4>4. ASSUME NEW j \in Ids
            PROVE  /\ Len(ring'[j]) <= Capacity /\ Len(hand'[j]) <= 1
                   /\ hand'[j] # << >> <=> drain'[j] = "write"
        <5>1. CASE j = i
          <6>1. Len(ring[i]) <= Capacity /\ ring'[i] = Tail(ring[i])
            BY <4>1, <4>3
          <6>2. Len(ring'[i]) <= Capacity
            BY <3>1, <3>2, <4>2, <6>1
          <6>3. hand'[i] # << >> /\ Len(hand'[i]) = 1 /\ drain'[i] = "write"
            BY <3>3, <4>1
          <6>4. QED BY <5>1, <6>2, <6>3
        <5>2. CASE j # i
          BY <4>1, <4>3, <5>2
        <5>3. QED BY <5>1, <5>2
      <4>5. QED BY <4>4
    <3>7. QED BY <1>11, <3>4, <3>5, <3>6 DEF Pop, TypeOK, tableVars, sendVars
  <2>3. QED BY <2>1, <2>2
<1>12. ASSUME NEW i \in Ids, Written(i) \/ WriteFails(i)
       PROVE  TypeInv'
  <2>1. hand' \in [Ids -> Seq(Frame)] /\ drain' \in [Ids -> DrainStates] /\ failed' \in [Ids -> BOOLEAN]
    <3>1. hand \in [Ids -> Seq(Frame)] /\ hand' = [hand EXCEPT ![i] = << >>]
      BY <1>12 DEF Written, WriteFails, TypeOK
    <3>2. << >> \in Seq(Frame)
      BY EmptySeq
    <3>3. hand' \in [Ids -> Seq(Frame)]
      BY <3>1, <3>2
    <3>4. QED BY <1>12, <3>3 DEF Written, WriteFails, Goto, TypeOK, DrainStates, Serving
  <2>2. delivered' \in [Ids -> Seq(Frame)]
    <3>1. delivered[i] \o hand[i] \in Seq(Frame)
      BY ConcatProperties DEF TypeOK
    <3>2. QED BY <1>12, <3>1 DEF Written, WriteFails, TypeOK
  <2>3. \A j \in Ids : /\ hand'[j] # << >> <=> drain'[j] = "write"
                       /\ Len(hand'[j]) <= 1
    <3>1. /\ hand \in [Ids -> Seq(Frame)] /\ hand' = [hand EXCEPT ![i] = << >>]
          /\ drain[i] = "write" /\ drain'[i] # "write"
          /\ \A j \in Ids \ {i} : drain'[j] = drain[j]
      BY <1>12 DEF Written, WriteFails, Goto, TypeOK
    <3>2. Len(<< >>) = 0
      BY EmptySeq
    <3>3. \A j \in Ids : hand'[j] = IF j = i THEN << >> ELSE hand[j]
      BY <3>1
    <3>4. QED BY <3>1, <3>2, <3>3 DEF TypeOK
  <2>4. QED BY <1>12, <2>1, <2>2, <2>3 DEF Written, WriteFails, TypeOK, tableVars, sendVars
<1>13. QED
  BY <1>1, <1>2, <1>3, <1>4, <1>5, <1>6, <1>7, <1>8, <1>9, <1>10, <1>11, <1>12
     DEF Next, Guest, Host, Call, DrainStep, Client


-------------------------------------------------------------------------------
(* Threads, frames and handles.                                               *)

\* How the drain thread of a name stands to the entry of that name, to the close
\* that waits for it and to its flags.
ThreadInv ==
  /\ joining # None => entries[joining] = "absent"
  /\ \A i \in Ids :
       /\ entries[i] # "binary" /\ joining # i => drain[i] \in {"none", "gone"}
       /\ entries[i] = "binary" => ~shutdown[i] /\ drain[i] # "none"
       /\ drain[i] \in {"eos", "gone"} => \/ shutdown[i] \/ failed[i]
                                          \/ ~windows /\ drain[i] = "gone" /\ delivered[i] = << >>
       /\ failed[i] => drain[i] \in {"eos", "gone"}
       /\ drain[i] = "accept" => delivered[i] = << >>

\* The part of the shapes these proofs need.
LEMMA Shapes ==
  ASSUME TypeInv
  PROVE  /\ entries \in [Ids -> Entries] /\ drain \in [Ids -> DrainStates]
         /\ shutdown \in [Ids -> BOOLEAN] /\ failed \in [Ids -> BOOLEAN]
         /\ hand \in [Ids -> Seq(Frame)] /\ ring \in [Ids -> Seq(Frame)]
         /\ accepted \in [Ids -> Seq(Frame)] /\ delivered \in [Ids -> Seq(Frame)]
         /\ joining \in Ids \cup {None}
         /\ \A h \in DOMAIN handles : Live(h) => BindingOf(h) \in Binding
  BY DEF TypeInv, TypeOK, Live, BindingOf

LEMMA InitThreadInv == ASSUME Init PROVE ThreadInv
  BY DEF Init, ThreadInv

\* Threads are started and stopped with their entries, and a thread that ends has
\* a reason to.
LEMMA StepThreadInv ==
  ASSUME PipeAssumption, TypeInv, ThreadInv, [Next]_vars
  PROVE  ThreadInv'
<1>1. None \notin Ids
  BY PipeAssumption DEF PipeAssumption
<1>2. CASE UNCHANGED vars
  BY <1>2 DEF ThreadInv, vars, tableVars, drainVars, sendVars
<1>3. ASSUME NEW i \in Ids, Open(i) \/ RegisterDirected(i)
      PROVE  ThreadInv'
  <2>1. \/ UNCHANGED entries
        \/ entries[i] = "absent" /\ \E e \in {"reads", "mute"} : entries' = [entries EXCEPT ![i] = e]
    BY <1>3 DEF Open, RegisterDirected, OpenJson
  <2>2. joining = None /\ UNCHANGED <<joining, drain, shutdown, failed, delivered, windows>>
    BY <1>3 DEF Open, RegisterDirected, Free, drainVars
  <2>3. QED BY <1>1, <2>1, <2>2, Shapes DEF ThreadInv
<1>4. ASSUME NEW i \in Ids, OpenBinary(i)
      PROVE  ThreadInv'
  BY <1>1, <1>4, Shapes DEF OpenBinary, Free, ThreadInv
<1>5. ASSUME NEW h \in DOMAIN handles, SendBinary(h)
      PROVE  ThreadInv'
  BY <1>5 DEF SendBinary, ThreadInv, tableVars, drainVars
<1>6. ASSUME NEW i \in Ids, Remove(i), joining = None, UNCHANGED <<windows, drain, failed, delivered>>
      PROVE  ThreadInv'
  BY <1>1, <1>6, Shapes DEF Remove, ThreadInv
<1>7. ASSUME NEW h \in DOMAIN handles, Close(h)
      PROVE  ThreadInv'
  <2>1. BindingOf(h).id \in Ids
    BY <1>7, Shapes DEF Close, Binding
  <2>2. QED BY <1>6, <1>7, <2>1 DEF Close, Free, drainVars
<1>8. CASE Joined
  BY <1>1, <1>8, Shapes DEF Joined, ThreadInv, drainVars
<1>9. CASE Drop
  BY <1>9 DEF Drop, ThreadInv, drainVars
<1>10. ASSUME NEW i \in Ids, DropEntry(i)
       PROVE  ThreadInv'
  BY <1>6, <1>10 DEF DropEntry, drainVars
<1>11. ASSUME NEW i \in Ids, \/ Connected(i) \/ NotConnected(i) \/ AcceptFails(i) \/ Pop(i)
                             \/ CheckShutdown(i) \/ WriteEos(i)
       PROVE  ThreadInv'
  <2>1. UNCHANGED <<entries, joining, shutdown, delivered, windows>>
    BY <1>11 DEF Connected, NotConnected, AcceptFails, Pop, CheckShutdown, WriteEos, tableVars
  <2>2. \A j \in Ids \ {i} : drain'[j] = drain[j] /\ failed'[j] = failed[j]
    BY <1>11, Shapes DEF Connected, NotConnected, AcceptFails, Pop, CheckShutdown, WriteEos, Goto
  <2>3. /\ drain[i] \notin {"none", "gone"}
        /\ \/ drain'[i] \in {"look", "write", "check"} /\ ~failed[i] /\ ~failed'[i]
           \/ drain'[i] = "eos" /\ shutdown[i] /\ ~failed[i] /\ ~failed'[i]
           \/ drain'[i] = "gone" /\ drain[i] = "eos" /\ failed'[i] = failed[i]
           \/ /\ drain'[i] = "gone" /\ drain[i] = "accept"
              /\ shutdown[i] \/ failed'[i] \/ ~windows
    BY <1>11, Shapes
       DEF Connected, NotConnected, AcceptFails, Pop, CheckShutdown, WriteEos, Goto, ThreadInv
  <2>4. QED BY <2>1, <2>2, <2>3 DEF ThreadInv
<1>12. ASSUME NEW i \in Ids, Written(i) \/ WriteFails(i)
       PROVE  ThreadInv'
  <2>1. UNCHANGED <<entries, joining, shutdown, windows>>
    BY <1>12 DEF Written, WriteFails, tableVars
  <2>2. \A j \in Ids \ {i} : /\ drain'[j] = drain[j] /\ failed'[j] = failed[j]
                            /\ delivered'[j] = delivered[j]
    BY <1>12, Shapes DEF Written, WriteFails, Goto
  <2>3. /\ drain[i] = "write"
        /\ \/ drain'[i] = "look" /\ failed'[i] = failed[i]
           \/ drain'[i] \in {"eos", "gone"} /\ failed'[i]
    BY <1>12, Shapes DEF Written, WriteFails, Goto
  <2>4. QED BY <2>1, <2>2, <2>3 DEF ThreadInv
<1>13. QED
  BY <1>2, <1>3, <1>4, <1>5, <1>7, <1>8, <1>9, <1>10, <1>11, <1>12
     DEF Next, Guest, Host, Call, DrainStep, Client

\* What became of the frames of a pipe: all there until a write fails, and what lies
\* in the ring once the thread is on its way out came too late.
NoneLost(i) == ~failed[i] => accepted[i] = delivered[i] \o hand[i] \o ring[i]

LeavesLate(i) ==
  drain[i] = "check" \/ (drain[i] = "eos" /\ ~failed[i]) =>
    \A k \in DOMAIN ring[i] : ring[i][k] \in late[i]

Flow(i) == NoneLost(i) /\ LeavesLate(i)

FlowInv == \A i \in Ids : Flow(i)

\* Putting a frame at the end of the last part puts it at the end of the whole.
LEMMA AppendToLast ==
  ASSUME NEW d \in Seq(Frame), NEW h \in Seq(Frame), NEW r \in Seq(Frame), NEW f \in Frame
  PROVE  Append(d \o h \o r, f) = d \o h \o Append(r, f)
<1>1. d \o h \in Seq(Frame) /\ d \o h \o r \in Seq(Frame) /\ <<f>> \in Seq(Frame)
  BY ConcatProperties
<1>2. Append(d \o h \o r, f) = (d \o h \o r) \o <<f>> /\ Append(r, f) = r \o <<f>>
  BY <1>1, AppendIsConcat
<1>3. (d \o h \o r) \o <<f>> = (d \o h) \o (r \o <<f>>)
  BY <1>1, ConcatAssociative
<1>4. QED BY <1>2, <1>3

\* Taking the first frame of the last part into an empty hand moves nothing.
LEMMA HeadToHand ==
  ASSUME NEW S, NEW d \in Seq(S), NEW r \in Seq(S), r # << >>
  PROVE  d \o << >> \o r = d \o <<Head(r)>> \o Tail(r)
<1>1. Head(r) \in S /\ Tail(r) \in Seq(S) /\ Len(Tail(r)) = Len(r) - 1
      /\ \A k \in 1 .. Len(Tail(r)) : Tail(r)[k] = r[k + 1]
  BY HeadTailProperties
<1>2. <<Head(r)>> \in Seq(S) /\ Len(<<Head(r)>>) = 1 /\ <<Head(r)>>[1] = r[1]
  BY <1>1
<1>3. Len(r) \in Nat \ {0}
  BY EmptySeq
<1>4. /\ <<Head(r)>> \o Tail(r) \in Seq(S)
      /\ Len(<<Head(r)>> \o Tail(r)) = Len(r)
      /\ \A k \in 1 .. Len(r) : (<<Head(r)>> \o Tail(r))[k] = r[k]
  <2>1. /\ <<Head(r)>> \o Tail(r) \in Seq(S)
        /\ Len(<<Head(r)>> \o Tail(r)) = 1 + Len(Tail(r))
        /\ \A k \in 1 .. 1 + Len(Tail(r)) : (<<Head(r)>> \o Tail(r))[k] =
                IF k <= 1 THEN <<Head(r)>>[k] ELSE Tail(r)[k - 1]
    BY <1>1, <1>2, ConcatProperties
  <2>2. Len(Tail(r)) \in Nat
    BY <1>1, <1>3
  <2>3. QED BY <1>1, <1>2, <1>3, <2>1, <2>2
<1>5. <<Head(r)>> \o Tail(r) = r
  BY <1>4, SeqEqual
<1>6. d \o <<Head(r)>> \o Tail(r) = d \o (<<Head(r)>> \o Tail(r))
  BY <1>1, <1>2, ConcatAssociative
<1>7. d \o << >> = d
  BY ConcatEmptySeq
<1>8. QED BY <1>5, <1>6, <1>7

LEMMA InitFlowInv == ASSUME Init PROVE FlowInv
<1>1. << >> \in Seq(Frame) /\ Len(<< >>) = 0 /\ << >> \o << >> = << >>
  BY EmptySeq, ConcatEmptySeq
<1>2. SUFFICES ASSUME NEW i \in Ids PROVE Flow(i)
  BY DEF FlowInv
<1>3. /\ accepted[i] = << >> /\ delivered[i] = << >> /\ hand[i] = << >> /\ ring[i] = << >>
      /\ failed[i] = FALSE /\ drain[i] = "none"
  BY DEF Init
<1>4. NoneLost(i)
  BY <1>1, <1>3 DEF NoneLost
<1>5. LeavesLate(i)
  BY <1>3 DEF LeavesLate
<1>6. QED BY <1>4, <1>5 DEF Flow

\* Nothing happens to the frames and the thread of a pipe.
Untouched(j) ==
  /\ failed'[j] = failed[j] /\ accepted'[j] = accepted[j] /\ delivered'[j] = delivered[j]
  /\ hand'[j] = hand[j] /\ ring'[j] = ring[j] /\ drain'[j] = drain[j] /\ late'[j] = late[j]

LEMMA FlowKept == ASSUME NEW j, Flow(j), Untouched(j) PROVE Flow(j)'
  BY DEF Flow, NoneLost, LeavesLate, Untouched

\* How long the parts are is a number.
LEMMA Lengths ==
  ASSUME TypeInv, NEW i \in Ids
  PROVE  /\ Len(accepted[i]) \in Nat /\ Len(delivered[i]) \in Nat
         /\ Len(hand[i]) \in Nat /\ Len(ring[i]) \in Nat
         /\ accepted[i] \in Seq(Frame) /\ delivered[i] \in Seq(Frame)
         /\ hand[i] \in Seq(Frame) /\ ring[i] \in Seq(Frame)
  BY Shapes, LenProperties

\* No frame is lost between the parts, whatever the order of push and pop.
LEMMA StepFlowInv ==
  ASSUME PipeAssumption, TypeInv, ThreadInv, FlowInv, [Next]_vars
  PROVE  FlowInv'
<1>1. CASE \/ UNCHANGED vars \/ Drop \/ Joined
           \/ \E i \in Ids : Open(i) \/ RegisterDirected(i) \/ DropEntry(i)
           \/ \E h \in DOMAIN handles : Close(h)
  <2>1. UNCHANGED <<failed, accepted, delivered, hand, ring, drain, late>>
    BY <1>1 DEF vars, Drop, Joined, Open, RegisterDirected, DropEntry, Close, drainVars, sendVars
  <2>2. QED BY <2>1, FlowKept DEF FlowInv, Untouched
<1>2. ASSUME NEW i \in Ids, (\A j \in Ids \ {i} : Untouched(j)), Flow(i)'
      PROVE  FlowInv'
  BY <1>2, FlowKept DEF FlowInv
<1>3. ASSUME NEW i \in Ids, OpenBinary(i)
      PROVE  FlowInv'
  <2>1. << >> \in Seq(Frame) /\ Len(<< >>) = 0 /\ << >> \o << >> = << >>
    BY EmptySeq, ConcatEmptySeq
  <2>2. late \in [Ids -> SUBSET Frame]
    BY DEF TypeInv, TypeOK
  <2>3. /\ \A j \in Ids \ {i} : Untouched(j)
        /\ accepted'[i] = << >> /\ delivered'[i] = << >> /\ hand'[i] = << >> /\ ring'[i] = << >>
        /\ failed'[i] = FALSE /\ drain'[i] = "accept"
    BY <1>3, <2>2, Shapes DEF OpenBinary, Untouched
  <2>4. NoneLost(i)'
    BY <2>1, <2>3 DEF NoneLost
  <2>5. LeavesLate(i)'
    BY <2>3 DEF LeavesLate
  <2>6. QED BY <1>2, <2>3, <2>4, <2>5 DEF Flow
<1>4. ASSUME NEW h \in DOMAIN handles, SendBinary(h)
      PROVE  FlowInv'
  <2>1. PICK i \in Ids : /\ entries[i] = "binary" /\ offered[i] < MaxFrames
                         /\ Push(i, offered[i] + 1)
    BY <1>4, Shapes DEF SendBinary, Binding
  <2>2. offered[i] + 1 \in Frame
    <3>1. offered[i] \in 0 .. MaxFrames /\ MaxFrames \in Nat
      BY PipeAssumption DEF TypeInv, TypeOK, PipeAssumption
    <3>2. QED BY <2>1, <3>1 DEF Frame
  <2>3. DEFINE f == offered[i] + 1
  <2> HIDE DEF f
  <2>4. UNCHANGED <<failed, delivered, hand, drain>>
    BY <1>4 DEF SendBinary, drainVars
  <2>5. f \in Frame /\ Push(i, f)
    BY <2>1, <2>2 DEF f
  <2>6. CASE UNCHANGED <<ring, accepted, late>>
    BY <2>4, <2>6, FlowKept DEF FlowInv, Untouched
  <2>7. CASE /\ ring' = [ring EXCEPT ![i] = Append(@, f)]
             /\ accepted' = [accepted EXCEPT ![i] = Append(@, f)]
             /\ late' = [late EXCEPT ![i] = IF drain[i] = "check" THEN @ \cup {f} ELSE @]
    <3>1. late \in [Ids -> SUBSET Frame]
      BY DEF TypeInv, TypeOK
    <3>2. /\ ring'[i] = Append(ring[i], f) /\ accepted'[i] = Append(accepted[i], f)
          /\ late'[i] = IF drain[i] = "check" THEN late[i] \cup {f} ELSE late[i]
          /\ \A j \in Ids \ {i} : Untouched(j)
      BY <2>4, <2>7, <3>1, Shapes DEF Untouched
    <3>3. Flow(i) /\ UNCHANGED <<failed[i], delivered[i], hand[i], drain[i]>>
      BY <2>4 DEF FlowInv
    <3>4. /\ Len(accepted'[i]) = Len(accepted[i]) + 1 /\ Len(ring'[i]) = Len(ring[i]) + 1
          /\ \A k \in 1 .. Len(ring[i]) : ring'[i][k] = ring[i][k]
          /\ ring'[i][Len(ring[i]) + 1] = f
          /\ ring'[i] \in Seq(Frame)
      BY <2>5, <3>2, Lengths, AppendProperties
    <3>5. NoneLost(i)'
      <4>1. Append(delivered[i] \o hand[i] \o ring[i], f) = delivered[i] \o hand[i] \o ring'[i]
        <5>1. /\ delivered[i] \in Seq(Frame) /\ hand[i] \in Seq(Frame) /\ ring[i] \in Seq(Frame)
              /\ f \in Frame
          BY <2>5, Lengths
        <5>2. \A a, b, c \in Seq(Frame) : \A g \in Frame :
                Append(a \o b \o c, g) = a \o b \o Append(c, g)
          BY AppendToLast, Zenon
        <5>3. Append(delivered[i] \o hand[i] \o ring[i], f)
                = delivered[i] \o hand[i] \o Append(ring[i], f)
          BY <5>1, <5>2, Zenon
        <5>4. ring'[i] = Append(ring[i], f)
          BY <3>2
        <5>5. QED BY <5>3, <5>4, Zenon
      <4>2. QED BY <3>2, <3>3, <4>1 DEF Flow, NoneLost
    <3>6. LeavesLate(i)'
      <4>1. drain[i] # "eos" \/ failed[i]
        BY <2>1 DEF ThreadInv
      <4>2. CASE drain[i] = "check"
        <5>1. \A k \in 1 .. Len(ring[i]) : ring[i][k] \in late[i]
          BY <3>3, <4>2, Lengths, LenProperties DEF Flow, LeavesLate
        <5>2. DOMAIN ring'[i] = 1 .. Len(ring[i]) + 1 /\ Len(ring[i]) \in Nat
          BY <3>4, Lengths, LenProperties
        <5>3. ASSUME NEW k \in DOMAIN ring'[i] PROVE ring'[i][k] \in late'[i]
          <6>1. CASE k = Len(ring[i]) + 1
            BY <3>2, <3>4, <4>2, <6>1
          <6>2. CASE k \in 1 .. Len(ring[i])
            BY <3>2, <3>4, <4>2, <5>1, <6>2
          <6>3. QED BY <5>2, <6>1, <6>2
        <5>4. QED BY <5>3 DEF LeavesLate
      <4>3. CASE drain[i] # "check"
        BY <3>3, <4>1, <4>3 DEF LeavesLate
      <4>4. QED BY <4>2, <4>3
    <3>7. QED BY <1>2, <3>2, <3>5, <3>6 DEF Flow
  <2>8. QED BY <2>5, <2>6, <2>7 DEF Push
<1>5. ASSUME NEW i \in Ids, Connected(i) \/ NotConnected(i) \/ WriteEos(i) \/ CheckShutdown(i)
      PROVE  FlowInv'
  <2>1. UNCHANGED <<failed, accepted, delivered, hand, ring, late>>
    BY <1>5 DEF Connected, NotConnected, WriteEos, CheckShutdown, sendVars
  <2>2. /\ \A j \in Ids \ {i} : drain'[j] = drain[j]
        /\ drain'[i] \notin {"check", "eos"} \/ drain[i] = "check"
    BY <1>5, Shapes DEF Connected, NotConnected, WriteEos, CheckShutdown, Goto
  <2>3. \A j \in Ids \ {i} : Untouched(j)
    BY <2>1, <2>2 DEF Untouched
  <2>4. Flow(i)'
    BY <2>1, <2>2 DEF FlowInv, Flow, NoneLost, LeavesLate
  <2>5. QED BY <1>2, <2>3, <2>4
<1>6. ASSUME NEW i \in Ids, AcceptFails(i)
      PROVE  FlowInv'
  <2>1. UNCHANGED <<accepted, delivered, hand, ring, late>>
    BY <1>6 DEF AcceptFails, sendVars
  <2>2. /\ drain'[i] = "gone" /\ failed[i] = FALSE /\ failed'[i] \in BOOLEAN
        /\ \A j \in Ids \ {i} : drain'[j] = drain[j] /\ failed'[j] = failed[j]
    BY <1>6, Shapes DEF AcceptFails, Goto, ThreadInv
  <2>3. \A j \in Ids \ {i} : Untouched(j)
    BY <2>1, <2>2 DEF Untouched
  <2>4. Flow(i)
    BY DEF FlowInv
  <2>5. NoneLost(i)'
    BY <2>1, <2>2, <2>4 DEF Flow, NoneLost
  <2>6. LeavesLate(i)'
    BY <2>2 DEF LeavesLate
  <2>7. QED BY <1>2, <2>3, <2>5, <2>6 DEF Flow
<1>7. ASSUME NEW i \in Ids, Pop(i)
      PROVE  FlowInv'
  <2>1. UNCHANGED <<failed, accepted, delivered, late>> /\ Flow(i)
    BY <1>7 DEF Pop, sendVars, FlowInv
  <2>2. CASE ring[i] = << >>
    <3>1. UNCHANGED <<hand, ring>> /\ \A j \in Ids \ {i} : drain'[j] = drain[j]
      BY <1>7, <2>2, Shapes DEF Pop, Goto
    <3>2. \A j \in Ids \ {i} : Untouched(j)
      BY <2>1, <3>1 DEF Untouched
    <3>3. DOMAIN ring[i] = {}
      BY <2>2
    <3>4. Flow(i)'
      BY <2>1, <3>1, <3>3 DEF Flow, NoneLost, LeavesLate
    <3>5. QED BY <1>2, <3>2, <3>4
  <2>3. CASE ring[i] # << >>
    <3>1. /\ drain[i] = "look" /\ drain'[i] = "write"
          /\ hand'[i] = <<Head(ring[i])>> /\ ring'[i] = Tail(ring[i])
          /\ \A j \in Ids \ {i} : drain'[j] = drain[j] /\ hand'[j] = hand[j] /\ ring'[j] = ring[j]
      BY <1>7, <2>3, Shapes DEF Pop, Goto
    <3>2. \A j \in Ids \ {i} : Untouched(j)
      BY <2>1, <3>1 DEF Untouched
    <3>3. hand[i] = << >>
      BY <3>1 DEF TypeInv, TypeOK
    <3>4. NoneLost(i)'
      <4>1. delivered[i] \o << >> \o ring[i] = delivered[i] \o hand'[i] \o ring'[i]
        <5>1. delivered[i] \in Seq(Frame) /\ ring[i] \in Seq(Frame)
          BY Lengths
        <5>2. delivered[i] \o << >> \o ring[i] = delivered[i] \o <<Head(ring[i])>> \o Tail(ring[i])
          BY <2>3, <5>1, HeadToHand
        <5>3. hand'[i] = <<Head(ring[i])>> /\ ring'[i] = Tail(ring[i])
          BY <3>1
        <5>4. QED BY <5>2, <5>3
      <4>2. QED BY <2>1, <3>3, <4>1 DEF Flow, NoneLost
    <3>5. LeavesLate(i)'
      BY <3>1 DEF LeavesLate
    <3>6. QED BY <1>2, <3>2, <3>4, <3>5 DEF Flow
  <2>4. QED BY <2>2, <2>3
<1>8. ASSUME NEW i \in Ids, Written(i) \/ WriteFails(i)
      PROVE  FlowInv'
  <2>1. UNCHANGED <<accepted, ring, late>> /\ drain[i] = "write" /\ Flow(i)
    BY <1>8 DEF Written, WriteFails, sendVars, FlowInv
  <2>2. /\ hand'[i] = << >> /\ ~failed[i]
        /\ \/ delivered'[i] = delivered[i] \o hand[i] /\ ~failed'[i] /\ drain'[i] = "look"
           \/ delivered'[i] = delivered[i] /\ failed'[i]
        /\ \A j \in Ids \ {i} : /\ drain'[j] = drain[j] /\ hand'[j] = hand[j]
                               /\ delivered'[j] = delivered[j] /\ failed'[j] = failed[j]
    BY <1>8, Shapes DEF Written, WriteFails, Goto, ThreadInv
  <2>3. \A j \in Ids \ {i} : Untouched(j)
    BY <2>1, <2>2 DEF Untouched
  <2>4. drain'[i] \in {"look", "eos", "gone"}
    BY <1>8, Shapes DEF Written, WriteFails, Goto
  <2>5. delivered[i] \o hand[i] \o << >> = delivered[i] \o hand[i]
    BY Lengths, ConcatProperties, ConcatEmptySeq
  <2>6. NoneLost(i)'
    BY <2>1, <2>2, <2>5 DEF Flow, NoneLost
  <2>7. LeavesLate(i)'
    BY <2>2, <2>4 DEF LeavesLate
  <2>8. QED BY <1>2, <2>3, <2>6, <2>7 DEF Flow
<1>9. QED
  BY <1>1, <1>3, <1>4, <1>5, <1>6, <1>7, <1>8 DEF Next, Guest, Host, Call, DrainStep, Client


\* What a handle stands for: the kind of pipe it names.
Names(b, e) == IF b.binary THEN e = "binary" ELSE e \in {"reads", "mute"}

\* The handles name entries of their kind, each name has one handle, and a pane
\* that is gone has none; names the host registered over a binary pipe aside.
HandleInv ==
  /\ HandlesNameEntries
  /\ dropped => handles = << >>
  /\ \A g, h \in DOMAIN handles :
       /\ Live(g) /\ Live(h) /\ BindingOf(g).id = BindingOf(h).id
       /\ BindingOf(g).id \notin crossed
       => g = h

LEMMA InitHandleInv == ASSUME Init PROVE HandleInv
<1>1. DOMAIN << >> = {}
  OBVIOUS
<1>2. QED BY <1>1 DEF Init, HandleInv, HandlesNameEntries

\* A new handle for a name no other handle has, or for one that is crossed.
LEMMA GivenOut ==
  ASSUME PipeAssumption, TypeInv, HandleInv, Free, UNCHANGED dropped,
         NEW b \in Binding, NewHandle(b), crossed \subseteq crossed',
         \A j \in Ids \ {b.id} : entries'[j] = entries[j],
         \/ b.id \in crossed'
         \/ /\ Names(b, entries'[b.id])
            /\ \A h \in DOMAIN handles : Live(h) => BindingOf(h).id # b.id
  PROVE  HandleInv'
<1>1. /\ DOMAIN handles' = DOMAIN handles \cup {Len(handles) + 1}
      /\ Len(handles) + 1 \notin DOMAIN handles
      /\ handles'[Len(handles) + 1] = <<b>>
      /\ \A h \in DOMAIN handles : handles'[h] = handles[h]
  BY NewHandleType
<1>2. PICK n : n = Len(handles) + 1
  OBVIOUS
<1>3. /\ DOMAIN handles' = DOMAIN handles \cup {n} /\ n \notin DOMAIN handles
      /\ handles'[n] = <<b>> /\ \A h \in DOMAIN handles : handles'[h] = handles[h]
  BY <1>1, <1>2
<1>4. /\ \A h \in DOMAIN handles : (Live(h)' <=> Live(h)) /\ BindingOf(h)' = BindingOf(h)
      /\ BindingOf(n)' = b
  <2>1. \A h \in DOMAIN handles : (Live(h)' <=> Live(h)) /\ BindingOf(h)' = BindingOf(h)
    BY <1>3 DEF Live, BindingOf
  <2>2. <<b>>[1] = b
    OBVIOUS
  <2>3. BindingOf(n)' = b
    BY <1>3, <2>2 DEF BindingOf
  <2>4. QED BY <2>1, <2>3
<1>5. \A h \in DOMAIN handles : Live(h) => BindingOf(h).id \in Ids
  BY Shapes DEF Binding
<1>6. HandlesNameEntries'
  <2>1. ASSUME NEW h \in DOMAIN handles', Live(h)', BindingOf(h)'.id \notin crossed'
        PROVE  Names(BindingOf(h)', entries'[BindingOf(h)'.id])
    <3>1. CASE h = n
      BY <1>4, <2>1, <3>1
    <3>2. CASE h \in DOMAIN handles
      <4>1. Live(h) /\ BindingOf(h)' = BindingOf(h) /\ BindingOf(h).id \in Ids
            /\ BindingOf(h).id \notin crossed
        BY <1>4, <1>5, <2>1, <3>2
      <4>2. BindingOf(h).id # b.id
        BY <2>1, <3>2, <4>1
      <4>3. Names(BindingOf(h), entries[BindingOf(h).id])
        BY <3>2, <4>1 DEF HandleInv, HandlesNameEntries, Names
      <4>4. QED BY <4>1, <4>2, <4>3
    <3>3. QED BY <1>3, <2>1, <3>1, <3>2
  <2>2. QED BY <2>1 DEF HandlesNameEntries, Names
<1>7. ASSUME NEW g \in DOMAIN handles', NEW h \in DOMAIN handles', Live(g)', Live(h)',
             BindingOf(g)'.id = BindingOf(h)'.id, BindingOf(g)'.id \notin crossed'
      PROVE  g = h
  <2>1. g \in DOMAIN handles /\ h \in DOMAIN handles => g = h
    BY <1>4, <1>7 DEF HandleInv
  <2>2. g \in DOMAIN handles => h # n
    BY <1>4, <1>7
  <2>3. h \in DOMAIN handles => g # n
    BY <1>4, <1>7
  <2>4. QED BY <1>3, <2>1, <2>2, <2>3
<1>8. ~dropped'
  BY DEF Free
<1>9. QED BY <1>6, <1>7, <1>8 DEF HandleInv

\* The guest takes a handle over: only who holds it changes.
LEMMA TakenOver ==
  ASSUME NEW b \in Binding
  PROVE  \E c \in Binding : /\ c = [b EXCEPT !.host = FALSE]
                            /\ c.id = b.id /\ c.binary = b.binary
<1>1. [b EXCEPT !.host = FALSE] \in Binding
  BY DEF Binding
<1>2. [b EXCEPT !.host = FALSE].id = b.id /\ [b EXCEPT !.host = FALSE].binary = b.binary
  BY DEF Binding
<1>3. QED BY <1>1, <1>2

\* Every step keeps the handles true: a name with an entry gets no second handle
\* unless the host crosses it, and a close takes the handle and the entry at once.
LEMMA StepHandleInv ==
  ASSUME PipeAssumption, TypeInv, HandleInv, [Next]_vars
  PROVE  HandleInv'
<1>1. CASE UNCHANGED <<handles, entries, dropped, crossed>>
  BY <1>1 DEF HandleInv, HandlesNameEntries, Live, BindingOf
<1>2. CASE \/ UNCHANGED vars \/ Joined \/ \E i \in Ids : DrainStep(i) \/ Client(i)
           \/ \E h \in DOMAIN handles : SendBinary(h)
  BY <1>1, <1>2 DEF vars, tableVars, Joined, DrainStep, Client, SendBinary, Connected, NotConnected,
       AcceptFails, Pop, Written, WriteFails, CheckShutdown, WriteEos
<1>3. ASSUME NEW i \in Ids, entries[i] = "absent", i \notin crossed,
             NEW h \in DOMAIN handles, Live(h)
      PROVE  BindingOf(h).id # i
  BY <1>3 DEF HandleInv, HandlesNameEntries
<1>4. ASSUME NEW i \in Ids, Open(i)
      PROVE  HandleInv'
  <2>1. Free /\ UNCHANGED <<dropped, crossed>>
    BY <1>4 DEF Open
  <2>2. CASE /\ \E reads \in BOOLEAN : OpenJson(i, reads)
             /\ NewHandle([id |-> i, binary |-> FALSE, host |-> FALSE])
    <3>1. DEFINE b == [id |-> i, binary |-> FALSE, host |-> FALSE]
    <3>2. b \in Binding /\ b.id = i /\ b.binary = FALSE
      BY DEF Binding
    <3> HIDE DEF b
    <3>3. NewHandle(b) /\ entries[i] = "absent"
      BY <2>2 DEF b, OpenJson
    <3>4. entries'[i] \in {"reads", "mute"} /\ \A j \in Ids \ {i} : entries'[j] = entries[j]
      BY <2>2, Shapes DEF OpenJson
    <3>5. QED BY <1>3, <2>1, <3>2, <3>3, <3>4, GivenOut DEF Names
  <2>3. CASE \E h \in JsonHandles(i) :
               /\ BindingOf(h).host
               /\ handles' = [handles EXCEPT ![h] = <<[BindingOf(h) EXCEPT !.host = FALSE]>>]
               /\ UNCHANGED entries
    <3>1. PICK h \in JsonHandles(i) :
               /\ handles' = [handles EXCEPT ![h] = <<[BindingOf(h) EXCEPT !.host = FALSE]>>]
               /\ UNCHANGED entries
      BY <2>3
    <3>2. h \in DOMAIN handles /\ Live(h) /\ BindingOf(h) \in Binding
      BY Shapes DEF JsonHandles
    <3>3. PICK c \in Binding : /\ c = [BindingOf(h) EXCEPT !.host = FALSE]
                               /\ c.id = BindingOf(h).id /\ c.binary = BindingOf(h).binary
      BY <3>2, TakenOver
    <3>4. /\ DOMAIN handles' = DOMAIN handles
          /\ \A g \in DOMAIN handles : handles'[g] = IF g = h THEN <<c>> ELSE handles[g]
      BY <3>1, <3>2, <3>3
    <3>5. \A g \in DOMAIN handles : /\ Live(g)' <=> Live(g)
                                    /\ Live(g) => /\ BindingOf(g)'.id = BindingOf(g).id
                                                  /\ BindingOf(g)'.binary = BindingOf(g).binary
      <4>1. <<c>> # << >> /\ <<c>>[1] = c
        OBVIOUS
      <4>2. ASSUME NEW g \in DOMAIN handles
            PROVE  /\ Live(g)' <=> Live(g)
                   /\ Live(g) => /\ BindingOf(g)'.id = BindingOf(g).id
                                 /\ BindingOf(g)'.binary = BindingOf(g).binary
        <5>1. CASE g # h
          BY <3>4, <5>1 DEF Live, BindingOf
        <5>2. CASE g = h
          <6>1. handles'[h] = <<c>> /\ h \in DOMAIN handles'
            BY <3>2, <3>4
          <6>2. Live(h)' /\ BindingOf(h)' = c
            BY <4>1, <6>1 DEF Live, BindingOf
          <6>3. QED BY <3>2, <3>3, <5>2, <6>2
        <5>3. QED BY <5>1, <5>2
      <4>3. QED BY <4>2
    <3>6. QED BY <2>1, <3>1, <3>4, <3>5 DEF HandleInv, HandlesNameEntries, Free
  <2>4. QED BY <1>4, <2>2, <2>3 DEF Open
<1>5. ASSUME NEW i \in Ids, OpenBinary(i)
      PROVE  HandleInv'
  <2>1. DEFINE b == [id |-> i, binary |-> TRUE, host |-> FALSE]
  <2>2. b \in Binding /\ b.id = i /\ b.binary = TRUE
    BY DEF Binding
  <2> HIDE DEF b
  <2>3. NewHandle(b) /\ entries[i] = "absent" /\ Free /\ UNCHANGED <<dropped, crossed>>
    BY <1>5 DEF b, OpenBinary
  <2>4. entries'[i] = "binary" /\ \A j \in Ids \ {i} : entries'[j] = entries[j]
    BY <1>5, Shapes DEF OpenBinary
  <2>5. QED BY <1>3, <2>2, <2>3, <2>4, GivenOut DEF Names
<1>6. ASSUME NEW i \in Ids, RegisterDirected(i)
      PROVE  HandleInv'
  <2>1. DEFINE b == [id |-> i, binary |-> FALSE, host |-> TRUE]
  <2>2. b \in Binding /\ b.id = i /\ b.binary = FALSE
    BY DEF Binding
  <2> HIDE DEF b
  <2>3. /\ Free /\ UNCHANGED dropped /\ crossed \subseteq crossed'
        /\ entries[i] = "binary" => i \in crossed'
        /\ IF JsonHandles(i) = {} THEN NewHandle(b) ELSE UNCHANGED handles
    BY <1>6 DEF b, RegisterDirected
  <2>4. entries[i] \in Entries
    BY Shapes
  <2>5. /\ \A j \in Ids \ {i} : entries'[j] = entries[j]
        /\ entries[i] # "binary" => entries'[i] \in {"reads", "mute"}
    BY <1>6, <2>4, Shapes DEF RegisterDirected, OpenJson, Entries
  <2>6. CASE JsonHandles(i) = {}
    <3>1. ASSUME i \notin crossed', NEW h \in DOMAIN handles, Live(h) PROVE BindingOf(h).id # i
      BY <2>3, <2>6, <3>1 DEF HandleInv, HandlesNameEntries, JsonHandles
    <3>2. QED BY <2>2, <2>3, <2>5, <2>6, <3>1, GivenOut DEF Names
  <2>7. CASE JsonHandles(i) # {}
    <3>1. UNCHANGED handles
      BY <2>3, <2>7
    <3>2. ASSUME NEW h \in DOMAIN handles, Live(h), BindingOf(h).id \notin crossed'
          PROVE  Names(BindingOf(h), entries'[BindingOf(h).id])
      <4>1. Names(BindingOf(h), entries[BindingOf(h).id]) /\ BindingOf(h).id \in Ids
        BY <2>3, <3>2, Shapes DEF HandleInv, HandlesNameEntries, Names, Binding
      <4>2. CASE BindingOf(h).id = i
        BY <2>3, <2>5, <3>2, <4>1, <4>2 DEF Names
      <4>3. CASE BindingOf(h).id # i
        BY <2>5, <4>1, <4>3
      <4>4. QED BY <4>2, <4>3
    <3>3. HandlesNameEntries'
      BY <3>1, <3>2 DEF HandlesNameEntries, Names, Live, BindingOf
    <3>4. QED BY <2>3, <3>1, <3>3 DEF HandleInv, Live, BindingOf
  <2>8. QED BY <2>6, <2>7
<1>7. ASSUME NEW h \in DOMAIN handles, Close(h)
      PROVE  HandleInv'
  <2>1. /\ handles' = [handles EXCEPT ![h] = << >>] /\ UNCHANGED <<dropped, crossed>>
        /\ Live(h) /\ ~dropped /\ entries' = [entries EXCEPT ![BindingOf(h).id] = "absent"]
    BY <1>7 DEF Close, Remove, Free
  <2>2. \A g \in DOMAIN handles' : Live(g)' => /\ g \in DOMAIN handles /\ g # h /\ Live(g)
                                              /\ BindingOf(g)' = BindingOf(g)
    BY <2>1 DEF Live, BindingOf
  <2>3. ASSUME NEW g \in DOMAIN handles', Live(g)', BindingOf(g)'.id \notin crossed'
        PROVE  Names(BindingOf(g)', entries'[BindingOf(g)'.id])
    <3>1. g \in DOMAIN handles /\ g # h /\ Live(g) /\ BindingOf(g)' = BindingOf(g)
      BY <2>2, <2>3
    <3>2. BindingOf(g).id # BindingOf(h).id /\ BindingOf(g).id \in Ids
      BY <2>1, <2>3, <3>1, Shapes DEF HandleInv, Binding
    <3>3. Names(BindingOf(g), entries[BindingOf(g).id])
      BY <2>1, <2>3, <3>1 DEF HandleInv, HandlesNameEntries, Names
    <3>4. entries'[BindingOf(g).id] = entries[BindingOf(g).id]
      BY <2>1, <3>2, Shapes
    <3>5. QED BY <3>1, <3>3, <3>4
  <2>4. HandlesNameEntries'
    BY <2>3 DEF HandlesNameEntries, Names
  <2>5. QED BY <2>1, <2>2, <2>4 DEF HandleInv
<1>8. CASE Drop \/ \E i \in Ids : DropEntry(i)
  <2>1. handles' = << >>
    BY <1>8 DEF Drop, DropEntry, HandleInv
  <2>2. DOMAIN handles' = {}
    BY <2>1
  <2>3. QED BY <2>1, <2>2 DEF HandleInv, HandlesNameEntries
<1>9. QED
  BY <1>2, <1>4, <1>5, <1>6, <1>7, <1>8 DEF Next, Guest, Host, Call

-------------------------------------------------------------------------------
(* The theorems.                                                              *)

IInv == TypeInv /\ ThreadInv /\ FlowInv /\ HandleInv

LEMMA Invariance == ASSUME PipeAssumption PROVE Spec => []IInv
<1>1. Init => IInv
  BY InitTypeInv, InitThreadInv, InitFlowInv, InitHandleInv DEF IInv
<1>2. IInv /\ [Next]_vars => IInv'
  BY StepTypeInv, StepThreadInv, StepFlowInv, StepHandleInv DEF IInv
<1>3. QED BY <1>1, <1>2, PTL DEF Spec

\* Every variable keeps its shape; a ring never outgrows its slots.
THEOREM TypeCorrect == Spec => []TypeOK
<1>1. IInv => TypeOK
  BY DEF IInv, TypeInv
<1>2. QED BY <1>1, Invariance, PipeAssumption, PTL

\* The frames send_binary took are all written, in the thread's hand or in the
\* ring, in order, whatever the interleaving of the calls and the drain thread.
THEOREM FramesAreKept == Spec => []NoFrameLost
<1>1. IInv => NoFrameLost
  BY DEF IInv, FlowInv, Flow, NoneLost, NoFrameLost
<1>2. QED BY <1>1, Invariance, PipeAssumption, PTL

\* A drain thread that ends leaves behind only what was pushed between its pop and
\* its look at the shutdown flag.
THEOREM OnlyLateCut == Spec => []OnlyLateFramesCut
<1>1. IInv => OnlyLateFramesCut
  BY DEF IInv, FlowInv, Flow, LeavesLate, OnlyLateFramesCut
<1>2. QED BY <1>1, Invariance, PipeAssumption, PTL

\* Handles name open pipes of their kind, and a pipe said to be connected is served,
\* for every order of opens, closes, registrations and failures.
THEOREM HandlesAreTrue == Spec => []HandlesTellTruth
<1>1. ASSUME IInv PROVE ConnectedIsServed
  <2>1. ASSUME NEW h \in DOMAIN handles, Live(h), BindingOf(h).binary,
               BindingOf(h).id \notin crossed, IsConnected(h)
        PROVE  \/ drain[BindingOf(h).id] \in Serving \cup {"accept"}
               \/ /\ ~windows /\ drain[BindingOf(h).id] = "gone"
                  /\ delivered[BindingOf(h).id] = << >>
    <3>1. PICK i \in Ids : i = BindingOf(h).id
      BY <1>1, <2>1, Shapes DEF IInv, Binding
    <3>2. entries[i] = "binary"
      BY <1>1, <2>1, <3>1 DEF IInv, HandleInv, HandlesNameEntries
    <3>3. ~failed[i]
      BY <2>1, <3>1, <3>2 DEF IsConnected
    <3>4. /\ ~shutdown[i] /\ drain[i] # "none"
          /\ drain[i] \in {"eos", "gone"} => ~windows /\ drain[i] = "gone" /\ delivered[i] = << >>
      BY <1>1, <3>2, <3>3 DEF IInv, ThreadInv
    <3>5. drain[i] \in DrainStates
      BY <1>1, Shapes DEF IInv
    <3>6. QED BY <3>1, <3>4, <3>5 DEF DrainStates, Serving
  <2>2. QED BY <2>1 DEF ConnectedIsServed
<1>2. IInv => HandlesTellTruth
  BY <1>1 DEF IInv, HandleInv, HandlesTellTruth
<1>3. QED BY <1>2, Invariance, PipeAssumption, PTL

-------------------------------------------------------------------------------
(* The refinement: each pipe is a frame stream.                               *)

\* At most the slots of the ring and one frame are between accepted and written,
\* also while nobody drains any more: a frame lost by a failed write is the one.
LagInv == \A i \in Ids : Len(accepted[i]) <= Len(delivered[i]) + 1 + Len(ring[i])

\* Three sequences in a row are as long as the three together.
LEMMA ThreeLengths ==
  ASSUME NEW d \in Seq(Frame), NEW h \in Seq(Frame), NEW r \in Seq(Frame)
  PROVE  Len(d \o h \o r) = Len(d) + Len(h) + Len(r)
<1>1. d \o h \in Seq(Frame) /\ Len(d \o h) = Len(d) + Len(h)
  BY ConcatProperties
<1>2. Len(d \o h \o r) = Len(d \o h) + Len(r)
  BY <1>1, ConcatProperties
<1>3. QED BY <1>1, <1>2

\* The arithmetic of the lag: what a hand of at most one frame adds, and one frame
\* more in both counts.
LEMMA LagArithmetic ==
  /\ \A a, d, h, r \in Nat : a = d + h + r /\ h <= 1 => a <= d + 1 + r
  /\ \A a, b, d, r, s \in Nat : a <= d + 1 + r /\ b = a + 1 /\ s = r + 1 => b <= d + 1 + s
OBVIOUS

LEMMA InitLagInv == ASSUME Init PROVE LagInv
<1>1. 0 <= 0 + 1 + 0 /\ Len(<< >>) = 0
  BY EmptySeq
<1>2. QED BY <1>1, Zenon DEF Init, LagInv

\* Once a write has failed only new frames move, one into both counts.
LEMMA StepLagInv ==
  ASSUME PipeAssumption, TypeInv, ThreadInv, FlowInv, LagInv, [Next]_vars, TypeInv', FlowInv'
  PROVE  LagInv'
<1> SUFFICES ASSUME NEW i \in Ids
             PROVE  Len(accepted'[i]) <= Len(delivered'[i]) + 1 + Len(ring'[i])
  BY DEF LagInv
<1>1. /\ Len(accepted[i]) \in Nat /\ Len(delivered[i]) \in Nat /\ Len(ring[i]) \in Nat
      /\ Len(accepted'[i]) \in Nat /\ Len(delivered'[i]) \in Nat /\ Len(ring'[i]) \in Nat
      /\ Len(hand[i]) \in Nat /\ Len(hand'[i]) \in Nat
  <2>1. /\ accepted'[i] \in Seq(Frame) /\ delivered'[i] \in Seq(Frame)
        /\ ring'[i] \in Seq(Frame) /\ hand'[i] \in Seq(Frame)
    BY DEF TypeInv, TypeOK
  <2>2. QED BY <2>1, Lengths, LenProperties
<1>2. Len(accepted[i]) <= Len(delivered[i]) + 1 + Len(ring[i])
  BY DEF LagInv
<1>3. CASE ~failed'[i]
  <2>1. accepted'[i] = delivered'[i] \o hand'[i] \o ring'[i]
    BY <1>3 DEF FlowInv, Flow, NoneLost
  <2>2. /\ delivered'[i] \in Seq(Frame) /\ ring'[i] \in Seq(Frame) /\ hand'[i] \in Seq(Frame)
        /\ Len(hand'[i]) <= 1
    BY DEF TypeInv, TypeOK
  <2>3. Len(accepted'[i]) = Len(delivered'[i]) + Len(hand'[i]) + Len(ring'[i])
    BY <2>1, <2>2, ThreeLengths
  <2>4. QED BY <1>1, <2>2, <2>3, LagArithmetic, Zenon
<1>4. CASE UNCHANGED <<accepted[i], delivered[i], ring[i]>>
  BY <1>1, <1>2, <1>4
<1>5. ASSUME NEW h \in DOMAIN handles, SendBinary(h) PROVE
        \/ UNCHANGED <<accepted[i], delivered[i], ring[i]>>
        \/ /\ Len(accepted'[i]) = Len(accepted[i]) + 1
           /\ Len(ring'[i]) = Len(ring[i]) + 1
           /\ delivered'[i] = delivered[i]
  <2>1. PICK j \in Ids : entries[j] = "binary" /\ Push(j, offered[j] + 1) /\ offered[j] < MaxFrames
    BY <1>5, Shapes DEF SendBinary, Binding
  <2>2. UNCHANGED delivered
    BY <1>5 DEF SendBinary, drainVars
  <2>3. offered[j] + 1 \in Frame
    <3>1. offered[j] \in 0 .. MaxFrames /\ MaxFrames \in Nat
      BY PipeAssumption DEF TypeInv, TypeOK, PipeAssumption
    <3>2. QED BY <2>1, <3>1 DEF Frame
  <2>4. \/ UNCHANGED <<accepted, ring>>
        \/ /\ accepted' = [accepted EXCEPT ![j] = Append(@, offered[j] + 1)]
           /\ ring' = [ring EXCEPT ![j] = Append(@, offered[j] + 1)]
    BY <2>1 DEF Push
  <2>5. \/ UNCHANGED <<accepted[i], ring[i]>>
        \/ /\ accepted'[i] = Append(accepted[i], offered[j] + 1)
           /\ ring'[i] = Append(ring[i], offered[j] + 1)
    BY <2>4, Shapes
  <2>6. QED BY <2>2, <2>3, <2>5, Lengths, AppendProperties
<1>6. ASSUME NEW h \in DOMAIN handles, SendBinary(h)
      PROVE  Len(accepted'[i]) <= Len(delivered'[i]) + 1 + Len(ring'[i])
  <2>1. \/ UNCHANGED <<accepted[i], delivered[i], ring[i]>>
        \/ /\ Len(accepted'[i]) = Len(accepted[i]) + 1
           /\ Len(ring'[i]) = Len(ring[i]) + 1
           /\ delivered'[i] = delivered[i]
    BY <1>5, <1>6
  <2>2. QED BY <1>1, <1>2, <1>4, <2>1, LagArithmetic, Zenon
<1>7. CASE \/ UNCHANGED vars \/ Drop \/ Joined
           \/ \E j \in Ids : Open(j) \/ RegisterDirected(j) \/ DropEntry(j) \/ Connected(j)
                             \/ NotConnected(j) \/ AcceptFails(j) \/ WriteFails(j)
                             \/ CheckShutdown(j) \/ WriteEos(j)
           \/ \E h \in DOMAIN handles : Close(h)
  BY <1>4, <1>7 DEF vars, Drop, Joined, Open, RegisterDirected, DropEntry, Close, Connected,
       NotConnected, AcceptFails, WriteFails, CheckShutdown, WriteEos, drainVars, sendVars
<1>8. ASSUME NEW j \in Ids, OpenBinary(j) \/ Pop(j) \/ Written(j)
      PROVE  UNCHANGED <<accepted[i], delivered[i], ring[i]>> \/ ~failed'[i]
  BY <1>8, Shapes DEF OpenBinary, Pop, Written, ThreadInv, drainVars, sendVars
<1>9. QED
  BY <1>3, <1>4, <1>6, <1>7, <1>8 DEF Next, Guest, Host, Call, DrainStep, Client

\* Whether a stream still carries frames.
Carries(d) == d \in Serving \cup {"accept"}

\* The frame in the hand is the next one of the stream.
LEMMA NextDelivered ==
  ASSUME NEW d \in Seq(Frame), NEW h \in Seq(Frame), NEW r \in Seq(Frame),
         h # << >>, Len(h) <= 1
  PROVE  /\ Len(d) < Len(d \o h \o r)
         /\ d \o h = Append(d, (d \o h \o r)[Len(d) + 1])
<1>1. PICK f \in Frame : h = <<f>>
  <2>1. Len(h) \in Nat /\ Len(h) # 0
    BY EmptySeq
  <2>2. Len(h) = 1
    BY <2>1
  <2>3. h[1] \in Frame
    BY <2>2, ElementOfSeq
  <2>4. <<h[1]>> \in Seq(Frame) /\ Len(<<h[1]>>) = 1 /\ <<h[1]>>[1] = h[1]
    BY <2>3
  <2>5. h = <<h[1]>>
    BY <2>2, <2>4, SeqEqual
  <2>6. QED BY <2>3, <2>5
<1>2. /\ d \o h \in Seq(Frame) /\ Len(h) = 1 /\ h[1] = f
      /\ Len(d \o h) = Len(d) + 1 /\ (d \o h)[Len(d) + 1] = f
  BY <1>1, ConcatProperties
<1>3. /\ Len(d \o h \o r) = Len(d) + 1 + Len(r)
      /\ (d \o h \o r)[Len(d) + 1] = f
  BY <1>2, ConcatProperties
<1>4. d \o h = Append(d, f)
  BY <1>1, AppendIsConcat
<1>5. QED BY <1>2, <1>3, <1>4

\* Every step of the pipes is a step of each stream, or leaves it alone.
LEMMA StepStream ==
  ASSUME PipeAssumption, TypeInv, ThreadInv, FlowInv, LagInv, [Next]_vars, NEW i \in Ids
  PROVE  Stream(i)!Next \/ UNCHANGED Stream(i)!vars
<1>1. ASSUME UNCHANGED <<accepted[i], delivered[i]>>, Carries(drain[i]) = Carries(drain'[i])
      PROVE  UNCHANGED Stream(i)!vars
  BY <1>1 DEF Stream!vars, Carries
<1>2. ASSUME UNCHANGED <<accepted[i], delivered[i]>>, Carries(drain[i]), ~Carries(drain'[i])
      PROVE  Stream(i)!Next
  BY <1>2 DEF Stream!Next, Stream!End, Carries
<1>3. CASE \/ UNCHANGED vars \/ Drop \/ Joined
           \/ \E j \in Ids : Open(j) \/ RegisterDirected(j) \/ DropEntry(j)
           \/ \E h \in DOMAIN handles : Close(h)
  <2>1. UNCHANGED <<accepted, delivered, drain>>
    BY <1>3 DEF vars, Drop, Joined, Open, RegisterDirected, DropEntry, Close, drainVars, sendVars
  <2>2. QED BY <1>1, <2>1
<1>4. ASSUME NEW j \in Ids,
             \/ Connected(j) \/ NotConnected(j) \/ AcceptFails(j) \/ Pop(j) \/ WriteFails(j)
             \/ CheckShutdown(j) \/ WriteEos(j)
      PROVE  Stream(i)!Next \/ UNCHANGED Stream(i)!vars
  <2>1. UNCHANGED <<accepted, delivered>>
    BY <1>4 DEF Connected, NotConnected, AcceptFails, Pop, WriteFails, CheckShutdown, WriteEos,
         sendVars
  <2>2. \/ Carries(drain[i]) \/ drain'[i] = drain[i]
        \/ drain[i] = "eos" /\ drain'[i] = "gone"
    BY <1>4, Shapes DEF Connected, NotConnected, AcceptFails, Pop, WriteFails, CheckShutdown,
         WriteEos, Goto, Carries, Serving
  <2>3. QED BY <1>1, <1>2, <2>1, <2>2 DEF Carries, Serving
<1>5. ASSUME NEW j \in Ids, OpenBinary(j)
      PROVE  Stream(i)!Next \/ UNCHANGED Stream(i)!vars
  <2>1. CASE i = j
    <3>1. /\ ~Carries(drain[i])
      BY <1>5, <2>1 DEF OpenBinary, Free, ThreadInv, Carries, Serving
    <3>2. accepted'[i] = << >> /\ delivered'[i] = << >> /\ Carries(drain'[i])
      BY <1>5, <2>1, Shapes DEF OpenBinary, Carries
    <3>3. QED BY <3>1, <3>2 DEF Stream!Next, Stream!Open, Carries
  <2>2. CASE i # j
    BY <1>1, <1>5, <2>2, Shapes DEF OpenBinary
  <2>3. QED BY <2>1, <2>2
<1>6. ASSUME NEW h \in DOMAIN handles, SendBinary(h)
      PROVE  Stream(i)!Next \/ UNCHANGED Stream(i)!vars
  <2>1. PICK j \in Ids : Push(j, offered[j] + 1) /\ offered[j] < MaxFrames
    BY <1>6, Shapes DEF SendBinary, Binding
  <2>2. PICK f \in Frame : f = offered[j] + 1
    <3>1. offered[j] \in 0 .. MaxFrames /\ MaxFrames \in Nat
      BY PipeAssumption DEF TypeInv, TypeOK, PipeAssumption
    <3>2. QED BY <2>1, <3>1 DEF Frame
  <2>3. UNCHANGED <<delivered, drain>>
    BY <1>6 DEF SendBinary, drainVars
  <2>4. CASE accepted'[i] = accepted[i]
    BY <1>1, <2>3, <2>4
  <2>5. CASE accepted'[i] # accepted[i]
    <3>1. j = i /\ Len(ring[i]) < Capacity /\ accepted'[i] = Append(accepted[i], f)
      BY <2>1, <2>2, <2>5, Shapes DEF Push
    <3>2. Len(accepted[i]) < Len(delivered[i]) + (Capacity + 1)
      <4>1. \A a, d, r, k \in Nat : a <= d + 1 + r /\ r < k => a < d + (k + 1)
        OBVIOUS
      <4>2. Len(accepted[i]) <= Len(delivered[i]) + 1 + Len(ring[i]) /\ Capacity \in Nat
        BY PipeAssumption DEF LagInv, PipeAssumption
      <4>3. QED BY <3>1, <4>1, <4>2, Lengths, Zenon
    <3>3. QED BY <2>2, <2>3, <3>1, <3>2 DEF Stream!Next, Stream!Accept
  <2>6. QED BY <2>4, <2>5
<1>7. ASSUME NEW j \in Ids, Written(j)
      PROVE  Stream(i)!Next \/ UNCHANGED Stream(i)!vars
  <2>1. CASE i = j
    <3>1. /\ drain[i] = "write" /\ drain'[i] = "look" /\ UNCHANGED accepted
          /\ delivered'[i] = delivered[i] \o hand[i]
      BY <1>7, <2>1, Shapes DEF Written, Goto, sendVars
    <3>2. hand[i] # << >> /\ Len(hand[i]) <= 1
      BY <3>1 DEF TypeInv, TypeOK
    <3>3. accepted[i] = delivered[i] \o hand[i] \o ring[i]
      BY <3>1 DEF ThreadInv, FlowInv, Flow, NoneLost
    <3>4. /\ Len(delivered[i]) < Len(accepted[i])
          /\ delivered[i] \o hand[i] = Append(delivered[i], accepted[i][Len(delivered[i]) + 1])
      <4>1. /\ delivered[i] \in Seq(Frame) /\ hand[i] \in Seq(Frame) /\ ring[i] \in Seq(Frame)
        BY Lengths
      <4>2. /\ Len(delivered[i]) < Len(delivered[i] \o hand[i] \o ring[i])
            /\ delivered[i] \o hand[i] = Append(delivered[i],
                 (delivered[i] \o hand[i] \o ring[i])[Len(delivered[i]) + 1])
        BY <3>2, <4>1, NextDelivered, Zenon
      <4>3. QED BY <3>3, <4>2, Zenon
    <3>5. QED BY <3>1, <3>4 DEF Stream!Next, Stream!Deliver, Serving
  <2>2. CASE i # j
    BY <1>1, <1>7, <2>2, Shapes DEF Written, Goto, sendVars
  <2>3. QED BY <2>1, <2>2
<1>8. QED
  BY <1>3, <1>4, <1>5, <1>6, <1>7 DEF Next, Guest, Host, Call, DrainStep, Client

LEMMA StreamInvariance == ASSUME PipeAssumption PROVE Spec => [](IInv /\ LagInv)
<1>1. Init => IInv /\ LagInv
  BY InitTypeInv, InitThreadInv, InitFlowInv, InitHandleInv, InitLagInv DEF IInv
<1>2. IInv /\ LagInv /\ [Next]_vars => (IInv /\ LagInv)'
  BY StepTypeInv, StepThreadInv, StepFlowInv, StepHandleInv, StepLagInv DEF IInv
<1>3. QED BY <1>1, <1>2, PTL DEF Spec

\* What typed_pipes.rs promises the two ends of a pipe, as FrameStream says it: in
\* order, nothing made up, doubled or skipped, at most Capacity + 1 frames under way.
THEOREM PipesAreStreams == Spec => ImplementsStream
<1>1. ASSUME Init PROVE \A i \in Ids : Stream(i)!Init
  <2>1. ASSUME NEW i \in Ids
        PROVE  Stream(i)!Init
    <3>1. accepted[i] = << >> /\ delivered[i] = << >> /\ drain[i] = "none"
      BY <1>1, <2>1 DEF Init
    <3>2. (drain[i] \in Serving \cup {"accept"}) = FALSE
      BY <3>1 DEF Serving
    <3>3. QED BY <3>1, <3>2 DEF Stream!Init
  <2>2. QED BY <2>1
<1>2. ASSUME IInv, LagInv, [Next]_vars
      PROVE  [\A i \in Ids : Stream(i)!Next \/ UNCHANGED Stream(i)!vars]_vars
  BY <1>2, PipeAssumption, StepStream DEF IInv
<1>3. QED BY <1>1, <1>2, StreamInvariance, PipeAssumption, PTL DEF Spec, ImplementsStream
=============================================================================
