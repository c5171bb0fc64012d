-------------------------- MODULE UdpServerProofs --------------------------
(* Theorems about UdpServer, for any addresses, any number of starts and   *)
(* threads, any lengths of packets and any size of the system buffer.      *)
EXTENDS UdpServer, TLAPS

\* A thread between its store of m_iRunning and its return.
Executing(k) == pc[k] \notin {"none", "created", "returned"}

NoThreadYet == \A k \in Runs : pc[k] = "none"

\* A thread that was created alone is alone.
OneThread ==
    ~overlap => \A j, k \in Runs : Active(j) /\ Active(k) => j = k

\* m_iRunning is then set while it is executing.  With two threads the
\* first to leave clears it.
RunningIsSet == ~overlap => \A k \in Runs : Executing(k) => iRunning

\* A Stop that was not early meets no thread that has yet to start, and its
\* request stands, with any number of threads.
StopStands ==
    owner # "idle" /\ ~early =>
        /\ \A k \in Runs : ~Starting(k)
        /\ iStop \/ NoThreadYet

\* After it returns, no thread touches the object again.
QuietAfterStop ==
    owner \in {"stopped", "destroyed"} /\ ~early /\ ~overlap =>
        \A k \in Runs : ~Active(k)

\* The owner has kept to one address, and not to port 0.
OneAddress == AnyPort \notin taken /\ \A a, b \in taken : a = b

\* A thread has taken an address, which the next one cannot take.
AddressTaken ==
    /\ ~NoThreadYet => taken # {}
    /\ OneAddress => ~overlap

Inv ==
    /\ TypeOK
    /\ OneThread /\ RunningIsSet
    /\ StopStands /\ QuietAfterStop
    /\ AddressTaken

\* The constructed object has no thread.
LEMMA InitInv == Init => Inv
<1> SUFFICES ASSUME Init PROVE Inv
  OBVIOUS
<1> USE DEF Init
<1>1. TypeOK
  <2>1. /\ starts \in 0 .. MaxStarts /\ socket \in 0 .. starts
        /\ 0 \in 0 .. MaxStarts /\ 0 \in 0 .. MaxInbox
    BY UdpAssumption
  <2>2. /\ pc \in [Runs -> Pcs] /\ len \in [Runs -> Nat]
        /\ from \in [Runs -> 0 .. MaxStarts] /\ inbox \in [Runs -> 0 .. MaxInbox]
    BY <2>1 DEF Pcs
  <2>3. iStop \in BOOLEAN /\ iRunning \in BOOLEAN
        /\ early \in BOOLEAN /\ overlap \in BOOLEAN /\ opened \in BOOLEAN
    BY Zenon
  <2> QED BY <2>1, <2>2, <2>3 DEF TypeOK
<1>2. NoThreadYet
  BY DEF NoThreadYet
<1> QED
  BY <1>1, <1>2 DEF Inv, NoThreadYet, OneThread, RunningIsSet, StopStands,
     QuietAfterStop, AddressTaken, Executing, Starting, Active

\* A step that leaves the threads and what they are told alone.
LEMMA QuietStep ==
  ASSUME Inv, TypeOK', UNCHANGED <<pc, iStop, iRunning, taken, early, overlap>>,
         \/ owner' = "idle" \/ owner' = owner
         \/ owner = "stopped" /\ owner' = "destroyed"
  PROVE  Inv'
  BY DEF Inv, NoThreadYet, OneThread, RunningIsSet, StopStands, QuietAfterStop,
     AddressTaken, OneAddress, Executing, Starting, Active

\* A datagram comes to a bound socket or is taken off it.
LEMMA InboxType ==
  ASSUME TypeOK, NEW s \in bound, NEW n \in 0 .. MaxInbox
  PROVE  s \in Runs /\ inbox[s] \in 0 .. MaxInbox
         /\ [inbox EXCEPT ![s] = n] \in [Runs -> 0 .. MaxInbox]
<1>1. starts \in 0 .. MaxStarts /\ s \in 1 .. starts /\ MaxStarts \in Nat
  BY UdpAssumption DEF TypeOK
<1>2. s \in Runs
  BY <1>1 DEF Runs
<1> QED BY <1>2 DEF TypeOK

\* Neither the owner's calls nor the world disturb the invariant.
LEMMA OwnerInv ==
  ASSUME Inv,
         \/ \E a \in Addresses : SetLocalIPPort(a)
         \/ \E m \in Modes : SetMode(m)
         \/ StartNoSocket \/ StartNotBound \/ StartBound
         \/ Recv \/ Stop \/ StopReturn \/ Destroy
         \/ PacketArrives \/ Consume
  PROVE  Inv'
<1> USE UdpAssumption
<1>t. TypeOK
  BY DEF Inv
<1>1. CASE \/ \E a \in Addresses : SetLocalIPPort(a)
           \/ \E m \in Modes : SetMode(m)
  <2>1. TypeOK'
    BY <1>1, <1>t DEF SetLocalIPPort, SetMode, TypeOK, sockets, flags, world, locals, history
  <2>2. UNCHANGED <<owner, pc, iStop, iRunning, taken, early, overlap>>
    BY <1>1 DEF SetLocalIPPort, SetMode, sockets, flags, locals, history
  <2> QED BY <2>1, <2>2, QuietStep
<1>2. CASE StartNoSocket \/ StartNotBound
  <2>1. TypeOK'
    <3>1. /\ starts' \in 0 .. MaxStarts /\ socket' \in 0 .. starts'
          /\ 1 .. starts \subseteq 1 .. starts'
      BY <1>2, <1>t DEF StartNoSocket, StartNotBound, BeginStart, TypeOK
    <3> QED
      BY <1>2, <1>t, <3>1 DEF StartNoSocket, StartNotBound, BeginStart, TypeOK, setup, flags, world
  <2>2. owner' = "idle" /\ UNCHANGED <<pc, iStop, iRunning, taken, early, overlap>>
    BY <1>2 DEF StartNoSocket, StartNotBound, BeginStart, flags
  <2> QED BY <2>1, <2>2, QuietStep
<1>3. CASE StartBound
  <2>1. /\ starts' \in Runs /\ owner' = "idle" /\ taken' = taken \cup {address}
        /\ UNCHANGED <<iStop, iRunning, early>>
        /\ CanBind
    BY <1>3, <1>t DEF StartBound, BeginStart, TypeOK, Runs, flags
  <2>2. \/ UNCHANGED <<pc, overlap>>
        \/ Goto(starts', "created") /\ overlap' = \E j \in Runs : Active(j)
    BY <1>3 DEF StartBound, CTCreateThread
  <2>3. TypeOK'
    <3>1. pc' \in [Runs -> Pcs] /\ overlap' \in BOOLEAN
      BY <2>1, <2>2, <1>t DEF TypeOK, Goto, Pcs
    <3>2. /\ starts' \in 0 .. MaxStarts /\ socket' \in 0 .. starts'
          /\ 1 .. starts \subseteq 1 .. starts' /\ starts' \in 1 .. starts'
      BY <1>3, <1>t DEF StartBound, BeginStart, TypeOK
    <3>3. bound' \subseteq 1 .. starts' /\ taken' \subseteq Addresses
      BY <1>3, <1>t, <3>2 DEF StartBound, TypeOK
    <3> QED
      BY <1>3, <1>t, <3>1, <3>2, <3>3 DEF StartBound, BeginStart, TypeOK, setup, flags, world
  <2>4. (StopStands /\ QuietAfterStop)'
    BY <2>1 DEF StopStands, QuietAfterStop
  <2>5. CASE UNCHANGED <<pc, overlap>>
    BY <2>1, <2>3, <2>4, <2>5 DEF Inv, NoThreadYet, OneThread, RunningIsSet, AddressTaken,
       OneAddress, Executing, Active
  <2>6. CASE Goto(starts', "created") /\ overlap' = \E j \in Runs : Active(j)
    <3>1. \A j \in Runs : j # starts' => pc'[j] = pc[j]
      BY <2>1, <2>6, <1>t DEF Goto, TypeOK
    <3>2. pc'[starts'] = "created"
      BY <2>1, <2>6, <1>t DEF Goto, TypeOK
    <3>3. (OneThread /\ RunningIsSet)'
      BY <2>6, <3>1, <3>2 DEF OneThread, RunningIsSet, Executing, Active
    <3>4. AddressTaken'
      <4>1. ASSUME OneAddress', overlap' PROVE FALSE
        <5>1. PICK j \in Runs : Active(j)
          BY <4>1, <2>6
        <5>2. PICK b \in taken : TRUE
          BY <5>1 DEF Inv, AddressTaken, NoThreadYet, Active
        <5>3. address = b /\ address # AnyPort
          BY <4>1, <2>1 DEF OneAddress
        <5> QED BY <5>2, <5>3, <2>1 DEF CanBind
      <4> QED BY <4>1, <2>1 DEF AddressTaken
    <3> QED BY <2>3, <2>4, <3>3, <3>4 DEF Inv
  <2> QED BY <2>2, <2>5, <2>6
<1>4. CASE Recv \/ PacketArrives \/ Consume
  <2>1. TypeOK'
    <3>1. \A s \in bound : inbox[s] \in 0 .. MaxInbox
      BY <1>t, InboxType
    <3>2. inbox' \in [Runs -> 0 .. MaxInbox]
      <4>1. CASE Recv
        <5>1. socket \in bound /\ inbox[socket] - 1 \in 0 .. MaxInbox
          BY <4>1, <3>1 DEF Recv
        <5> QED BY <4>1, <5>1, <1>t, InboxType DEF Recv
      <4>2. CASE PacketArrives
        <5>1. PICK s \in bound : /\ inbox[s] < MaxInbox
                                 /\ inbox' = [inbox EXCEPT ![s] = inbox[s] + 1]
          BY <4>2 DEF PacketArrives
        <5>2. inbox[s] + 1 \in 0 .. MaxInbox
          BY <5>1, <3>1
        <5> QED BY <5>1, <5>2, <1>t, InboxType
      <4>3. CASE Consume
        BY <4>3, <1>t DEF Consume, TypeOK
      <4> QED BY <1>4, <4>1, <4>2, <4>3
    <3>3. space' \in 0 .. BufferSize - 1
      BY <1>4, <1>t DEF Recv, PacketArrives, Consume, TypeOK
    <3> QED
      BY <1>4, <1>t, <3>2, <3>3 DEF Recv, PacketArrives, Consume, TypeOK, setup, sockets,
         flags, locals, history
  <2>2. UNCHANGED <<owner, pc, iStop, iRunning, taken, early, overlap>>
    BY <1>4 DEF Recv, PacketArrives, Consume, sockets, flags, locals, history
  <2> QED BY <2>1, <2>2, QuietStep
<1>5. CASE Stop
  <2>1. /\ owner' = "stopping" /\ iStop' = TRUE /\ early' = \E k \in Runs : Starting(k)
        /\ UNCHANGED <<pc, iRunning, taken, overlap>>
    BY <1>5 DEF Stop, sockets, locals
  <2>2. TypeOK'
    BY <1>5, <1>t DEF Stop, TypeOK, setup, sockets, world, locals
  <2> QED BY <2>1, <2>2 DEF Inv, NoThreadYet, OneThread, RunningIsSet, StopStands,
       QuietAfterStop, AddressTaken, OneAddress, Executing, Starting, Active
<1>6. CASE StopReturn
  <2>1. /\ owner = "stopping" /\ owner' = "stopped" /\ ~iRunning
        /\ UNCHANGED <<pc, iStop, iRunning, taken, early, overlap>>
    BY <1>6 DEF StopReturn, sockets, flags, locals, history
  <2>2. TypeOK'
    BY <1>6, <1>t DEF StopReturn, TypeOK, setup, sockets, flags, world, locals, history
  <2> QED BY <2>1, <2>2 DEF Inv, NoThreadYet, OneThread, RunningIsSet, StopStands,
       QuietAfterStop, AddressTaken, OneAddress, Executing, Starting, Active
<1>7. CASE Destroy
  <2>1. /\ owner = "stopped" \/ NoThreadYet
        /\ owner' = "destroyed"
        /\ UNCHANGED <<pc, iStop, iRunning, taken, early, overlap>>
    BY <1>7 DEF Destroy, NoThreadYet, flags, locals, history
  <2>2. TypeOK'
    BY <1>7, <1>t DEF Destroy, TypeOK, setup, flags, world, locals, history
  <2> QED BY <2>1, <2>2 DEF Inv, NoThreadYet, OneThread, RunningIsSet, StopStands,
       QuietAfterStop, AddressTaken, OneAddress, Executing, Starting, Active
<1> QED BY <1>1, <1>2, <1>3, <1>4, <1>5, <1>6, <1>7

\* A step of Execute keeps what the owner relies on.
LEMMA ThreadInv ==
  ASSUME Inv, NEW k \in Runs, Execute(k)
  PROVE  Inv'
<1> USE DEF Inv
<1>1. TypeOK'
  <2> USE UdpAssumption DEF TypeOK, Pcs, Goto, setup, sockets, flags, world, history
  <2>1. CASE SetRunning(k) BY <2>1 DEF SetRunning
  <2>2. CASE ClearStop(k) BY <2>2 DEF ClearStop
  <2>3. CASE OpenFile(k) \/ OpenFails(k) BY <2>3 DEF OpenFile, OpenFails
  <2>4. CASE TestStop(k) BY <2>4 DEF TestStop
  <2>5. CASE Receive(k)
    <3>1. from[k] \in bound /\ inbox[from[k]] - 1 \in 0 .. MaxInbox
      BY <2>5, InboxType DEF Receive
    <3>2. inbox' \in [Runs -> 0 .. MaxInbox]
      BY <2>5, <3>1, InboxType DEF Receive
    <3>3. len' \in [Runs -> Nat]
      BY <2>5 DEF Receive
    <3>4. UNCHANGED <<setup, owner, starts, sockets, flags, space, from, history>>
          /\ pc' \in [Runs -> Pcs]
      BY <2>5 DEF Receive
    <3> QED BY <3>2, <3>3, <3>4
  <2>6. CASE ReceiveFails(k) BY <2>6 DEF ReceiveFails
  <2>7. CASE WriteFile(k) \/ CopyToBuffer(k) BY <2>7 DEF WriteFile, CopyToBuffer
  <2>8. CASE Leave(k) BY <2>8 DEF Leave
  <2> QED BY <2>1, <2>2, <2>3, <2>4, <2>5, <2>6, <2>7, <2>8
       DEF Execute, Proceed, ReceiveRefused
<1>2. /\ Active(k)
      /\ \E p \in Pcs \ {"none", "created"} : Goto(k, p)
      /\ UNCHANGED <<owner, taken, early, overlap>>
  BY DEF Execute, Proceed, ReceiveRefused, SetRunning, ClearStop, OpenFile,
     OpenFails, TestStop, Receive, ReceiveFails, WriteFile, CopyToBuffer, Leave,
     Active, Pcs, sockets, history, Goto
<1>3. /\ \A j \in Runs : j # k => pc'[j] = pc[j]
      /\ pc'[k] \notin {"none", "created"}
  BY <1>2 DEF Goto, TypeOK
<1>4. (OneThread /\ AddressTaken)'
  BY <1>2, <1>3 DEF OneThread, AddressTaken, OneAddress, NoThreadYet, Active
<1>5. RunningIsSet'
  <2>1. SUFFICES ASSUME ~overlap, NEW j \in Runs, Executing(j)' PROVE iRunning'
    BY <1>2 DEF RunningIsSet
  <2>2. j = k
    BY <2>1, <1>2, <1>3 DEF OneThread, Active, Executing
  <2>3. CASE SetRunning(k)
    BY <2>3 DEF SetRunning
  <2>4. CASE OpenFails(k) \/ Leave(k)
    BY <2>1, <2>2, <2>4 DEF OpenFails, Leave, Executing, Goto, TypeOK
  <2>5. CASE Executing(k) /\ UNCHANGED iRunning
    BY <2>1, <2>5 DEF RunningIsSet
  <2> QED BY <2>3, <2>4, <2>5 DEF Execute, Proceed, ReceiveRefused, ClearStop,
       OpenFile, TestStop, Receive, ReceiveFails, WriteFile, CopyToBuffer, Executing,
       flags
<1>6. StopStands'
  <2>1. SUFFICES ASSUME owner # "idle", ~early
                 PROVE  (\A j \in Runs : ~Starting(j)') /\ iStop'
    BY <1>2 DEF StopStands
  <2>2. /\ \A j \in Runs : ~Starting(j)
        /\ iStop
    BY <2>1, <1>2 DEF StopStands, NoThreadYet, Active
  <2>3. ~SetRunning(k) /\ ~ClearStop(k)
    BY <2>2 DEF Starting, SetRunning, ClearStop
  <2>4. /\ UNCHANGED iStop
        /\ \E p \in Pcs \ {"none", "created", "begun"} : Goto(k, p)
    BY <2>3 DEF Execute, Proceed, ReceiveRefused, OpenFile, OpenFails, TestStop,
       Receive, ReceiveFails, WriteFile, CopyToBuffer, Leave, Pcs, Goto, flags
  <2> QED BY <2>2, <2>4, <1>3 DEF Starting, Goto, TypeOK
<1>7. QuietAfterStop'
  BY <1>2 DEF QuietAfterStop
<1> QED BY <1>1, <1>4, <1>5, <1>6, <1>7

LEMMA NextInv == Inv /\ [Next]_vars => Inv'
<1> SUFFICES ASSUME Inv, [Next]_vars PROVE Inv'
  OBVIOUS
<1>1. CASE UNCHANGED vars
  <2>1. UNCHANGED <<owner, pc, iStop, iRunning, taken, early, overlap>>
    BY <1>1 DEF vars, sockets, flags, locals, history
  <2>2. TypeOK'
    BY <1>1 DEF Inv, TypeOK, vars, setup, sockets, flags, world, locals, history
  <2> QED BY <2>1, <2>2, QuietStep
<1>2. CASE Next
  BY <1>2, OwnerInv, ThreadInv DEF Next
<1> QED BY <1>1, <1>2

THEOREM SpecInv == Spec => []Inv
<1> QED BY InitInv, NextInv, PTL DEF Spec

\* Types, in particular no negative space whatever the lengths of packets.
THEOREM SpecTypeOK == Spec => []TypeOK
<1>1. Inv => TypeOK
  BY DEF Inv
<1> QED BY <1>1, SpecInv, PTL

\* The threads are out of the object when the owner destroys it, unless Stop
\* was called before a thread had cleared m_iStop (lines 158-171), or the last
\* Start created a thread beside another one (lines 136, 145 and 223).
THEOREM SpecNoUseAfterDestroy == Spec => []NoUseAfterDestroy
<1>1. Inv => NoUseAfterDestroy
  BY DEF Inv, QuietAfterStop, NoUseAfterDestroy
<1> QED BY <1>1, SpecInv, PTL

\* An owner that binds to one address only, and not to port 0, never has two
\* threads in the object (line 136), and none when it destroys it after a
\* Stop that was not early.
THEOREM SpecOneAddressIsSafe ==
  Spec => [](OneAddress =>
                /\ \A j, k \in Runs : Active(j) /\ Active(k) => j = k
                /\ owner = "destroyed" /\ ~early => \A k \in Runs : ~Active(k))
<1>1. Inv => (OneAddress =>
                /\ \A j, k \in Runs : Active(j) /\ Active(k) => j = k
                /\ owner = "destroyed" /\ ~early => \A k \in Runs : ~Active(k))
  BY DEF Inv, AddressTaken, OneThread, QuietAfterStop
<1> QED BY <1>1, SpecInv, PTL

\* With any number of threads, none goes back for another packet between a
\* Stop that was not early and the next Start (lines 158, 171 and 184).
THEOREM SpecStopIsHeeded == Spec => StopIsHeeded
<1> DEFINE Heeds == owner # "idle" /\ ~early =>
                        \A k \in Runs : ~(pc[k] = "loop" /\ pc'[k] = "receive")
<1>1. Inv /\ [Next]_vars => [Heeds]_vars
  <2> SUFFICES ASSUME Inv, Next, owner # "idle", ~early,
                      NEW k \in Runs, pc[k] = "loop", pc'[k] = "receive"
               PROVE  FALSE
    OBVIOUS
  <2>1. iStop
    BY DEF Inv, StopStands, NoThreadYet
  <2>2. pc' # pc
    OBVIOUS
  <2>3. ~StartBound
    <3>1. SUFFICES ASSUME StartBound PROVE FALSE
      OBVIOUS
    <3>2. UNCHANGED pc \/ Goto(starts', "created")
      BY <3>1 DEF StartBound, CTCreateThread
    <3>3. Goto(starts', "created")
      BY <2>2, <3>2
    <3> QED BY <3>3 DEF Goto, Inv, TypeOK
  <2>4. PICK j \in Runs : Execute(j)
    BY <2>2, <2>3 DEF Next, SetLocalIPPort, SetMode, StartNoSocket, StartNotBound,
       Recv, Stop, StopReturn, Destroy, PacketArrives, Consume, locals
  <2>5. PICK p \in Pcs : Goto(j, p) /\ (p = "receive" => TestStop(j))
    BY <2>4 DEF Execute, Proceed, ReceiveRefused, SetRunning, ClearStop, OpenFile,
       OpenFails, TestStop, Receive, ReceiveFails, WriteFile, CopyToBuffer, Leave,
       Pcs, Goto
  <2>6. j = k /\ p = "receive"
    BY <2>5 DEF Goto, Inv, TypeOK
  <2>7. Goto(k, "leave")
    BY <2>1, <2>5, <2>6 DEF TestStop
  <2> QED BY <2>7 DEF Goto, Inv, TypeOK
<1>2. [][Heeds]_vars => StopIsHeeded
  BY DEF StopIsHeeded
<1> QED BY <1>1, <1>2, SpecInv, PTL DEF Spec
=============================================================================
