----------------------------- MODULE UdpServer -----------------------------
(* The UDP server of udpserver/udpserver.cpp: an owner that sets up,       *)
(* starts, stops and destroys the object, and the threads that Start       *)
(* creates, which receive packets and dump them to a file or to a system   *)
(* buffer.  They share m_iStop, m_iRunning, m_socket and m_pucBuffer       *)
(* without a lock.                                                         *)
(*                                                                         *)
(* Each action of a thread is one access to what they share, or one call   *)
(* of the system.  The k-th Start makes socket k and may create thread k.  *)
(* Start does not ask whether a thread of an earlier one is still there.   *)
EXTENDS Integers, FiniteSets

CONSTANTS
    Addresses,      \* the local addresses, IP and port, it may be given
    AnyPort,        \* one with port 0: the system chooses a free port
    MaxStarts,      \* bound: calls of Start
    MaxInbox,       \* datagrams a socket queues; more are dropped
    BufferSize,     \* iSize of the system buffer
    PacketSizes     \* lengths of datagrams

ASSUME UdpAssumption ==
    /\ AnyPort \in Addresses
    /\ MaxStarts \in Nat /\ MaxInbox \in Nat
    /\ BufferSize \in Nat \ {0}
    /\ PacketSizes \subseteq Nat \ {0}

VARIABLES
    mode,       \* m_iMode: what to do with packets
    address,    \* m_pcIP and m_uiPort
    owner,      \* the owner: "idle", "stopping", "stopped" or "destroyed"
    starts,     \* calls of Start so far; each makes a socket of that number
    socket,     \* m_socket: 0 for INVALID_SOCKET
    bound,      \* the sockets that are bound and not closed
    taken,      \* the addresses they were bound to
    iStop,      \* m_iStop
    iRunning,   \* m_iRunning
    inbox,      \* datagrams queued on each socket
    space,      \* bytes free in the system buffer
    pc,         \* where each thread is in Execute
    from,       \* the socket it receives from
    len,        \* the bytes it got
    early,      \* history: the last Stop came before a thread cleared m_iStop
    overlap,    \* history: the last thread was created beside another one
    opened      \* history: fopen has not failed

setup == <<mode, address>>
sockets == <<socket, bound, taken>>
flags == <<iStop, iRunning>>
world == <<inbox, space>>
locals == <<pc, from, len>>
history == <<early, overlap, opened>>
vars == <<setup, owner, starts, sockets, flags, world, locals, history>>

Modes == {"default", "file", "buffer"}
Runs == 1 .. MaxStarts
Pcs == {"none", "created", "begun", "open", "loop", "receive", "write",
        "wait", "leave", "returned"}

Goto(k, label) == pc' = [pc EXCEPT ![k] = label]

\* A thread that has been created and will touch the object again.
Active(k) == pc[k] \notin {"none", "returned"}

\* It has not yet cleared m_iStop.
Starting(k) == pc[k] \in {"created", "begun"}

\* The constructor with an address and a mode.  The other constructor leaves
\* m_socket, m_iStop and m_iRunning as they are.
Init ==
    /\ mode \in Modes /\ address \in Addresses
    /\ owner = "idle" /\ starts = 0
    /\ socket = 0 /\ bound = {} /\ taken = {}
    /\ iStop = FALSE /\ iRunning = FALSE
    /\ inbox = [s \in Runs |-> 0]
    /\ space \in 0 .. BufferSize - 1
    /\ pc = [k \in Runs |-> "none"]
    /\ from = [k \in Runs |-> 0]
    /\ len = [k \in Runs |-> 0]
    /\ early = FALSE /\ overlap = FALSE /\ opened = TRUE

----------------------------------------------------------------------------
\* The owner.

\* The address counts at the next Start; threads that run keep their sockets.
SetLocalIPPort(a) ==
    /\ owner \in {"idle", "stopped"}
    /\ address' = a
    /\ UNCHANGED <<mode, owner, starts, sockets, flags, world, locals, history>>

\* Threads look at m_iMode for each packet, and have opened a file only if it
\* was their mode at first: the owner sets it while no thread runs.
SetMode(m) ==
    /\ owner \in {"idle", "stopped"}
    /\ \A k \in Runs : ~Active(k)
    /\ mode' = m
    /\ UNCHANGED <<address, owner, starts, sockets, flags, world, locals, history>>

\* A call of Start: socket, bind, CTCreateThread.
BeginStart ==
    /\ owner \in {"idle", "stopped"}
    /\ starts < MaxStarts
    /\ starts' = starts + 1
    /\ owner' = "idle"
    /\ UNCHANGED <<setup, flags, world, from, len, early, opened>>

\* socket fails, and m_socket is INVALID_SOCKET.
StartNoSocket ==
    /\ BeginStart
    /\ socket' = 0
    /\ UNCHANGED <<bound, taken, pc, overlap>>

\* bind fails: the address is taken, by another program or by a socket of an
\* earlier Start, which nothing closes before the object is destroyed.
StartNotBound ==
    /\ BeginStart
    /\ socket' = starts'
    /\ UNCHANGED <<bound, taken, pc, overlap>>

\* It may succeed again with another address, or with any port.
CanBind == address = AnyPort \/ address \notin taken

\* It may fail; on Windows it then returns 0 all the same, for it looks at
\* the caller's handle and not at the result of CreateThread.
CTCreateThread(k) ==
    \/ UNCHANGED <<pc, overlap>>
    \/ Goto(k, "created") /\ overlap' = \E j \in Runs : Active(j)

\* In the default mode no thread is created.
StartBound ==
    /\ BeginStart
    /\ CanBind
    /\ socket' = starts'
    /\ bound' = bound \cup {starts'} /\ taken' = taken \cup {address}
    /\ IF mode = "default" THEN UNCHANGED <<pc, overlap>> ELSE CTCreateThread(starts')

\* In the default mode the owner receives by itself.  Recv ignores its
\* arguments and writes to m_pucBuffer.
Recv ==
    /\ mode = "default" /\ owner = "idle"
    /\ socket \in bound /\ inbox[socket] > 0
    /\ inbox' = [inbox EXCEPT ![socket] = @ - 1]
    /\ UNCHANGED <<setup, owner, starts, sockets, flags, space, locals, history>>

\* Stop asks the threads to leave and then polls m_iRunning.
Stop ==
    /\ owner \in {"idle", "stopped"}
    /\ iStop' = TRUE
    /\ early' = \E k \in Runs : Starting(k)
    /\ owner' = "stopping"
    /\ UNCHANGED <<setup, starts, sockets, iRunning, world, locals, overlap, opened>>

StopReturn ==
    /\ owner = "stopping"
    /\ ~iRunning
    /\ owner' = "stopped"
    /\ UNCHANGED <<setup, starts, sockets, flags, world, locals, history>>

\* The destructor frees m_pucBuffer and closes m_socket, and no other socket.
\* The owner calls it after Stop, or without it when there has been no thread.
Destroy ==
    /\ owner = "stopped" \/ (owner = "idle" /\ \A k \in Runs : pc[k] = "none")
    /\ owner' = "destroyed"
    /\ bound' = bound \ {socket}
    /\ UNCHANGED <<setup, starts, socket, taken, flags, world, locals, history>>

----------------------------------------------------------------------------
\* Execute, in thread k.  A step after the owner destroyed the object uses
\* freed memory; the model lets it do that and go on.

\* Slip: m_iRunning is never set.
SetRunning_Not(k) ==
    /\ pc[k] = "created"
    /\ Goto(k, "begun")
    /\ UNCHANGED <<setup, owner, starts, sockets, flags, world, from, len, history>>

SetRunning(k) ==
    /\ pc[k] = "created"
    /\ iRunning' = TRUE
    /\ Goto(k, "begun")
    /\ UNCHANGED <<setup, owner, starts, sockets, iStop, world, from, len, history>>

ClearStop(k) ==
    /\ pc[k] = "begun"
    /\ iStop' = FALSE
    /\ Goto(k, IF mode = "file" THEN "open" ELSE "loop")
    /\ UNCHANGED <<setup, owner, starts, sockets, iRunning, world, from, len, history>>

\* Slip: m_iStop is cleared once the file has been opened.
OpenFile_Clears(k) ==
    /\ pc[k] = "open"
    /\ iStop' = FALSE
    /\ Goto(k, "loop")
    /\ UNCHANGED <<setup, owner, starts, sockets, iRunning, world, from, len, history>>

OpenFile(k) ==
    /\ pc[k] = "open"
    /\ Goto(k, "loop")
    /\ UNCHANGED <<setup, owner, starts, sockets, flags, world, from, len, history>>

\* fopen fails: Execute returns and leaves m_iRunning set.
OpenFails(k) ==
    /\ pc[k] = "open"
    /\ Goto(k, "returned")
    /\ opened' = FALSE
    /\ UNCHANGED <<setup, owner, starts, sockets, flags, world, from, len, early, overlap>>

\* Slip: the loop does not look at m_iStop.
TestStop_Never(k) ==
    /\ pc[k] = "loop"
    /\ from' = [from EXCEPT ![k] = socket]
    /\ Goto(k, "receive")
    /\ UNCHANGED <<setup, owner, starts, sockets, flags, world, len, history>>

\* The test of m_iStop, and the call of recvfrom on m_socket.
TestStop(k) ==
    /\ pc[k] = "loop"
    /\ \/ iStop /\ Goto(k, "leave") /\ UNCHANGED from
       \/ ~iStop /\ Goto(k, "receive") /\ from' = [from EXCEPT ![k] = socket]
    /\ UNCHANGED <<setup, owner, starts, sockets, flags, world, len, history>>

\* recvfrom blocks until there is a datagram.
Receive(k) ==
    /\ pc[k] = "receive"
    /\ from[k] \in bound /\ inbox[from[k]] > 0
    /\ inbox' = [inbox EXCEPT ![from[k]] = @ - 1]
    /\ \E n \in PacketSizes : len' = [len EXCEPT ![k] = n]
    /\ Goto(k, IF mode = "file" THEN "write" ELSE "wait")
    /\ UNCHANGED <<setup, owner, starts, sockets, flags, space, from, history>>

\* recvfrom fails, or returns an empty datagram.
ReceiveFails(k) ==
    /\ pc[k] = "receive"
    /\ Goto(k, "leave")
    /\ UNCHANGED <<setup, owner, starts, sockets, flags, world, from, len, history>>

\* It is certain to when another call of Start has put a socket that is not
\* bound in the place of the first, or the destructor has closed it.
ReceiveRefused(k) == from[k] \notin bound /\ ReceiveFails(k)

WriteFile(k) ==
    /\ pc[k] = "write"
    /\ \/ Goto(k, "loop")       \* fwrite wrote it all
       \/ Goto(k, "leave")
    /\ UNCHANGED <<setup, owner, starts, sockets, flags, world, from, len, history>>

\* Slip: the tail is moved and the space is not waited for.
CopyToBuffer_NoWait(k) ==
    /\ pc[k] = "wait"
    /\ space' = space - len[k]
    /\ Goto(k, "loop")
    /\ UNCHANGED <<setup, owner, starts, sockets, flags, inbox, from, len, history>>

\* The thread polls until the packet fits, and copies it behind the data of
\* the system buffer.  It never calls MBUFFERSYSExtend, so the space stays,
\* and of a packet split at the end both parts go to the same place.
CopyToBuffer(k) ==
    /\ pc[k] = "wait"
    /\ space >= len[k]
    /\ Goto(k, "loop")
    /\ UNCHANGED <<setup, owner, starts, sockets, flags, world, from, len, history>>

Leave(k) ==
    /\ pc[k] = "leave"
    /\ iRunning' = FALSE
    /\ Goto(k, "returned")
    /\ UNCHANGED <<setup, owner, starts, sockets, iStop, world, from, len, history>>

\* What the thread does when it is scheduled; recvfrom need not fail.
Proceed(k) ==
    \/ SetRunning(k) \/ ClearStop(k) \/ OpenFile(k) \/ OpenFails(k)
    \/ TestStop(k) \/ Receive(k) \/ ReceiveRefused(k) \/ WriteFile(k)
    \/ CopyToBuffer(k) \/ Leave(k)

Execute(k) == Proceed(k) \/ ReceiveFails(k)

----------------------------------------------------------------------------
\* The rest of the world.

PacketArrives ==
    /\ \E s \in bound : inbox[s] < MaxInbox /\ inbox' = [inbox EXCEPT ![s] = @ + 1]
    /\ UNCHANGED <<setup, owner, starts, sockets, flags, space, locals, history>>

\* The consumer of the system buffer takes a byte that was in it before.
Consume ==
    /\ mode = "buffer" /\ space < BufferSize - 1
    /\ space' = space + 1
    /\ UNCHANGED <<setup, owner, starts, sockets, flags, inbox, locals, history>>

Next ==
    \/ \E a \in Addresses : SetLocalIPPort(a)
    \/ \E m \in Modes : SetMode(m)
    \/ StartNoSocket \/ StartNotBound \/ StartBound
    \/ Recv \/ Stop \/ StopReturn \/ Destroy
    \/ \E k \in Runs : Execute(k)
    \/ PacketArrives \/ Consume

\* The threads are scheduled, and so is the owner while it polls.  Nothing is
\* assumed of senders and of the consumer of the system buffer.
Fairness ==
    /\ \A k \in Runs : WF_vars(Proceed(k))
    /\ WF_vars(StopReturn)

Spec == Init /\ [][Next]_vars /\ Fairness

----------------------------------------------------------------------------
TypeOK ==
    /\ mode \in Modes /\ address \in Addresses
    /\ owner \in {"idle", "stopping", "stopped", "destroyed"}
    /\ starts \in 0 .. MaxStarts
    /\ socket \in 0 .. starts /\ bound \subseteq 1 .. starts /\ taken \subseteq Addresses
    /\ iStop \in BOOLEAN /\ iRunning \in BOOLEAN
    /\ inbox \in [Runs -> 0 .. MaxInbox]
    /\ space \in 0 .. BufferSize - 1
    /\ pc \in [Runs -> Pcs]
    /\ from \in [Runs -> 0 .. MaxStarts]
    /\ len \in [Runs -> Nat]
    /\ early \in BOOLEAN /\ overlap \in BOOLEAN /\ opened \in BOOLEAN

\* Once the owner has destroyed the object no thread touches it again, with
\* two exceptions.  A Stop that came before the thread had cleared m_iStop
\* found m_iRunning unset, or its request was overwritten (lines 158-171).
\* And if a thread was created while another ran (lines 136 and 145), the
\* first of the two to leave has cleared m_iRunning for both (line 223).
NoUseAfterDestroy ==
    owner = "destroyed" /\ ~early /\ ~overlap => \A k \in Runs : ~Active(k)

\* After a Stop no thread goes back for another packet, however many threads
\* there are and whichever of them leaves first, until the next Start: none
\* clears m_iStop any more (line 171), unless one had yet to when Stop came.
StopIsHeeded ==
    [][owner # "idle" /\ ~early =>
        \A k \in Runs : ~(pc[k] = "loop" /\ pc'[k] = "receive")]_vars

\* The thread waits for a datagram, or for space in the system buffer.
Blocked(k) ==
    \/ pc[k] = "receive" /\ from[k] \in bound /\ inbox[from[k]] = 0
    \/ pc[k] = "wait" /\ space < len[k]

\* Stop returns unless the thread waits for a datagram or for space for ever,
\* neither of which looks at m_iStop (lines 186 and 201): one datagram after
\* it and room for it are enough.  That is, provided it was not called too
\* early and the file could be opened (lines 171 and 177-180: both leave
\* m_iRunning set for good).
StopReturns ==
    owner = "stopping" ~>
        owner = "stopped" \/ early \/ ~opened \/ [](\E k \in Runs : Blocked(k))
============================================================================
