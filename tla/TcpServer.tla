------------------------------ MODULE TcpServer ------------------------------
(***************************************************************************)
(* The life of the connections of a packet server: the listen callback of  *)
(* TCPServer::start, the Client objects it makes, their libuv handles, and *)
(* the application's packet and over callbacks, which run inside the       *)
(* server's own call stack and may send from there.                        *)
(*                                                                         *)
(* A Client frees itself (delete this, in except_error) while its handle   *)
(* is only closing and while calls of it may be on the stack.  Touching a  *)
(* Client after that is undefined behaviour: the model records it in fault *)
(* and stops.                                                              *)
(***************************************************************************)
EXTENDS Integers, Sequences

CONSTANTS Clients,          \* the connections peers may open
          MaxBatch,         \* packets decoded per read (5)
          MaxPackets,       \* bound: packets a peer sends
          MaxWrites,        \* bound: writes of a connection under way
          WriteOutcomes,    \* what libuv makes of a write: see WriteStates
          SyncWriteErrors,  \* TRUE: uv_write itself may fail (Windows)
          PeernameErrors    \* TRUE: a peer may be gone when it is accepted

\* A write is queued when the socket takes no more, flushed when the kernel has
\* it, failed when the kernel refused it; its callback comes in a later round of
\* the event loop in each case.
WriteStates == {"queued", "flushed", "failed"}

ASSUME ServerAssumption ==
  /\ MaxBatch \in Nat \ {0} /\ MaxPackets \in Nat /\ MaxWrites \in Nat
  /\ WriteOutcomes \subseteq WriteStates
  /\ SyncWriteErrors \in BOOLEAN /\ PeernameErrors \in BOOLEAN

NoFault == [at |-> "nowhere"]
Faults == {NoFault} \cup
          [at : {"listen", "decoder", "packet callback", "write callback"}, client : Clients]

VARIABLES server,   \* "idle", "listening" or "stopped"
          peer,     \* per connection: "none", "connecting", "up" or "gone"
          object,   \* the Client: "none", "alive" or "deleted"
          handle,   \* its uv_tcp_t: "none", "open", "closing", "freed", "leaked"
          unread,   \* packets the peer has still to send
          ready,    \* complete packets in recv_buffer_
          writes,   \* the connection's writes whose callback is due, in order
          stack,    \* calls in progress, innermost last
          held,     \* the Clients the application keeps a pointer to
          overs,    \* how often the over callback has been called
          fault     \* the use of a deleted Client that ended the run

vars == <<server, peer, object, handle, unread, ready, writes, stack, held, overs, fault>>

\* decode: in Decoder::handle, count packets done; packet: in the packet callback
\* of that loop; over: in the over callback, called by except_error.
Call == [at : {"decode", "packet", "over"}, client : Clients, count : 0 .. MaxBatch - 1]

TypeOK == /\ server \in {"idle", "listening", "stopped"}
          /\ peer \in [Clients -> {"none", "connecting", "up", "gone"}]
          /\ object \in [Clients -> {"none", "alive", "deleted"}]
          /\ handle \in [Clients -> {"none", "open", "closing", "freed", "leaked"}]
          /\ unread \in [Clients -> 0 .. MaxPackets]
          /\ ready \in [Clients -> Nat]
          /\ writes \in [Clients -> Seq(WriteStates)]
          /\ stack \in Seq(Call)
          /\ held \in SUBSET Clients
          /\ overs \in [Clients -> Nat]
          /\ fault \in Faults

Init == /\ server = "idle"
        /\ peer = [c \in Clients |-> "none"]
        /\ object = [c \in Clients |-> "none"]
        /\ handle = [c \in Clients |-> "none"]
        /\ unread = [c \in Clients |-> MaxPackets]
        /\ ready = [c \in Clients |-> 0]
        /\ writes = [c \in Clients |-> << >>]
        /\ stack = << >>
        /\ held = {}
        /\ overs = [c \in Clients |-> 0]
        /\ fault = NoFault

-----------------------------------------------------------------------------
(* The call stack.  The event loop calls back only when it is empty. *)

InLoop == stack = << >> /\ fault = NoFault

Top == stack[Len(stack)]
In(at) == stack # << >> /\ fault = NoFault /\ Top.at = at
InApplication == fault = NoFault /\ (stack # << >> => Top.at \in {"packet", "over"})

Push(s, call) == Append(s, call)
Pop(s) == SubSeq(s, 1, Len(s) - 1)
Goto(at, n) == [stack EXCEPT ![Len(stack)] = [at |-> at, client |-> Top.client, count |-> n]]

OverCall(c) == [at |-> "over", client |-> c, count |-> 0]

\* Client::except_error up to the over callback, called from stack s.  Closing a
\* handle stops its reads.
ExceptError(c, s) == /\ handle' = [handle EXCEPT ![c] = "closing"]
                     /\ overs' = [overs EXCEPT ![c] = @ + 1]
                     /\ stack' = Push(s, OverCall(c))

Fail(at, c) == fault' = [at |-> at, client |-> c]

-----------------------------------------------------------------------------
(* The server and the peers *)

Start == /\ fault = NoFault
         /\ server = "idle"
         /\ server' = "listening"
         /\ UNCHANGED <<peer, object, handle, unread, ready, writes, stack, held, overs, fault>>

\* ~TCPServer closes the listening socket; the connections live on.
Stop == /\ fault = NoFault
        /\ server # "stopped"
        /\ server' = "stopped"
        /\ UNCHANGED <<peer, object, handle, unread, ready, writes, stack, held, overs, fault>>

Connect(c) == /\ server = "listening"
              /\ fault = NoFault
              /\ peer[c] = "none"
              /\ peer' = [peer EXCEPT ![c] = "connecting"]
              /\ UNCHANGED <<server, object, handle, unread, ready, writes, stack, held,
                             overs, fault>>

PeerLeaves(c) == /\ fault = NoFault
                 /\ peer[c] = "up"
                 /\ peer' = [peer EXCEPT ![c] = "gone"]
                 /\ UNCHANGED <<server, object, handle, unread, ready, writes, stack, held,
                                overs, fault>>

Incoming(c) == InLoop /\ server = "listening" /\ peer[c] = "connecting"

\* The listen callback: new Client(...), then its callbacks are set.
OnConnection(c) == /\ Incoming(c)
                   /\ peer' = [peer EXCEPT ![c] = "up"]
                   /\ object' = [object EXCEPT ![c] = "alive"]
                   /\ handle' = [handle EXCEPT ![c] = "open"]
                   /\ UNCHANGED <<server, unread, ready, writes, stack, held, overs, fault>>

\* accept fails: the constructor throws, and the handle it made is never closed.
AcceptFails(c) == /\ Incoming(c)
                  /\ peer' = [peer EXCEPT ![c] = "gone"]
                  /\ handle' = [handle EXCEPT ![c] = "leaked"]
                  /\ UNCHANGED <<server, object, unread, ready, writes, stack, held,
                                 overs, fault>>

\* peername throws: the constructor calls except_error, which deletes the Client
\* before any callback is set; the listen callback goes on to use it.
PeernameFails(c) == /\ PeernameErrors
                    /\ Incoming(c)
                    /\ peer' = [peer EXCEPT ![c] = "gone"]
                    /\ object' = [object EXCEPT ![c] = "deleted"]
                    /\ handle' = [handle EXCEPT ![c] = "closing"]
                    /\ Fail("listen", c)
                    /\ UNCHANGED <<server, unread, ready, writes, stack, held, overs>>

-----------------------------------------------------------------------------
(* Reading *)

Open(c) == handle[c] = "open"

\* A read that completes k more packets (0: part of one), then handle().
Read(c, k) == /\ InLoop
              /\ Open(c)
              /\ k \in 0 .. unread[c]
              /\ unread' = [unread EXCEPT ![c] = @ - k]
              /\ ready' = [ready EXCEPT ![c] = @ + k]
              /\ stack' = Push(stack, [at |-> "decode", client |-> c, count |-> 0])
              /\ UNCHANGED <<server, peer, object, handle, writes, held, overs, fault>>

\* The bytes do not fit recv_buffer_.
ReadOverflow(c) == /\ InLoop
                   /\ Open(c)
                   /\ unread[c] > 0
                   /\ ExceptError(c, stack)
                   /\ UNCHANGED <<server, peer, object, unread, ready, writes, held, fault>>

\* Faulty: only the orderly end of a stream that was read to its end counts.
MutOnDisconnectOrderly(c) ==
  /\ InLoop /\ Open(c) /\ peer[c] = "gone"
  /\ unread[c] = 0
  /\ ExceptError(c, stack)
  /\ UNCHANGED <<server, peer, object, unread, ready, writes, held, fault>>

OnDisconnect(c) == /\ InLoop
                   /\ Open(c)
                   /\ peer[c] = "gone"
                   /\ ExceptError(c, stack)
                   /\ UNCHANGED <<server, peer, object, unread, ready, writes, held, fault>>

\* The decoder has a packet: it is removed from the buffer and processed.  The
\* application learns of the Client here, and keeps the pointer.
DecodePacket == /\ In("decode")
                /\ ready[Top.client] > 0
                /\ ready' = [ready EXCEPT ![Top.client] = @ - 1]
                /\ held' = held \cup {Top.client}
                /\ stack' = Goto("packet", Top.count)
                /\ UNCHANGED <<server, peer, object, handle, unread, writes, overs, fault>>

\* No complete packet is left: handle() and the read callback return.
DecodeEnd == /\ In("decode")
             /\ ready[Top.client] = 0
             /\ stack' = Pop(stack)
             /\ UNCHANGED <<server, peer, object, handle, unread, ready, writes, held,
                            overs, fault>>

\* Faulty: deletes the Client and closes its handle, without except_error.
MutDecodeThrowsDeletes ==
  /\ In("decode") /\ ready[Top.client] = 0
  /\ object' = [object EXCEPT ![Top.client] = "deleted"]
  /\ handle' = [handle EXCEPT ![Top.client] = "closing"]
  /\ stack' = Pop(stack)
  /\ UNCHANGED <<server, peer, unread, ready, writes, held, overs, fault>>

\* Faulty: except_error that does not close the socket.
MutDecodeThrowsNoClose ==
  /\ In("decode") /\ ready[Top.client] = 0
  /\ overs' = [overs EXCEPT ![Top.client] = @ + 1]
  /\ stack' = Push(Pop(stack), OverCall(Top.client))
  /\ UNCHANGED <<server, peer, object, handle, unread, ready, writes, held, fault>>

\* A bad magic: the exception unwinds to the read callback, and except_error.
DecodeThrows == /\ In("decode")
                /\ ready[Top.client] = 0
                /\ ExceptError(Top.client, Pop(stack))
                /\ UNCHANGED <<server, peer, object, unread, ready, writes, held, fault>>

\* Faulty: ++cnt <= 5.
MutPacketReturnOneMore ==
  /\ In("packet")
  /\ IF object[Top.client] = "alive"
     THEN stack' = Goto("decode", Top.count + 1) /\ UNCHANGED fault
     ELSE Fail("decoder", Top.client) /\ UNCHANGED stack
  /\ UNCHANGED <<server, peer, object, handle, unread, ready, writes, held, overs>>

\* The packet callback returns to process() and to the decoder's loop.  When its Client
\* has been deleted meanwhile, so has the closure that is running (packet_processor_): the
\* callback may use what it has captured, and the loop uses the buffer if it goes on.
PacketReturn ==
  /\ In("packet")
  /\ \/ /\ Top.count + 1 = MaxBatch
        /\ stack' = Pop(stack)
        /\ UNCHANGED fault
     \/ /\ object[Top.client] = "deleted"
        /\ Fail("packet callback", Top.client)
        /\ UNCHANGED stack
     \/ /\ Top.count + 1 < MaxBatch
        /\ object[Top.client] = "alive"
        /\ stack' = Goto("decode", Top.count + 1)
        /\ UNCHANGED fault
     \/ /\ Top.count + 1 < MaxBatch
        /\ object[Top.client] = "deleted"
        /\ Fail("decoder", Top.client)
        /\ UNCHANGED stack
  /\ UNCHANGED <<server, peer, object, handle, unread, ready, writes, held, overs>>

-----------------------------------------------------------------------------
(* Writing *)

\* Faulty: send without the is_active guard.
MutSendUnguarded(c, w) ==
  /\ InApplication /\ c \in held /\ Len(writes[c]) < MaxWrites
  /\ writes' = [writes EXCEPT ![c] = Append(@, w)]
  /\ UNCHANGED <<server, peer, object, handle, unread, ready, stack, held, overs, fault>>

\* Client::send, from a callback or from anywhere else in the application: it
\* does nothing unless the handle is active.
Send(c, w) == /\ InApplication
              /\ c \in held
              /\ Open(c)
              /\ Len(writes[c]) < MaxWrites
              /\ writes' = [writes EXCEPT ![c] = Append(@, w)]
              /\ UNCHANGED <<server, peer, object, handle, unread, ready, stack, held,
                             overs, fault>>

\* Faulty: send without the is_active guard, uv_write fails.
MutSendFailsUnguarded(c) ==
  /\ SyncWriteErrors /\ InApplication /\ c \in held
  /\ overs[c] < 3
  /\ ExceptError(c, stack)
  /\ UNCHANGED <<server, peer, object, unread, ready, writes, held, fault>>

\* ... uv_write fails at once.
SendFails(c) == /\ SyncWriteErrors
                /\ InApplication
                /\ c \in held
                /\ Open(c)
                /\ ExceptError(c, stack)
                /\ UNCHANGED <<server, peer, object, unread, ready, writes, held, fault>>

\* The socket takes, or refuses, the oldest write that was queued.
Flush(c) == /\ InLoop
            /\ Open(c)
            /\ \E i \in 1 .. Len(writes[c]), w \in {"flushed", "failed"} :
                 /\ writes[c][i] = "queued"
                 /\ \A j \in 1 .. i - 1 : writes[c][j] # "queued"
                 /\ writes' = [writes EXCEPT ![c][i] = w]
            /\ UNCHANGED <<server, peer, object, handle, unread, ready, stack, held,
                           overs, fault>>

\* The callback of a finished write: it only logs a success, an error is the end
\* of the connection.
WriteDone(c) ==
  /\ InLoop
  /\ Open(c)
  /\ writes[c] # << >>
  /\ writes' = [writes EXCEPT ![c] = Tail(@)]
  /\ \/ Head(writes[c]) = "flushed" /\ UNCHANGED <<handle, stack, overs>>
     \/ Head(writes[c]) = "failed" /\ ExceptError(c, stack)
  /\ UNCHANGED <<server, peer, object, unread, ready, held, fault>>

-----------------------------------------------------------------------------
(* The end of a connection *)

\* The over callback returns to except_error, which deletes the Client.  The
\* application has dropped its pointer.
OverReturn == /\ In("over")
              /\ object' = [object EXCEPT ![Top.client] = "deleted"]
              /\ held' = held \ {Top.client}
              /\ stack' = Pop(stack)
              /\ UNCHANGED <<server, peer, handle, unread, ready, writes, overs, fault>>

\* Faulty: the callback of a write uses the Client even when it succeeded.
MutCloseWriteTouches(c) ==
  /\ InLoop /\ handle[c] = "closing" /\ writes[c] # << >>
  /\ writes' = [writes EXCEPT ![c] = Tail(@)]
  /\ Fail("write callback", c)
  /\ UNCHANGED <<server, peer, object, handle, unread, ready, stack, held, overs>>

\* Closing a handle completes its writes: those still queued are cancelled.  The
\* callback of a cancelled or failed one calls except_error of a deleted Client.
CloseWrite(c) ==
  /\ InLoop
  /\ handle[c] = "closing"
  /\ writes[c] # << >>
  /\ writes' = [writes EXCEPT ![c] = Tail(@)]
  /\ IF Head(writes[c]) = "flushed" THEN UNCHANGED fault ELSE Fail("write callback", c)
  /\ UNCHANGED <<server, peer, object, handle, unread, ready, stack, held, overs>>

\* The close callback frees the handle and its callbacks.
CloseDone(c) == /\ InLoop
                /\ handle[c] = "closing"
                /\ writes[c] = << >>
                /\ handle' = [handle EXCEPT ![c] = "freed"]
                /\ UNCHANGED <<server, peer, object, unread, ready, writes, stack, held,
                               overs, fault>>

-----------------------------------------------------------------------------
Return == DecodePacket \/ DecodeEnd \/ DecodeThrows \/ PacketReturn \/ OverReturn

Next == \/ Start
        \/ Stop
        \/ Return
        \/ \E c \in Clients :
             \/ Connect(c)
             \/ PeerLeaves(c)
             \/ OnConnection(c)
             \/ AcceptFails(c)
             \/ PeernameFails(c)
             \/ \E k \in 0 .. MaxPackets : Read(c, k)
             \/ ReadOverflow(c)
             \/ OnDisconnect(c)
             \/ \E w \in WriteOutcomes : Send(c, w)
             \/ SendFails(c)
             \/ Flush(c)
             \/ WriteDone(c)
             \/ CloseWrite(c)
             \/ CloseDone(c)

Spec == Init /\ [][Next]_vars

\* Callbacks return, and the loop gets round to a disconnect and to a closing
\* handle, however busy the other connections and the application are.
Fairness == /\ WF_vars(Return)
            /\ \A c \in Clients : /\ SF_vars(OnDisconnect(c))
                                  /\ SF_vars(CloseWrite(c) \/ CloseDone(c))

FairSpec == Spec /\ Fairness

-----------------------------------------------------------------------------
(* Properties *)

\* The pointer the packet callback was given stays good until the over callback
\* for it has returned: the application never holds a deleted Client.
HeldAlive == \A c \in held : object[c] = "alive"

\* A Client is deleted after exactly one call of its over callback, however its
\* end is reached: disconnect, bad stream, failed write, inside a callback of its
\* own or of another Client.  (A Client that fails in its constructor has none.)
OverExactlyOnce ==
  \A c \in Clients :
    /\ overs[c] <= 1
    /\ object[c] = "alive" /\ overs[c] = 1 =>
         \E i \in 1 .. Len(stack) : stack[i].at = "over" /\ stack[i].client = c
    /\ object[c] = "deleted" /\ fault # [at |-> "listen", client |-> c] => overs[c] = 1

\* No handle outlives its Client unclosed and no Client outlives its handle: an
\* open handle has a live Client, that of a deleted one is closing or freed, and it is
\* freed after its Client, and after its last write.  Only the handle of a failed accept,
\* which never had a Client, is left for good.
HandleFollowsClient ==
  \A c \in Clients : /\ Open(c) => object[c] = "alive"
                     /\ object[c] = "alive" => handle[c] \in {"open", "closing"}
                     /\ object[c] = "deleted" => handle[c] \in {"closing", "freed"}
                     /\ handle[c] = "freed" => object[c] = "deleted" /\ writes[c] = << >>
                     /\ handle[c] = "leaked" => object[c] = "none"

\* From the moment its over callback is called a Client neither gets a packet
\* callback nor takes a write, even from inside that callback.
SilentAfterOver ==
  [][\A c \in Clients :
       overs[c] > 0 => /\ ready'[c] = ready[c]
                       /\ Len(writes'[c]) <= Len(writes[c])]_vars

\* While writes succeed and peers stay until they are accepted, no deleted Client
\* is used, whatever the order of reads, closes, callbacks and sends.
NeverFaults == fault = NoFault

\* A Client whose peer has gone is deleted and its handle freed.
Released == \A c \in Clients :
              object[c] = "alive" /\ peer[c] = "gone" ~>
                object[c] = "deleted" /\ handle[c] = "freed"
=============================================================================
