---------------------------- MODULE PacketStream ----------------------------
(***************************************************************************)
(* The receive path of one connection of the packet server: the read       *)
(* callback a Client installs, its receive buffer, and the decoder that    *)
(* cuts the buffer into packets.                                           *)
(*                                                                         *)
(* TCP delivers a byte stream, so the stream is not stored: it is the      *)
(* positions 0, 1, 2, ... and every buffer is a window of it.  Frame i of  *)
(* the stream occupies the positions layout[i-1] .. layout[i]-1, its first *)
(* HeaderSize bytes are |LI|body_len|cmd|.  The receive buffer holds       *)
(* consumed .. recvd-1, a packet is the extent <<first position, length>>  *)
(* that was copied out of the buffer.                                      *)
(***************************************************************************)
EXTENDS Integers, Sequences

CONSTANTS NFrames,      \* bound: frames a peer sends over one connection
          HeaderSize,   \* Packet::HEADER_SIZE (6)
          MaxBody,      \* largest body_len a header can carry (65535)
          Capacity,     \* capacity of recv_buffer_ (64*1024)
          PacketCap,    \* capacity of a packet's StaticBuffer (0x10000)
          ReadMax,      \* most bytes one read hands over (64*1024)
          MaxBatch,     \* frames Decoder::handle decodes per read (5)
          Window        \* bound: frames a peer has outstanding at a time

ASSUME SizesAssumption ==
  /\ NFrames \in Nat /\ MaxBody \in Nat
  /\ HeaderSize \in Nat \ {0} /\ Capacity \in Nat \ {0}
  /\ PacketCap \in Nat \ {0} /\ ReadMax \in Nat \ {0}
  /\ MaxBatch \in Nat \ {0} /\ Window \in Nat \ {0}

\* recv_buffer_ is built with 64*1024 bytes, a packet with 0x10000.
ASSUME CapacityAssumption == Capacity <= PacketCap

Total == HeaderSize .. HeaderSize + MaxBody
Position == 0 .. NFrames * (HeaderSize + MaxBody)
Extent == Position \X Total

\* Every way to cut a stream into frames.
Layouts ==
  {f \in [0 .. NFrames -> Position] :
     /\ f[0] = 0
     /\ \A i \in 1 .. NFrames : f[i] - f[i - 1] \in Total}

VARIABLES layout,    \* where the frames of the peer's stream end
          badAt,     \* the frame whose magic is not 'LI', 0 if there is none
          sent,      \* frames the peer has put on the wire
          peer,      \* "up", "closed" (FIN) or "reset" (RST, timeout)
          recvd,     \* bytes the read callback has appended
          consumed,  \* bytes the decoder has removed
          out,       \* packets handed to the packet callback
          pc,        \* "loop": in the event loop, "decode": in handle()
          cnt,       \* frames the current (or last) handle() has decoded
          status     \* "open", or why except_error closed the connection

vars == <<layout, badAt, sent, peer, recvd, consumed, out, pc, cnt, status>>
stream == <<layout, badAt>>

Reasons == {"overflow", "magic", "copy", "eof", "reset"}

-----------------------------------------------------------------------------
\* IBuffer::size and free_size of recv_buffer_.
Buffered == recvd - consumed
Free == Capacity - Buffered

InFlight == layout[sent] - recvd

Frame(i) == <<layout[i - 1], layout[i] - layout[i - 1]>>

\* What BufferReader finds in the first HeaderSize bytes at a position: the
\* header of the frame that starts there, or bytes that can read as any header.
HeaderAt(pos) ==
  IF \E i \in 1 .. NFrames : layout[i - 1] = pos
  THEN {[magic |-> i # badAt, total |-> layout[i] - pos] :
          i \in {j \in 1 .. NFrames : layout[j - 1] = pos}}
  ELSE [magic : BOOLEAN, total : Total]

TypeOK == /\ layout \in Layouts
          /\ badAt \in 0 .. NFrames
          /\ sent \in 0 .. NFrames
          /\ peer \in {"up", "closed", "reset"}
          /\ recvd \in Position
          /\ consumed \in Position
          /\ out \in Seq(Extent)
          /\ pc \in {"loop", "decode"}
          /\ cnt \in 0 .. MaxBatch
          /\ status \in {"open"} \cup Reasons

Init == /\ layout \in Layouts
        /\ badAt \in 0 .. NFrames
        /\ sent = 0
        /\ peer = "up"
        /\ recvd = 0
        /\ consumed = 0
        /\ out = << >>
        /\ pc = "loop"
        /\ cnt = 0
        /\ status = "open"

-----------------------------------------------------------------------------
(* The peer *)

\* The peer puts its next frame on the wire.  A peer that waits for answers
\* has at most Window frames outstanding.
Send == /\ peer = "up"
        /\ sent < NFrames
        /\ sent - Len(out) < Window
        /\ sent' = sent + 1
        /\ UNCHANGED <<stream, peer, recvd, consumed, out, pc, cnt, status>>

PeerLeave == /\ peer = "up"
             /\ peer' \in {"closed", "reset"}
             /\ UNCHANGED <<stream, sent, recvd, consumed, out, pc, cnt, status>>

-----------------------------------------------------------------------------
(* The read callback *)

Idle == pc = "loop" /\ status = "open"

\* except_error(): the socket is closed and the Client deleted.
Fail(reason) == /\ status' = reason
                /\ pc' = "loop"

Readable(n) == n \in 0 .. ReadMax /\ n <= InFlight

\* Faulty: the batch counter outlives the call.
MutReadAppendKeepsCnt(n) ==
  /\ Idle /\ Readable(n) /\ n <= Free
  /\ recvd' = recvd + n
  /\ pc' = IF cnt < MaxBatch THEN "decode" ELSE "loop"
  /\ UNCHANGED <<stream, sent, peer, consumed, out, cnt, status>>

\* A read of n bytes (0: libuv reports EAGAIN) that fits: append, then handle.
ReadAppend(n) == /\ Idle
                 /\ Readable(n)
                 /\ n <= Free
                 /\ recvd' = recvd + n
                 /\ pc' = "decode"
                 /\ cnt' = 0
                 /\ UNCHANGED <<stream, sent, peer, consumed, out, status>>

\* Faulty: refuses the read that fills the buffer exactly.
MutReadOverflowEarly(n) ==
  /\ Idle /\ Readable(n)
  /\ n >= Free
  /\ Fail("overflow")
  /\ UNCHANGED <<stream, sent, peer, recvd, consumed, out, cnt>>

\* Buffer::append throws when the bytes do not fit; they are lost with the
\* connection.
ReadOverflow(n) == /\ Idle
                   /\ Readable(n)
                   /\ n > Free
                   /\ Fail("overflow")
                   /\ UNCHANGED <<stream, sent, peer, recvd, consumed, out, cnt>>

\* nread < 0: UV_EOF after the last byte, or an error at any time.
OnDisconnect == /\ Idle
                /\ \/ peer = "closed" /\ InFlight = 0 /\ Fail("eof")
                   \/ peer = "reset" /\ Fail("reset")
                /\ UNCHANGED <<stream, sent, peer, recvd, consumed, out, cnt>>

-----------------------------------------------------------------------------
(* Decoder::handle, one action per way through an iteration of its loop *)

Decoding == pc = "decode" /\ status = "open"

\* Faulty: size() <= HEADER_SIZE.
MutNeedHeaderLate ==
  /\ Decoding
  /\ Buffered <= HeaderSize
  /\ pc' = "loop"
  /\ UNCHANGED <<stream, sent, peer, recvd, consumed, out, cnt, status>>

NeedHeader == /\ Decoding
              /\ Buffered < HeaderSize
              /\ pc' = "loop"
              /\ UNCHANGED <<stream, sent, peer, recvd, consumed, out, cnt, status>>

BadMagic == /\ Decoding
            /\ Buffered >= HeaderSize
            /\ \E h \in HeaderAt(consumed) : ~h.magic
            /\ Fail("magic")
            /\ UNCHANGED <<stream, sent, peer, recvd, consumed, out, cnt>>

\* Faulty: size() <= total_len.
MutNeedBodyLate ==
  /\ Decoding
  /\ Buffered >= HeaderSize
  /\ \E h \in HeaderAt(consumed) : h.magic /\ Buffered <= h.total
  /\ pc' = "loop"
  /\ UNCHANGED <<stream, sent, peer, recvd, consumed, out, cnt, status>>

NeedBody == /\ Decoding
            /\ Buffered >= HeaderSize
            /\ \E h \in HeaderAt(consumed) : h.magic /\ Buffered < h.total
            /\ pc' = "loop"
            /\ UNCHANGED <<stream, sent, peer, recvd, consumed, out, cnt, status>>

\* Faulty: removes the body and leaves the header.
MutExtractBodyOnly(total) ==
  /\ out' = Append(out, <<consumed, total>>)
  /\ consumed' = consumed + total - HeaderSize
  /\ cnt' = cnt + 1
  /\ pc' = IF cnt' < MaxBatch THEN "decode" ELSE "loop"
  /\ UNCHANGED status

\* Faulty: hands the packet out without removing it.
MutExtractNoRemove(total) ==
  /\ out' = Append(out, <<consumed, total>>)
  /\ cnt' = cnt + 1
  /\ pc' = IF cnt' < MaxBatch THEN "decode" ELSE "loop"
  /\ UNCHANGED <<consumed, status>>

\* Faulty: ++cnt <= 5.
MutExtractOneMore(total) ==
  /\ out' = Append(out, <<consumed, total>>)
  /\ consumed' = consumed + total
  /\ cnt' = cnt + 1
  /\ pc' = IF cnt' <= MaxBatch THEN "decode" ELSE "loop"
  /\ UNCHANGED status

\* packet.copy, buffer->remove, the callback, and the loop condition.
Extract(total) ==
  /\ out' = Append(out, <<consumed, total>>)
  /\ consumed' = consumed + total
  /\ cnt' = cnt + 1
  /\ pc' = IF cnt' < MaxBatch THEN "decode" ELSE "loop"
  /\ UNCHANGED status

\* Faulty: does not wait for the body.
MutDeliverHeaderOnly ==
  /\ Decoding
  /\ Buffered >= HeaderSize
  /\ \E h \in HeaderAt(consumed) :
       /\ h.magic
       /\ IF h.total <= PacketCap
          THEN Extract(h.total)
          ELSE Fail("copy") /\ UNCHANGED <<out, consumed, cnt>>
  /\ UNCHANGED <<stream, sent, peer, recvd>>

Deliver == /\ Decoding
           /\ Buffered >= HeaderSize
           /\ \E h \in HeaderAt(consumed) :
                /\ h.magic
                /\ Buffered >= h.total
                /\ IF h.total <= PacketCap
                   THEN Extract(h.total)
                   ELSE Fail("copy") /\ UNCHANGED <<out, consumed, cnt>>
           /\ UNCHANGED <<stream, sent, peer, recvd>>

-----------------------------------------------------------------------------
Read(n) == ReadAppend(n) \/ ReadOverflow(n)
DecodeStep == NeedHeader \/ BadMagic \/ NeedBody \/ Deliver

Next == \/ Send
        \/ PeerLeave
        \/ \E n \in 0 .. ReadMax : ReadAppend(n)
        \/ \E n \in 0 .. ReadMax : ReadOverflow(n)
        \/ OnDisconnect
        \/ NeedHeader
        \/ BadMagic
        \/ NeedBody
        \/ Deliver

Spec == Init /\ [][Next]_vars

\* handle() runs to its end, and the loop gets round to a socket whose bytes, or
\* whose end, have arrived.  Strong fairness: a read of no bytes may come before
\* (EAGAIN), but not for ever.  Nothing is assumed of the peer.
Fairness == /\ SF_vars(\E n \in 1 .. ReadMax : Read(n))
            /\ SF_vars(OnDisconnect)
            /\ WF_vars(DecodeStep)

FairSpec == Spec /\ Fairness

-----------------------------------------------------------------------------
(* Properties *)

\* The decoder never loses the frame boundaries: however the stream is split
\* into reads, the packets handed out are exactly the first frames the peer
\* sent, whole and in order, and the buffer starts where the next one does.
InOrder == /\ Len(out) <= sent
           /\ \A i \in 1 .. Len(out) : out[i] = Frame(i)
           /\ consumed = layout[Len(out)]

\* ReaderPacket::copy cannot throw: a frame that is complete in the receive
\* buffer fits the packet's buffer, whatever body_len the header carries.
CopyNeverThrows == status # "copy"

\* The server closes a connection for a reason only: the decoder reports a bad
\* magic at the frame that has one and only after every frame before it has
\* been handed out; the buffer overflows only when the frames outstanding do
\* not fit it; and an orderly end comes after every byte was taken in.
ClosedForCause ==
  /\ status = "magic" => Len(out) + 1 = badAt
  /\ status = "overflow" => layout[sent] - consumed > Capacity
  /\ status = "eof" => recvd = layout[sent]

FrameReady == \E i \in 1 .. NFrames : layout[i - 1] = consumed /\ layout[i] <= recvd

\* A complete frame is left in the buffer, waiting for bytes that need not
\* come, only when handle() stopped because it had decoded MaxBatch frames.
StallOnlyAfterFullBatch == Idle /\ FrameReady => cnt = MaxBatch

\* With at most MaxBatch frames outstanding the batch limit is never felt:
\* when the loop is idle, no complete frame waits in the buffer.
NoStall == Idle => ~FrameReady

\* With at most MaxBatch frames outstanding an orderly end loses nothing: every
\* frame the peer sent before it closed has been handed out.
NothingLostAtEof == status = "eof" => Len(out) = sent

\* A peer whose outstanding frames always fit the receive buffer is never dropped
\* for an overflow, however its frames are cut into reads.
WindowFits == \A i, j \in 0 .. NFrames :
                 i <= j /\ j - i <= Window => layout[j] - layout[i] <= Capacity
NoDrop == WindowFits => status # "overflow"

-----------------------------------------------------------------------------
\* The receive path implements the packet channel.
Channel == INSTANCE PacketChannel WITH
             Msg <- Extent,
             sent <- [i \in 1 .. sent |-> Frame(i)],
             out <- out,
             open <- status = "open"

\* Packets are delivered once each, in order, and never after the close.
ImplementsChannel == Channel!Spec

\* With at most MaxBatch frames outstanding, each frame sent is delivered
\* unless the connection is closed.
ImplementsFairChannel == Channel!FairSpec
=============================================================================
