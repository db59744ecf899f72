------------------------- MODULE PacketStreamProofs -------------------------
(***************************************************************************)
(* Proofs about PacketStream for every number of frames, every size of     *)
(* header, body, buffer, read and batch, and every way to cut the stream.  *)
(***************************************************************************)
EXTENDS PacketStream, WellFoundedInduction, TLAPS

\* What the safety properties rest on.  The decoder stands at a frame boundary,
\* the buffer holds part of what was sent and no more than its capacity, and a
\* closed connection decodes nothing.
Bounds == /\ consumed <= recvd
          /\ recvd <= layout[sent]
          /\ recvd - consumed <= Capacity
          /\ pc = "decode" => (status = "open" /\ cnt < MaxBatch)
          /\ status = "eof" => peer = "closed"

IInv == /\ TypeOK
        /\ InOrder
        /\ Bounds
        /\ CopyNeverThrows
        /\ ClosedForCause

-----------------------------------------------------------------------------
(* The frames of a stream *)

\* A set of natural numbers with something in it has a smallest.
LEMMA Smallest ==
  ASSUME NEW T, T \subseteq Nat, T # {}
  PROVE  \E n \in T : \A m \in T : n <= m
<1>1. IsWellFoundedOn(OpToRel(<, Nat), Nat)
  BY NatLessThanWellFounded, Zenon
<1>2. PICK n \in T : \A m \in T : ~ (<<m, n>> \in OpToRel(<, Nat))
  BY <1>1, WFMin, Zenon
<1>3. \A m \in T : ~ (m < n)
  BY <1>2 DEF OpToRel
<1> QED  BY <1>3, SMT

\* Induction over a set, which says of a number what an operator would.
LEMMA SetInduction ==
  ASSUME NEW T, 0 \in T, \A n \in Nat : n \in T => n + 1 \in T
  PROVE  \A n \in Nat : n \in T
<1> SUFFICES ASSUME Nat \ T # {} PROVE FALSE
  OBVIOUS
<1>1. PICK n \in Nat \ T : \A m \in Nat \ T : n <= m
  BY Smallest, Zenon
<1>2. n # 0 /\ n - 1 \in Nat
  BY <1>1, SMT
<1>3. n - 1 \in T
  BY <1>1, <1>2, SMT
<1>4. (n - 1) + 1 \in T
  BY <1>2, <1>3, Zenon
<1> QED  BY <1>4, <1>1, SMT

\* Every frame has a header, so each ends behind all that are before it.
LEMMA FramesIncrease ==
  ASSUME NEW f \in Layouts
  PROVE  \A i, j \in 0 .. NFrames : i < j => f[i] < f[j]
<1> USE SizesAssumption
<1> DEFINE T == {n \in Nat : \A i, j \in 0 .. NFrames : i < j /\ j <= n => f[i] < f[j]}
<1>1. \A i \in 0 .. NFrames : f[i] \in Int
  BY DEF Layouts, Position
<1>2. \A i \in 0 .. NFrames : i + 1 \in 0 .. NFrames => f[i] < f[i + 1]
  <2> SUFFICES ASSUME NEW i \in 0 .. NFrames, i + 1 \in 0 .. NFrames PROVE f[i] < f[i + 1]
    OBVIOUS
  <2>1. i + 1 \in 1 .. NFrames /\ (i + 1) - 1 = i
    OBVIOUS
  <2>2. f[i + 1] - f[i] \in Total
    BY <2>1 DEF Layouts
  <2> QED  BY <1>1, <2>2 DEF Total
<1>3. 0 \in T
  OBVIOUS
<1>4. ASSUME NEW n \in Nat, n \in T
      PROVE  n + 1 \in T
  <2> SUFFICES ASSUME NEW i \in 0 .. NFrames, NEW j \in 0 .. NFrames, i < j, j <= n + 1
               PROVE  f[i] < f[j]
    OBVIOUS
  <2>1. CASE j <= n
    BY <1>4, <2>1
  <2>2. CASE j = n + 1
    <3>1. n \in 0 .. NFrames /\ f[n] < f[n + 1]
      BY <1>2, <2>2
    <3>2. CASE i = n
      BY <2>2, <3>1, <3>2
    <3>3. CASE i < n
      <4>1. f[i] < f[n]
        BY <1>4, <3>1, <3>3
      <4> QED  BY <1>1, <2>2, <3>1, <4>1
    <3> QED  BY <2>2, <3>2, <3>3
  <2> QED  BY <2>1, <2>2
<1> HIDE DEF T
<1>5. NFrames \in T
  BY <1>3, <1>4, SetInduction, Zenon
<1> QED  BY <1>5 DEF T

-----------------------------------------------------------------------------
\* With a whole header in the buffer, the decoder reads the header of the next
\* frame, and that frame has been sent: BufferReader never reads garbage.
LEMMA HeaderHere ==
  ASSUME TypeOK, InOrder, Bounds, Buffered >= HeaderSize
  PROVE  /\ Len(out) < sent
         /\ HeaderAt(consumed) =
              {[magic |-> Len(out) + 1 # badAt,
                total |-> layout[Len(out) + 1] - layout[Len(out)]]}
         /\ layout[Len(out) + 1] - layout[Len(out)] \in Total
<1> USE SizesAssumption
<1> DEFINE k == Len(out)
<1>1. /\ k \in Nat /\ sent \in 0 .. NFrames /\ k <= sent
      /\ recvd \in Int /\ consumed \in Int
      /\ consumed = layout[k] /\ consumed < recvd /\ recvd <= layout[sent]
      /\ layout \in [0 .. NFrames -> Position]
  <2>1. layout \in [0 .. NFrames -> Position]
    BY DEF TypeOK, Layouts
  <2>2. recvd \in Int /\ consumed \in Int /\ k \in Nat /\ sent \in 0 .. NFrames
    BY DEF TypeOK, Position
  <2> QED  BY <2>1, <2>2 DEF InOrder, Bounds, Buffered
<1>2. k < sent
  <2>1. k # sent
    BY <1>1
  <2> QED  BY <1>1, <2>1
<1>3. \A i, j \in 0 .. NFrames : i < j => layout[i] < layout[j]
  BY FramesIncrease DEF TypeOK
<1>4. \A i \in 0 .. NFrames : layout[i] \in Int
  BY <1>1 DEF Position
<1>5. ASSUME NEW i \in 1 .. NFrames
      PROVE  layout[i - 1] = consumed <=> i = k + 1
  <2>1. i - 1 \in 0 .. NFrames /\ k \in 0 .. NFrames
    BY <1>1
  <2>2. CASE i - 1 < k
    <3>1. layout[i - 1] < layout[k] /\ layout[i - 1] \in Int /\ layout[k] \in Int
      BY <1>3, <1>4, <2>1, <2>2
    <3> QED  BY <1>1, <2>1, <2>2, <3>1
  <2>3. CASE i - 1 > k
    <3>1. layout[k] < layout[i - 1] /\ layout[i - 1] \in Int /\ layout[k] \in Int
      BY <1>3, <1>4, <2>1, <2>3
    <3> QED  BY <1>1, <2>1, <2>3, <3>1
  <2>4. CASE i - 1 = k
    BY <1>1, <2>1, <2>4
  <2> QED  BY <2>1, <2>2, <2>3, <2>4
<1>6. k + 1 \in 1 .. NFrames
  BY <1>1, <1>2
<1>7. {j \in 1 .. NFrames : layout[j - 1] = consumed} = {k + 1}
  BY <1>5, <1>6
<1>8. \E i \in 1 .. NFrames : layout[i - 1] = consumed
  BY <1>5, <1>6
<1>9. HeaderAt(consumed) = {[magic |-> i # badAt, total |-> layout[i] - consumed] :
                              i \in {k + 1}}
  BY <1>7, <1>8 DEF HeaderAt
<1>10. layout[k + 1] - layout[k] \in Total
  <2>1. \A i \in 1 .. NFrames : layout[i] - layout[i - 1] \in Total
    BY DEF TypeOK, Layouts
  <2> QED  BY <1>1, <1>6, <2>1
<1> QED  BY <1>1, <1>2, <1>9, <1>10

LEMMA InitIInv == Init => IInv
<1> SUFFICES ASSUME Init PROVE IInv
  OBVIOUS
<1> USE SizesAssumption DEF Init
<1>1. layout[0] = 0 /\ 0 \in Position
  BY DEF Layouts, Position
<1>2. TypeOK
  BY <1>1 DEF TypeOK
<1>3. InOrder
  BY <1>1 DEF InOrder
<1>4. Bounds
  BY <1>1 DEF Bounds
<1> QED  BY <1>2, <1>3, <1>4 DEF IInv, CopyNeverThrows, ClosedForCause

-----------------------------------------------------------------------------
\* Positions are numbers and frames end one after the other.
LEMMA StreamFacts ==
  ASSUME TypeOK
  PROVE  /\ layout \in [0 .. NFrames -> Int]
         /\ sent \in 0 .. NFrames /\ recvd \in Int /\ consumed \in Int
         /\ Len(out) \in Nat /\ cnt \in 0 .. MaxBatch
         /\ \A i, j \in 0 .. NFrames : i <= j => layout[i] <= layout[j]
<1> USE SizesAssumption
<1>1. layout \in [0 .. NFrames -> Int]
  BY DEF TypeOK, Layouts, Position
<1>2. recvd \in Int /\ consumed \in Int /\ sent \in 0 .. NFrames
      /\ Len(out) \in Nat /\ cnt \in 0 .. MaxBatch
  BY DEF TypeOK, Position
<1>3. \A i, j \in 0 .. NFrames : i < j => layout[i] < layout[j]
  BY FramesIncrease DEF TypeOK
<1>4. \A i, j \in 0 .. NFrames : i <= j => layout[i] <= layout[j]
  BY <1>1, <1>3
<1> QED  BY <1>1, <1>2, <1>4

\* Everything up to the end of what was sent is a position of the stream.
LEMMA PositionBelow ==
  ASSUME TypeOK, NEW p \in Nat, p <= layout[sent]
  PROVE  p \in Position
<1> USE SizesAssumption
<1>1. layout[sent] \in Position
  BY DEF TypeOK, Layouts
<1> QED  BY <1>1 DEF Position

-----------------------------------------------------------------------------
LEMMA SendIInv == IInv /\ Send => IInv'
<1> SUFFICES ASSUME IInv, Send PROVE IInv'
  OBVIOUS
<1> USE SizesAssumption
<1>1. TypeOK'
  BY DEF IInv, TypeOK, Send, stream
<1>2. layout[sent] <= layout[sent'] /\ layout[sent] \in Int /\ layout[sent'] \in Int
  BY StreamFacts DEF IInv, Send
<1>3. InOrder'
  <2>1. UNCHANGED <<layout, badAt, consumed, out>> /\ sent' = sent + 1
    BY DEF Send, stream
  <2>2. Len(out) <= sent /\ Len(out) \in Int /\ sent \in Int
    BY StreamFacts DEF IInv, InOrder
  <2>3. Len(out') <= sent'
    BY <2>1, <2>2
  <2> QED  BY <2>1, <2>3 DEF IInv, InOrder, Frame
<1>4. Bounds'
  <2>1. /\ layout' = layout /\ sent' = sent + 1
        /\ peer' = peer /\ recvd' = recvd /\ consumed' = consumed
        /\ out' = out /\ pc' = pc /\ cnt' = cnt /\ status' = status
    BY DEF Send, stream
  <2>2. recvd <= layout[sent] /\ recvd \in Int
    BY StreamFacts DEF IInv, Bounds
  <2>3. recvd' <= layout'[sent']
    BY <1>2, <2>1, <2>2
  <2> QED  BY <2>1, <2>3 DEF IInv, Bounds
<1>5. CopyNeverThrows' /\ ClosedForCause'
  <2>1. UNCHANGED <<layout, badAt, recvd, consumed, out, status>> /\ status # "eof"
    BY DEF IInv, Bounds, Send, stream
  <2>2. layout[sent] - consumed > Capacity => layout[sent'] - consumed > Capacity
    BY <1>2, StreamFacts DEF IInv
  <2> QED  BY <2>1, <2>2 DEF IInv, CopyNeverThrows, ClosedForCause
<1> QED  BY <1>1, <1>3, <1>4, <1>5 DEF IInv

LEMMA PeerLeaveIInv == IInv /\ PeerLeave => IInv'
<1> SUFFICES ASSUME IInv, PeerLeave PROVE IInv'
  OBVIOUS
<1>1. TypeOK'
  BY DEF IInv, TypeOK, PeerLeave, stream
<1>2. InOrder' /\ Bounds'
  BY DEF IInv, InOrder, Frame, Bounds, PeerLeave, stream
<1>3. CopyNeverThrows' /\ ClosedForCause'
  BY DEF IInv, CopyNeverThrows, ClosedForCause, PeerLeave, stream
<1> QED  BY <1>1, <1>2, <1>3 DEF IInv

LEMMA ReadAppendIInv ==
  ASSUME IInv, NEW n \in 0 .. ReadMax, ReadAppend(n)
  PROVE  IInv'
<1> USE SizesAssumption
<1>1. /\ recvd' = recvd + n /\ recvd' <= layout[sent]
      /\ recvd' - consumed <= Capacity
      /\ recvd' \in Int /\ recvd <= recvd'
  <2>1. recvd' = recvd + n /\ n <= layout[sent] - recvd /\ n <= Capacity - (recvd - consumed)
    BY DEF ReadAppend, Readable, InFlight, Free, Buffered
  <2>2. recvd \in Int /\ consumed \in Int /\ layout[sent] \in Int /\ Capacity \in Int
    BY StreamFacts DEF IInv
  <2>3. n \in Nat
    OBVIOUS
  <2> QED  BY <2>1, <2>2, <2>3
<1>2. recvd' \in Position
  BY <1>1, PositionBelow DEF IInv, TypeOK, Position
<1>3. TypeOK'
  BY <1>2 DEF IInv, TypeOK, ReadAppend, stream
<1>4. InOrder'
  BY DEF IInv, InOrder, Frame, ReadAppend, stream
<1>5. Bounds'
  BY <1>1, StreamFacts DEF IInv, Bounds, ReadAppend, Idle, stream
<1>6. CopyNeverThrows' /\ ClosedForCause'
  BY DEF IInv, CopyNeverThrows, ClosedForCause, ReadAppend, Idle, stream
<1> QED  BY <1>3, <1>4, <1>5, <1>6 DEF IInv

LEMMA ReadOverflowIInv ==
  ASSUME IInv, NEW n \in 0 .. ReadMax, ReadOverflow(n)
  PROVE  IInv'
<1>1. TypeOK'
  BY DEF IInv, TypeOK, ReadOverflow, Fail, Reasons, stream
<1>2. InOrder' /\ Bounds'
  BY DEF IInv, InOrder, Frame, Bounds, ReadOverflow, Fail, stream
<1>3. layout[sent] - consumed > Capacity
  <2>1. n > Capacity - (recvd - consumed) /\ n <= layout[sent] - recvd
    BY DEF ReadOverflow, Readable, InFlight, Free, Buffered
  <2>2. recvd \in Int /\ consumed \in Int /\ layout[sent] \in Int /\ Capacity \in Int
    BY SizesAssumption, StreamFacts DEF IInv
  <2>3. n \in Int
    OBVIOUS
  <2> QED  BY <2>1, <2>2, <2>3
<1>4. CopyNeverThrows' /\ ClosedForCause'
  BY <1>3 DEF CopyNeverThrows, ClosedForCause, ReadOverflow, Fail, stream
<1> QED  BY <1>1, <1>2, <1>4 DEF IInv

LEMMA OnDisconnectIInv == IInv /\ OnDisconnect => IInv'
<1> SUFFICES ASSUME IInv, OnDisconnect PROVE IInv'
  OBVIOUS
<1>1. TypeOK'
  BY DEF IInv, TypeOK, OnDisconnect, Fail, Reasons, stream
<1>2. InOrder' /\ Bounds'
  BY DEF IInv, InOrder, Frame, Bounds, OnDisconnect, Fail, stream
<1>3. status' = "eof" => recvd = layout[sent]
  BY StreamFacts DEF IInv, OnDisconnect, Fail, InFlight
<1>4. CopyNeverThrows' /\ ClosedForCause'
  BY <1>3 DEF CopyNeverThrows, ClosedForCause, OnDisconnect, Fail, stream
<1> QED  BY <1>1, <1>2, <1>4 DEF IInv

\* The two ways handle() waits for more bytes.
LEMMA NeedMoreIInv == IInv /\ (NeedHeader \/ NeedBody) => IInv'
<1> SUFFICES ASSUME IInv, NeedHeader \/ NeedBody PROVE IInv'
  OBVIOUS
<1>1. TypeOK'
  BY DEF IInv, TypeOK, NeedHeader, NeedBody, stream
<1>2. InOrder' /\ Bounds'
  BY DEF IInv, InOrder, Frame, Bounds, NeedHeader, NeedBody, stream
<1>3. CopyNeverThrows' /\ ClosedForCause'
  BY DEF IInv, CopyNeverThrows, ClosedForCause, NeedHeader, NeedBody, stream
<1> QED  BY <1>1, <1>2, <1>3 DEF IInv

LEMMA BadMagicIInv == IInv /\ BadMagic => IInv'
<1> SUFFICES ASSUME IInv, BadMagic PROVE IInv'
  OBVIOUS
<1>1. TypeOK'
  BY DEF IInv, TypeOK, BadMagic, Fail, Reasons, stream
<1>2. InOrder' /\ Bounds'
  BY DEF IInv, InOrder, Frame, Bounds, BadMagic, Fail, stream
<1>3. Len(out) + 1 = badAt
  <2>1. PICK h \in HeaderAt(consumed) : ~h.magic
    BY DEF BadMagic
  <2>2. h = [magic |-> Len(out) + 1 # badAt,
             total |-> layout[Len(out) + 1] - layout[Len(out)]]
    BY <2>1, HeaderHere DEF IInv, BadMagic
  <2>3. h.magic = (Len(out) + 1 # badAt)
    BY <2>2, Zenon
  <2> QED  BY <2>1, <2>3
<1>4. CopyNeverThrows' /\ ClosedForCause'
  BY <1>3 DEF CopyNeverThrows, ClosedForCause, BadMagic, Fail, stream
<1> QED  BY <1>1, <1>2, <1>4 DEF IInv

\* A delivered packet is the next frame, and copy does not throw.
LEMMA DeliverIsNextFrame ==
  ASSUME IInv, Deliver
  PROVE  /\ Len(out) < sent
         /\ out' = Append(out, Frame(Len(out) + 1))
         /\ consumed' = layout[Len(out) + 1]
         /\ consumed' <= recvd
         /\ Extract(consumed' - consumed)
         /\ consumed' - consumed \in Total
<1> USE SizesAssumption
<1> DEFINE k == Len(out)
           total == layout[k + 1] - layout[k]
<1>1. /\ k < sent /\ total \in Total
      /\ HeaderAt(consumed) = {[magic |-> k + 1 # badAt, total |-> total]}
  BY HeaderHere DEF IInv, Deliver
<1>2. /\ Buffered >= total
      /\ IF total <= PacketCap
         THEN Extract(total)
         ELSE Fail("copy") /\ UNCHANGED <<out, consumed, cnt>>
  BY <1>1 DEF Deliver
<1>3. layout[k] \in Int /\ layout[k + 1] \in Int /\ consumed = layout[k]
  BY <1>1, StreamFacts DEF IInv, InOrder
<1>4. total <= PacketCap
  <2>1. recvd \in Int /\ consumed \in Int /\ Capacity \in Int /\ PacketCap \in Int
    BY StreamFacts, SizesAssumption DEF IInv
  <2>2. recvd - consumed <= Capacity
    BY DEF IInv, Bounds, Buffered
  <2>3. recvd - consumed >= total
    BY <1>2 DEF Buffered
  <2>4. total \in Int
    BY <1>3
  <2> QED  BY <2>1, <2>2, <2>3, <2>4, CapacityAssumption
<1>5. Extract(total)
  BY <1>2, <1>4
<1>6. consumed' = layout[k + 1] /\ consumed' - consumed = total
  BY <1>3, <1>5 DEF Extract
<1>7. out' = Append(out, Frame(k + 1))
  <2>1. out' = Append(out, <<consumed, total>>)
    BY <1>5 DEF Extract
  <2>2. (k + 1) - 1 = k
    BY <1>1
  <2>3. Frame(k + 1) = <<layout[k], total>>
    BY <2>2 DEF Frame
  <2> QED  BY <1>3, <2>1, <2>3
<1>8. consumed' <= recvd
  BY <1>2, <1>3, <1>6, StreamFacts DEF IInv, Buffered
<1> QED  BY <1>1, <1>5, <1>6, <1>7, <1>8

LEMMA DeliverIInv == IInv /\ Deliver => IInv'
<1> SUFFICES ASSUME IInv, Deliver PROVE IInv'
  OBVIOUS
<1> USE SizesAssumption
<1> DEFINE k == Len(out)
<1>1. /\ k < sent /\ k \in Nat /\ sent \in 0 .. NFrames
      /\ out' = Append(out, Frame(k + 1)) /\ out \in Seq(Extent)
      /\ consumed' = layout[k + 1] /\ consumed' <= recvd
      /\ layout \in [0 .. NFrames -> Position]
  BY DeliverIsNextFrame, StreamFacts DEF IInv, TypeOK, Layouts
<1>2. /\ UNCHANGED <<layout, badAt, sent, peer, recvd, status>>
      /\ cnt' = cnt + 1
      /\ pc' = IF cnt' < MaxBatch THEN "decode" ELSE "loop"
  BY DeliverIsNextFrame DEF Deliver, Extract, stream
<1>3. status = "open" /\ cnt < MaxBatch
  BY DEF IInv, Bounds, Deliver, Decoding
<1>4. Frame(k + 1) \in Extent
  <2>1. k + 1 \in 1 .. NFrames /\ k \in 0 .. NFrames
    BY <1>1
  <2>2. layout[k] \in Position /\ layout[k + 1] - layout[k] \in Total
    BY <2>1, <1>1 DEF IInv, TypeOK, Layouts
  <2> QED  BY <1>1, <2>1, <2>2 DEF Frame, Extent
<1>5. TypeOK'
  <2>1. out' \in Seq(Extent)
    BY <1>1, <1>4
  <2>2. consumed' \in Position
    BY <1>1
  <2>3. cnt' \in 0 .. MaxBatch
    BY <1>2, <1>3, StreamFacts DEF IInv
  <2> QED  BY <2>1, <2>2, <2>3, <1>2 DEF IInv, TypeOK
<1>6. InOrder'
  <2>1. Len(out') = k + 1
    BY <1>1
  <2>2. \A i \in 1 .. k + 1 : out'[i] = Frame(i)
    BY <1>1 DEF IInv, InOrder
  <2> QED  BY <1>1, <1>2, <2>1, <2>2 DEF InOrder, Frame
<1>7. Bounds'
  <2>1. consumed' \in Int /\ recvd \in Int /\ consumed \in Int /\ cnt \in Int
    BY <1>1, StreamFacts DEF IInv, Position
  <2>2. consumed <= consumed'
    BY <1>1, StreamFacts DEF IInv, InOrder
  <2> QED  BY <1>1, <1>2, <1>3, <2>1, <2>2 DEF IInv, Bounds
<1>8. CopyNeverThrows' /\ ClosedForCause'
  BY <1>2, <1>3 DEF IInv, CopyNeverThrows, ClosedForCause
<1> QED  BY <1>5, <1>6, <1>7, <1>8 DEF IInv

LEMMA NextIInv == IInv /\ [Next]_vars => IInv'
<1> SUFFICES ASSUME IInv, [Next]_vars PROVE IInv'
  OBVIOUS
<1>1. CASE UNCHANGED vars
  BY <1>1 DEF vars, IInv, TypeOK, InOrder, Frame, Bounds, CopyNeverThrows, ClosedForCause
<1>2. CASE Next
  BY <1>2, SendIInv, PeerLeaveIInv, ReadAppendIInv, ReadOverflowIInv, OnDisconnectIInv,
     NeedMoreIInv, BadMagicIInv, DeliverIInv DEF Next
<1> QED  BY <1>1, <1>2

-----------------------------------------------------------------------------
THEOREM Invariance == Spec => []IInv
<1>1. Init => IInv
  BY InitIInv
<1>2. IInv /\ [Next]_vars => IInv'
  BY NextIInv
<1> QED  BY <1>1, <1>2, PTL DEF Spec

\* Type correctness of the receive path.
THEOREM TypeCorrect == Spec => []TypeOK
BY Invariance, PTL DEF IInv

\* The packets handed to the application are the frames the peer sent, whole and
\* in order, for every way TCP can cut the stream into reads.
THEOREM DecoderKeepsFrames == Spec => []InOrder
BY Invariance, PTL DEF IInv

\* Copying a complete frame into a packet never throws, whatever the sizes, as
\* long as the receive buffer is no larger than a packet.
THEOREM CopyIsSafe == Spec => []CopyNeverThrows
BY Invariance, PTL DEF IInv

\* Every close by the server has its cause in the stream.
THEOREM ClosesForCause == Spec => []ClosedForCause
BY Invariance, PTL DEF IInv

-----------------------------------------------------------------------------
(* What waits in the buffer *)

\* A frame is ready exactly when the next frame's last byte has been appended.
LEMMA ReadyIsNext ==
  ASSUME IInv
  PROVE  FrameReady <=> Len(out) < NFrames /\ layout[Len(out) + 1] <= recvd
<1> DEFINE k == Len(out)
<1>1. /\ k \in Nat /\ k \in 0 .. NFrames /\ consumed = layout[k]
      /\ layout \in [0 .. NFrames -> Int]
  BY StreamFacts, SizesAssumption DEF IInv, InOrder
<1>2. \A i, j \in 0 .. NFrames : i < j => layout[i] < layout[j]
  BY FramesIncrease DEF IInv, TypeOK
<1>3. ASSUME NEW i \in 1 .. NFrames
      PROVE  layout[i - 1] = consumed <=> i = k + 1
  <2>1. i - 1 \in 0 .. NFrames
    BY SizesAssumption
  <2> QED  BY <1>1, <1>2, <2>1
<1>4. k < NFrames <=> k + 1 \in 1 .. NFrames
  BY <1>1, SizesAssumption
<1> QED  BY <1>3, <1>4 DEF FrameReady

\* Waiting for a header or a body means that no frame is ready.
LEMMA NeedMoreMeansNotReady ==
  ASSUME IInv, NeedHeader \/ NeedBody
  PROVE  ~FrameReady
<1> DEFINE k == Len(out)
<1>1. SUFFICES ASSUME k < NFrames, layout[k + 1] <= recvd PROVE FALSE
  BY ReadyIsNext
<1>2. /\ consumed = layout[k] /\ layout[k] \in Int /\ layout[k + 1] \in Int
      /\ layout[k + 1] - layout[k] \in Total
  <2>1. k + 1 \in 1 .. NFrames /\ k \in 0 .. NFrames /\ k = (k + 1) - 1
    BY <1>1, StreamFacts, SizesAssumption DEF IInv
  <2> QED  BY <2>1, StreamFacts DEF IInv, InOrder, TypeOK, Layouts
<1>3. CASE NeedHeader
  <2>1. recvd \in Int /\ consumed \in Int /\ layout[k + 1] - layout[k] >= HeaderSize
    BY <1>2, StreamFacts, SizesAssumption DEF IInv, Total
  <2>2. recvd - consumed < HeaderSize
    BY <1>3 DEF NeedHeader, Buffered
  <2> QED  BY <1>1, <1>2, <2>1, <2>2, SizesAssumption
<1>4. CASE NeedBody
  <2>1. PICK h \in HeaderAt(consumed) : h.magic /\ Buffered < h.total
    BY <1>4 DEF NeedBody
  <2>2. h.total = layout[k + 1] - layout[k]
    BY <1>4, <2>1, HeaderHere DEF IInv, NeedBody
  <2> QED  BY <1>1, <1>2, <2>1, <2>2, StreamFacts DEF IInv, Buffered
<1> QED  BY <1>3, <1>4

LEMMA InitNotReady == Init => ~FrameReady
<1> SUFFICES ASSUME Init PROVE ~FrameReady
  OBVIOUS
<1>1. SUFFICES ASSUME NEW i \in 1 .. NFrames, layout[i - 1] = consumed, layout[i] <= recvd
               PROVE  FALSE
  BY DEF FrameReady
<1>2. i - 1 \in 0 .. NFrames /\ i \in 0 .. NFrames /\ i - 1 < i
  BY SizesAssumption
<1>3. layout[i - 1] < layout[i]
  BY <1>2, FramesIncrease DEF Init
<1>4. layout[i - 1] \in Int /\ layout[i] \in Int
  BY <1>2 DEF Init, Layouts, Position
<1> QED  BY <1>1, <1>3, <1>4 DEF Init

\* Steps of the peer and steps that close the connection leave the window alone,
\* and a close leaves the loop with nothing to be idle about.
LEMMA ReadyOnlyByRead ==
  ASSUME UNCHANGED <<layout, recvd, consumed>>
  PROVE  FrameReady' <=> FrameReady
BY DEF FrameReady

LEMMA StallStep ==
  IInv /\ StallOnlyAfterFullBatch /\ [Next]_vars => StallOnlyAfterFullBatch'
<1> SUFFICES ASSUME IInv, StallOnlyAfterFullBatch, [Next]_vars, Idle', FrameReady'
             PROVE  cnt' = MaxBatch
  BY DEF StallOnlyAfterFullBatch
<1>1. CASE Send \/ PeerLeave \/ UNCHANGED vars
  BY <1>1, ReadyOnlyByRead
  DEF StallOnlyAfterFullBatch, Send, PeerLeave, vars, stream, Idle
<1>2. CASE (\E n \in 0 .. ReadMax : ReadAppend(n) \/ ReadOverflow(n))
           \/ OnDisconnect \/ BadMagic
  BY <1>2 DEF ReadAppend, ReadOverflow, OnDisconnect, BadMagic, Fail, Idle
<1>3. CASE NeedHeader \/ NeedBody
  BY <1>3, NeedMoreMeansNotReady, ReadyOnlyByRead DEF NeedHeader, NeedBody, stream
<1>4. CASE Deliver
  <2>1. Extract(consumed' - consumed) /\ cnt < MaxBatch /\ cnt \in Int
    BY <1>4, DeliverIsNextFrame, StreamFacts DEF IInv, Bounds, Deliver, Decoding
  <2> QED  BY <2>1, SizesAssumption DEF Extract, Idle
<1> QED  BY <1>1, <1>2, <1>3, <1>4 DEF Next

\* A complete frame waits in the buffer of an idle connection only behind a full
\* batch.
THEOREM StallIsBatchLimit == Spec => []StallOnlyAfterFullBatch
<1>1. Init => StallOnlyAfterFullBatch
  BY InitNotReady DEF StallOnlyAfterFullBatch
<1> QED  BY <1>1, StallStep, Invariance, PTL DEF Spec
-----------------------------------------------------------------------------
(* A peer that keeps at most MaxBatch frames outstanding *)

Outstanding == sent - Len(out) <= Window

\* While handle() runs, the buffer holds no more frames than it may still decode.
BatchCovers ==
  pc = "decode" => \E m \in 0 .. NFrames :
                      m <= Len(out) + MaxBatch - cnt /\ recvd <= layout[m]

LEMMA OutstandingStep == IInv /\ Outstanding /\ [Next]_vars => Outstanding'
<1> SUFFICES ASSUME IInv, Outstanding, [Next]_vars PROVE Outstanding'
  OBVIOUS
<1> USE SizesAssumption
<1>1. CASE Send
  BY <1>1, StreamFacts DEF IInv, Outstanding, Send
<1>2. CASE Deliver
  <2>1. Len(out') = Len(out) + 1 /\ sent' = sent
    BY <1>2, DeliverIsNextFrame DEF IInv, TypeOK, Deliver
  <2> QED  BY <2>1, StreamFacts DEF IInv, Outstanding
<1>3. CASE UNCHANGED <<sent, out>>
  BY <1>3 DEF Outstanding
<1> QED  BY <1>1, <1>2, <1>3 DEF Next, vars, PeerLeave, ReadAppend, ReadOverflow,
         OnDisconnect, NeedHeader, BadMagic, NeedBody

THEOREM WindowKept == Spec => []Outstanding
<1>1. Init => Outstanding
  BY SizesAssumption DEF Init, Outstanding
<1> QED  BY <1>1, OutstandingStep, Invariance, PTL DEF Spec

LEMMA BatchStep ==
  ASSUME Window <= MaxBatch
  PROVE  IInv /\ Outstanding /\ BatchCovers /\ [Next]_vars => BatchCovers'
<1> SUFFICES ASSUME IInv, Outstanding, BatchCovers, [Next]_vars, pc' = "decode"
             PROVE  \E m \in 0 .. NFrames :
                       m <= Len(out') + MaxBatch - cnt' /\ recvd' <= layout'[m]
  BY DEF BatchCovers
<1> USE SizesAssumption
<1>1. CASE Send \/ PeerLeave \/ UNCHANGED vars
  BY <1>1 DEF BatchCovers, Send, PeerLeave, vars, stream
<1>2. ASSUME NEW n \in 0 .. ReadMax, ReadAppend(n)
      PROVE  \E m \in 0 .. NFrames :
                m <= Len(out') + MaxBatch - cnt' /\ recvd' <= layout'[m]
  <2>1. sent \in 0 .. NFrames /\ recvd' <= layout'[sent]
    BY <1>2, StreamFacts DEF IInv, ReadAppend, Readable, InFlight, stream
  <2>2. sent <= Len(out') + MaxBatch - cnt'
    BY <1>2, StreamFacts DEF IInv, Outstanding, ReadAppend
  <2> QED  BY <2>1, <2>2
<1>3. CASE (\E n \in 0 .. ReadMax : ReadOverflow(n)) \/ OnDisconnect \/ BadMagic
           \/ NeedHeader \/ NeedBody
  BY <1>3 DEF ReadOverflow, OnDisconnect, BadMagic, NeedHeader, NeedBody, Fail
<1>4. CASE Deliver
  <2>1. /\ Len(out') = Len(out) + 1 /\ cnt' = cnt + 1
        /\ recvd' = recvd /\ layout' = layout
    BY <1>4, DeliverIsNextFrame DEF IInv, TypeOK, Deliver, Extract, stream
  <2>2. PICK m \in 0 .. NFrames : m <= Len(out) + MaxBatch - cnt /\ recvd <= layout[m]
    BY <1>4 DEF BatchCovers, Deliver, Decoding
  <2>3. Len(out') + MaxBatch - cnt' = Len(out) + MaxBatch - cnt
    <3>1. Len(out) \in Int /\ cnt \in Int /\ MaxBatch \in Int
      BY StreamFacts DEF IInv
    <3> QED  BY <2>1, <3>1
  <2> QED  BY <2>1, <2>2, <2>3
<1> QED  BY <1>1, <1>2, <1>3, <1>4 DEF Next

LEMMA NoStallStep ==
  IInv /\ BatchCovers /\ NoStall /\ [Next]_vars => NoStall'
<1> SUFFICES ASSUME IInv, BatchCovers, NoStall, [Next]_vars, Idle', FrameReady'
             PROVE  FALSE
  BY DEF NoStall
<1> USE SizesAssumption
<1>1. CASE Send \/ PeerLeave \/ UNCHANGED vars
  BY <1>1, ReadyOnlyByRead DEF NoStall, Send, PeerLeave, vars, stream, Idle
<1>2. CASE (\E n \in 0 .. ReadMax : ReadAppend(n) \/ ReadOverflow(n))
           \/ OnDisconnect \/ BadMagic
  BY <1>2 DEF ReadAppend, ReadOverflow, OnDisconnect, BadMagic, Fail, Idle
<1>3. CASE NeedHeader \/ NeedBody
  BY <1>3, NeedMoreMeansNotReady, ReadyOnlyByRead DEF NeedHeader, NeedBody, stream
<1>4. CASE Deliver
  <2> DEFINE k == Len(out)
  <2>1. /\ Extract(consumed' - consumed) /\ cnt < MaxBatch /\ cnt \in Int
        /\ k < sent /\ consumed' = layout[k + 1]
        /\ layout' = layout /\ recvd' = recvd
    BY <1>4, DeliverIsNextFrame, StreamFacts
    DEF IInv, Bounds, Deliver, Decoding, stream
  <2>2. cnt + 1 = MaxBatch
    BY <2>1 DEF Extract, Idle
  <2>3. PICK m \in 0 .. NFrames : m <= k + MaxBatch - cnt /\ recvd <= layout[m]
    BY <1>4 DEF BatchCovers, Deliver, Decoding
  <2>4. m <= k + 1 /\ k + 1 \in 0 .. NFrames
    <3>1. k \in Int /\ cnt \in Int /\ MaxBatch \in Int
      BY StreamFacts DEF IInv
    <3>2. m <= k + 1
      BY <2>2, <2>3, <3>1
    <3>3. k \in Nat /\ sent \in 0 .. NFrames
      BY StreamFacts DEF IInv
    <3> QED  BY <2>1, <3>2, <3>3
  <2>5. recvd <= consumed'
    BY <2>1, <2>3, <2>4, StreamFacts DEF IInv
  <2>6. PICK i \in 1 .. NFrames : layout[i - 1] = consumed' /\ layout[i] <= recvd
    BY <2>1 DEF FrameReady
  <2>7. layout[i - 1] < layout[i] /\ layout[i - 1] \in Int /\ layout[i] \in Int
    <3>1. i - 1 \in 0 .. NFrames /\ i \in 0 .. NFrames /\ i - 1 < i
      OBVIOUS
    <3> QED  BY <3>1, StreamFacts, FramesIncrease DEF IInv, TypeOK
  <2> QED  BY <2>5, <2>6, <2>7, StreamFacts DEF IInv
<1> QED  BY <1>1, <1>2, <1>3, <1>4 DEF Next

\* With at most MaxBatch frames outstanding, no complete frame ever waits in the
\* buffer of an idle connection.
THEOREM NoStallInLockStep ==
  ASSUME Window <= MaxBatch
  PROVE  Spec => []NoStall
<1>1. Init => NoStall /\ BatchCovers
  BY InitNotReady DEF Init, NoStall, BatchCovers
<1>2. IInv /\ Outstanding /\ BatchCovers /\ [Next]_vars => BatchCovers'
  BY BatchStep
<1> QED  BY <1>1, <1>2, NoStallStep, WindowKept, Invariance, PTL DEF Spec

\* A peer whose outstanding frames always fit the receive buffer is never
\* disconnected for an overflow.
THEOREM NeverDropped == Spec => []NoDrop
<1>1. IInv /\ Outstanding => NoDrop
  <2> SUFFICES ASSUME IInv, Outstanding, WindowFits, status = "overflow" PROVE FALSE
    BY DEF NoDrop
  <2>1. layout[sent] - layout[Len(out)] > Capacity
    BY DEF IInv, InOrder, ClosedForCause
  <2>2. Len(out) \in 0 .. NFrames /\ sent \in 0 .. NFrames /\ Len(out) <= sent
        /\ layout[sent] \in Int /\ layout[Len(out)] \in Int
    BY StreamFacts, SizesAssumption DEF IInv, InOrder
  <2>3. layout[sent] - layout[Len(out)] <= Capacity
    BY <2>2 DEF WindowFits, Outstanding
  <2> QED  BY <2>1, <2>2, <2>3, SizesAssumption
<1> QED  BY <1>1, Invariance, WindowKept, PTL
LEMMA LosslessStep ==
  IInv /\ NoStall /\ NothingLostAtEof /\ [Next]_vars => NothingLostAtEof'
<1> SUFFICES ASSUME IInv, NoStall, NothingLostAtEof, [Next]_vars, status' = "eof"
             PROVE  Len(out') = sent'
  BY DEF NothingLostAtEof
<1> USE SizesAssumption
<1>1. CASE status = "eof"
  <2>1. UNCHANGED <<sent, out>>
    BY <1>1 DEF IInv, Bounds, Next, vars, Send, PeerLeave, ReadAppend, ReadOverflow,
        OnDisconnect, NeedHeader, BadMagic, NeedBody, Deliver, Idle, Decoding
  <2> QED  BY <1>1, <2>1 DEF NothingLostAtEof
<1>2. CASE status # "eof"
  <2>1. OnDisconnect
    BY <1>2 DEF Next, vars, Send, PeerLeave, ReadAppend, ReadOverflow, Fail,
        NeedHeader, BadMagic, NeedBody, Deliver, Extract
  <2>2. recvd = layout[sent] /\ ~FrameReady /\ UNCHANGED <<sent, out>>
    BY <2>1, StreamFacts DEF IInv, OnDisconnect, Fail, InFlight, NoStall
  <2>3. ASSUME Len(out) < sent PROVE FALSE
    <3>1. /\ Len(out) < NFrames /\ Len(out) + 1 \in 0 .. NFrames
          /\ Len(out) + 1 <= sent /\ sent \in 0 .. NFrames
      BY <2>3, StreamFacts DEF IInv
    <3>2. layout[Len(out) + 1] <= layout[sent]
      BY <3>1, StreamFacts DEF IInv
    <3> QED  BY <2>2, <3>1, <3>2, ReadyIsNext
  <2> QED  BY <2>2, <2>3, StreamFacts DEF IInv, InOrder
<1> QED  BY <1>1, <1>2

\* With at most MaxBatch frames outstanding, a peer that closes in good order
\* has had every one of its frames delivered.
THEOREM LosslessEnd ==
  ASSUME Window <= MaxBatch
  PROVE  Spec => []NothingLostAtEof
<1>1. Init => NothingLostAtEof
  BY DEF Init, NothingLostAtEof
<1>2. Spec => []NoStall
  BY NoStallInLockStep
<1> QED  BY <1>1, <1>2, LosslessStep, Invariance, PTL DEF Spec

-----------------------------------------------------------------------------
(* The receive path implements the packet channel *)

SentFrames == [i \in 1 .. sent |-> Frame(i)]

LEMMA SentFramesSeq ==
  ASSUME TypeOK
  PROVE  SentFrames \in Seq(Extent) /\ Len(SentFrames) = sent
<1> USE SizesAssumption
<1>1. sent \in Nat
  BY StreamFacts
<1>2. ASSUME NEW i \in 1 .. sent PROVE Frame(i) \in Extent
  <2>1. i \in 1 .. NFrames /\ i - 1 \in 0 .. NFrames
    BY StreamFacts
  <2>2. layout[i - 1] \in Position /\ layout[i] - layout[i - 1] \in Total
    BY <2>1 DEF TypeOK, Layouts
  <2> QED  BY <2>2 DEF Frame, Extent
<1> QED  BY <1>1, <1>2 DEF SentFrames

LEMMA ChannelStep == IInv /\ [Next]_vars => [Channel!Next]_(Channel!vars)
<1> SUFFICES ASSUME IInv, [Next]_vars PROVE [Channel!Next]_(Channel!vars)
  OBVIOUS
<1> USE SizesAssumption
<1>1. CASE Send
  <2> DEFINE m == Frame(sent + 1)
  <2>1. layout' = layout /\ sent' = sent + 1 /\ sent \in Nat /\ UNCHANGED <<out, status>>
    BY <1>1, StreamFacts DEF IInv, Send, stream
  <2>2. m \in Extent
    <3>1. sent + 1 \in 1 .. NFrames /\ sent \in 0 .. NFrames
      BY <1>1, StreamFacts DEF IInv, Send
    <3>2. layout[sent] \in Position /\ layout[sent + 1] - layout[sent] \in Total
      BY <3>1 DEF IInv, TypeOK, Layouts
    <3> QED  BY <2>1, <3>1, <3>2 DEF Frame, Extent
  <2>3. SentFrames' = Append(SentFrames, m)
    <3>1. SentFrames' = [i \in 1 .. sent + 1 |-> Frame(i)]
      BY <2>1 DEF SentFrames, Frame
    <3>2. SentFrames \in Seq(Extent) /\ Len(SentFrames) = sent
      BY SentFramesSeq DEF IInv
    <3> QED  BY <2>1, <3>1, <3>2 DEF SentFrames
  <2>4. Channel!Send
    BY <2>1, <2>2, <2>3 DEF Channel!Send, SentFrames
  <2> QED  BY <2>4 DEF Channel!Next
<1>2. CASE Deliver
  <2>1. /\ Len(out) < sent /\ out' = Append(out, Frame(Len(out) + 1))
        /\ UNCHANGED <<layout, sent, status>> /\ status = "open"
    BY <1>2, DeliverIsNextFrame DEF Deliver, Decoding, Extract, stream
  <2>2. Len(SentFrames) = sent /\ SentFrames[Len(out) + 1] = Frame(Len(out) + 1)
    BY <2>1, SentFramesSeq, StreamFacts DEF IInv, SentFrames
  <2>3. SentFrames' = SentFrames
    BY <2>1 DEF SentFrames, Frame
  <2>4. Channel!Deliver
    BY <2>1, <2>2, <2>3 DEF Channel!Deliver, SentFrames
  <2> QED  BY <2>4 DEF Channel!Next
<1>3. CASE (\E n \in 0 .. ReadMax : ReadOverflow(n)) \/ OnDisconnect \/ BadMagic
  <2>1. /\ UNCHANGED <<layout, sent, out>> /\ status = "open" /\ status' # "open"
    BY <1>3 DEF ReadOverflow, OnDisconnect, BadMagic, Fail, Idle, Decoding, stream
  <2>2. Channel!Close
    BY <2>1 DEF Channel!Close, Frame
  <2> QED  BY <2>2 DEF Channel!Next
<1>4. CASE PeerLeave \/ (\E n \in 0 .. ReadMax : ReadAppend(n))
           \/ NeedHeader \/ NeedBody \/ UNCHANGED vars
  <2>1. UNCHANGED <<layout, sent, out, status>>
    BY <1>4 DEF PeerLeave, ReadAppend, NeedHeader, NeedBody, vars, stream
  <2> QED  BY <2>1 DEF Channel!vars, Frame
<1> QED  BY <1>1, <1>2, <1>3, <1>4 DEF Next

\* Every behaviour of the receive path, for every cut of the stream into reads
\* and every order of sends, reads, decoding and closes, is a behaviour of the
\* packet channel: once each, in order, never after the close.
THEOREM ReceivePathIsChannel == Spec => ImplementsChannel
<1>1. Init => Channel!Init
  BY SizesAssumption DEF Init, Channel!Init
<1>2. IInv /\ [Next]_vars => [Channel!Next]_(Channel!vars)
  BY ChannelStep
<1> QED  BY <1>1, <1>2, Invariance, PTL DEF Spec, ImplementsChannel, Channel!Spec
=============================================================================
