--------------------------- MODULE TcpServerProofs ---------------------------
(***************************************************************************)
(* Proofs about TcpServer for every set of connections, every batch size   *)
(* and every number of packets and writes.                                 *)
(***************************************************************************)
EXTENDS TcpServer, SequenceTheorems, TLAPS

\* A call of the over callback for c is in progress.
Ending(c) == \E i \in 1 .. Len(stack) : stack[i].at = "over" /\ stack[i].client = c

\* The stages of a connection: before the accept (or without a Client for ever),
\* open, closing inside its over callback, and deleted.
Stage(c) ==
  \/ object[c] = "none" /\ handle[c] \in {"none", "leaked"} /\ overs[c] = 0
  \/ object[c] = "alive" /\ handle[c] = "open" /\ overs[c] = 0
  \/ object[c] = "alive" /\ handle[c] = "closing" /\ overs[c] = 1 /\ Ending(c)
  \/ /\ object[c] = "deleted" /\ handle[c] \in {"closing", "freed"}
     /\ overs[c] = 1 \/ (fault = [at |-> "listen", client |-> c] /\ overs[c] = 0)

\* A connection that has not been accepted has nothing yet.
Fresh == \A c \in Clients :
           peer[c] \in {"none", "connecting"} => object[c] = "none" /\ handle[c] = "none"

\* Reads start from the loop, so only the outermost call can be the decoder's; it
\* waits in the packet callback while other calls run.  An over callback runs for
\* a Client that is closing but not yet deleted, once at a time.
StackOK ==
  /\ \A i \in 1 .. Len(stack) :
       /\ stack[i].at # "over" => i = 1
       /\ stack[i].at = "decode" => Len(stack) = 1 /\ Open(stack[i].client)
       /\ stack[i].at = "over" => object[stack[i].client] = "alive"
                                  /\ handle[stack[i].client] = "closing"
  /\ \A i, j \in 1 .. Len(stack) :
       stack[i].at = "over" /\ stack[j].at = "over" /\ stack[i].client = stack[j].client
         => i = j

FreedIsQuiet == \A c \in Clients : handle[c] = "freed" => writes[c] = << >>

IInv == /\ TypeOK
        /\ \A c \in Clients : Stage(c)
        /\ Fresh
        /\ StackOK
        /\ FreedIsQuiet
        /\ HeldAlive

LEMMA InitIInv == Init => IInv
<1> SUFFICES ASSUME Init PROVE IInv
  OBVIOUS
<1>1. TypeOK
  BY ServerAssumption DEF Init, TypeOK, Faults
<1> QED
  BY <1>1 DEF Init, IInv, Stage, Fresh, StackOK, FreedIsQuiet, HeldAlive

-----------------------------------------------------------------------------
(* The call stack *)

LEMMA PushFacts ==
  ASSUME NEW s \in Seq(Call), NEW call \in Call
  PROVE  /\ Push(s, call) \in Seq(Call)
         /\ Len(Push(s, call)) = Len(s) + 1
         /\ \A i \in 1 .. Len(s) : Push(s, call)[i] = s[i]
         /\ Push(s, call)[Len(s) + 1] = call
BY DEF Push

LEMMA PopFacts ==
  ASSUME NEW s \in Seq(Call), s # << >>
  PROVE  /\ Pop(s) \in Seq(Call)
         /\ Len(Pop(s)) = Len(s) - 1
         /\ \A i \in 1 .. Len(s) - 1 : Pop(s)[i] = s[i]
         /\ s[Len(s)] \in Call
         /\ Len(s) \in Nat \ {0}
<1>1. Len(s) \in Nat /\ Len(s) # 0
  BY EmptySeq
<1>2. s[Len(s)] \in Call
  BY <1>1
<1> QED  BY <1>1, <1>2, SubSeqProperties DEF Pop

\* Goto replaces the innermost call by another call for the same Client.
LEMMA GotoFacts ==
  ASSUME TypeOK, stack # << >>, NEW at \in {"decode", "packet"},
         NEW n \in 0 .. MaxBatch - 1
  PROVE  /\ Goto(at, n) \in Seq(Call)
         /\ Len(Goto(at, n)) = Len(stack)
         /\ \A i \in 1 .. Len(stack) - 1 : Goto(at, n)[i] = stack[i]
         /\ Goto(at, n)[Len(stack)].at = at
         /\ Goto(at, n)[Len(stack)].client = Top.client
<1>1. /\ stack \in Seq(Call) /\ Len(stack) \in Nat \ {0}
      /\ Top \in Call
  BY DEF TypeOK, Top
<1>2. [at |-> at, client |-> Top.client, count |-> n] \in Call
  BY <1>1 DEF Call
<1> QED  BY <1>1, <1>2 DEF Goto
-----------------------------------------------------------------------------
(* Kinds of steps *)

\* Steps that leave the Clients, their handles and the stack alone.
LEMMA QuietIInv ==
  ASSUME IInv, TypeOK',
         UNCHANGED <<object, handle, overs, stack, held>>,
         fault' = fault \/ fault = NoFault,
         \A c \in Clients : handle[c] = "freed" => writes'[c] = writes[c],
         Fresh'
  PROVE  IInv'
<1>1. \A c \in Clients : Stage(c)'
  <2> SUFFICES ASSUME NEW c \in Clients PROVE Stage(c)'
    OBVIOUS
  <2>1. Stage(c)
    BY DEF IInv
  <2>2. Ending(c)' <=> Ending(c)
    BY DEF Ending
  <2>3. fault = [at |-> "listen", client |-> c] => fault' = fault
    BY DEF NoFault
  <2> QED  BY <2>1, <2>2, <2>3 DEF Stage
<1>2. StackOK'
  BY DEF IInv, StackOK, Open
<1>3. FreedIsQuiet' /\ HeldAlive'
  BY DEF IInv, FreedIsQuiet, HeldAlive
<1> QED  BY <1>1, <1>2, <1>3 DEF IInv

\* except_error of a Client whose handle is open, from a stack s that is what is
\* left of the current one after the decoder's call, if any, has unwound.
LEMMA ExceptErrorIInv ==
  ASSUME IInv, TypeOK', NEW c \in Clients, Open(c), NEW s \in Seq(Call),
         Len(s) <= Len(stack),
         \A i \in 1 .. Len(s) : s[i] = stack[i] /\ s[i].at # "decode",
         \A i \in 1 .. Len(stack) : stack[i].at = "over" => i <= Len(s),
         s # << >> => Len(s) = Len(stack),
         ExceptError(c, s),
         UNCHANGED <<peer, object, held, fault>>,
         \A d \in Clients : handle[d] = "freed" => writes'[d] = writes[d]
  PROVE  IInv'
<1> DEFINE n == Len(s)
<1>1. /\ n \in Nat /\ Len(stack) \in Nat /\ Len(stack') = n + 1
      /\ \A i \in 1 .. n : stack'[i] = stack[i]
      /\ stack'[n + 1] = OverCall(c)
  <2>1. OverCall(c) \in Call
    BY ServerAssumption DEF OverCall, Call
  <2>2. stack' = Push(s, OverCall(c))
    BY DEF ExceptError
  <2>3. Len(stack) \in Nat
    BY DEF IInv, TypeOK
  <2> QED  BY <2>1, <2>2, <2>3, PushFacts
<1>2. /\ object[c] = "alive" /\ overs[c] = 0 /\ handle[c] = "open"
      /\ ~Ending(c)
  BY DEF IInv, Stage, Open, StackOK, Ending
<1>3. /\ handle' = [handle EXCEPT ![c] = "closing"]
      /\ overs' = [overs EXCEPT ![c] = overs[c] + 1]
      /\ handle \in [Clients -> {"none", "open", "closing", "freed", "leaked"}]
      /\ overs \in [Clients -> Nat]
  BY DEF ExceptError, IInv, TypeOK
<1>4. /\ handle'[c] = "closing" /\ overs'[c] = 1
      /\ \A d \in Clients \ {c} : handle'[d] = handle[d] /\ overs'[d] = overs[d]
  BY <1>2, <1>3
<1>5. OverCall(c).at = "over" /\ OverCall(c).client = c
  BY DEF OverCall
<1>6. ASSUME NEW d \in Clients PROVE Stage(d)'
  <2>1. CASE d = c
    <3>1. Ending(c)'
      BY <1>1, <1>5 DEF Ending
    <3> QED  BY <2>1, <3>1, <1>2, <1>4 DEF Stage
  <2>2. CASE d # c
    <3>1. Ending(d) => Ending(d)'
      BY <1>1 DEF Ending
    <3>2. handle'[d] = handle[d] /\ overs'[d] = overs[d] /\ Stage(d)
      BY <1>4, <2>2 DEF IInv
    <3> QED  BY <3>1, <3>2 DEF Stage
  <2> QED  BY <2>1, <2>2
<1>7. StackOK'
  <2>1. ASSUME NEW i \in 1 .. n + 1
        PROVE  /\ stack'[i].at # "over" => i = 1
               /\ stack'[i].at = "decode" => FALSE
               /\ stack'[i].at = "over" => object'[stack'[i].client] = "alive"
                                           /\ handle'[stack'[i].client] = "closing"
    <3>1. CASE i = n + 1
      BY <3>1, <1>1, <1>2, <1>4, <1>5
    <3>2. CASE i # n + 1
      <4>1. i \in 1 .. n /\ i \in 1 .. Len(stack) /\ stack'[i] = stack[i]
        BY <3>2, <1>1
      <4>2. stack[i].client \in Clients
        <5>1. stack[i] \in Call
          BY <4>1 DEF IInv, TypeOK
        <5> QED  BY <5>1 DEF Call
      <4>3. stack[i].at = "over" => object[stack[i].client] = "alive"
                                    /\ handle[stack[i].client] = "closing"
        BY <4>1 DEF IInv, StackOK
      <4> QED  BY <4>1, <4>2, <4>3, <1>2, <1>4 DEF IInv, StackOK
    <3> QED  BY <3>1, <3>2
  <2>2. ASSUME NEW i \in 1 .. n + 1, NEW j \in 1 .. n + 1,
               stack'[i].at = "over", stack'[j].at = "over",
               stack'[i].client = stack'[j].client
        PROVE  i = j
    <3>1. \A k \in 1 .. n : k \in 1 .. Len(stack) /\ stack'[k] = stack[k]
      BY <1>1
    <3>2. \A k \in 1 .. n : stack[k].at = "over" => stack[k].client # c
      BY <3>1, <1>2 DEF Ending
    <3>3. CASE i = n + 1 /\ j = n + 1
      BY <3>3
    <3>4. CASE i \in 1 .. n /\ j \in 1 .. n
      BY <2>2, <3>1, <3>4 DEF IInv, StackOK
    <3>5. CASE (i = n + 1 /\ j \in 1 .. n) \/ (j = n + 1 /\ i \in 1 .. n)
      BY <2>2, <3>1, <3>2, <3>5, <1>1, <1>5
    <3> QED  BY <3>3, <3>4, <3>5, <1>1
  <2> QED  BY <2>1, <2>2, <1>1 DEF StackOK
<1>8. Fresh' /\ FreedIsQuiet' /\ HeldAlive'
  BY <1>2, <1>4 DEF IInv, Fresh, FreedIsQuiet, HeldAlive, Open
<1> QED  BY <1>6, <1>7, <1>8 DEF IInv
\* The decoder's call is the only call when it, or its packet callback, is innermost.
LEMMA OnlyCall ==
  ASSUME IInv, In("decode") \/ In("packet")
  PROVE  /\ stack \in Seq(Call) /\ stack # << >> /\ Len(stack) = 1 /\ Top = stack[1]
         /\ Top.client \in Clients /\ Top.count \in 0 .. MaxBatch - 1
         /\ fault = NoFault
         /\ \A c \in Clients : ~Ending(c)
         /\ object[Top.client] = "alive" => Open(Top.client)
         /\ In("decode") => Open(Top.client)
<1>1. stack \in Seq(Call) /\ stack # << >> /\ Len(stack) \in Nat \ {0} /\ Top \in Call
      /\ Top.at \in {"decode", "packet"} /\ fault = NoFault
  BY EmptySeq DEF IInv, TypeOK, In, Top
<1>2. Len(stack) = 1 /\ Top = stack[1]
  <2>1. Len(stack) \in 1 .. Len(stack) /\ stack[Len(stack)].at # "over"
    BY <1>1 DEF Top
  <2>2. Len(stack) = 1
    BY <2>1 DEF IInv, StackOK
  <2> QED  BY <2>2 DEF Top
<1>3. Top.client \in Clients /\ Top.count \in 0 .. MaxBatch - 1
  BY <1>1 DEF Call
<1>4. \A c \in Clients : ~Ending(c)
  BY <1>1, <1>2 DEF Ending
<1>5. object[Top.client] = "alive" => Open(Top.client)
  BY <1>3, <1>4 DEF IInv, Stage, Open
<1>6. In("decode") => Open(Top.client)
  BY <1>2 DEF IInv, StackOK, In
<1> QED  BY <1>1, <1>2, <1>3, <1>4, <1>5, <1>6

\* Steps that replace the only call by another one for the same Client.
LEMMA GotoIInv ==
  ASSUME IInv, TypeOK', In("decode") \/ In("packet"),
         NEW at \in {"decode", "packet"}, NEW n \in 0 .. MaxBatch - 1,
         stack' = Goto(at, n),
         object[Top.client] = "alive",
         held' = held \/ held' = held \cup {Top.client},
         UNCHANGED <<peer, object, handle, overs, writes, fault>>
  PROVE  IInv'
<1> DEFINE c == Top.client
<1>1. /\ Len(stack) = 1 /\ Len(stack') = 1 /\ c \in Clients /\ Open(c)
      /\ stack'[1].at = at /\ stack'[1].client = c
      /\ \A d \in Clients : ~Ending(d)
  BY OnlyCall, GotoFacts DEF IInv
<1>2. \A d \in Clients : Stage(d)'
  BY <1>1 DEF IInv, Stage
<1>3. StackOK'
  BY <1>1 DEF StackOK, Open
<1>4. Fresh' /\ FreedIsQuiet' /\ HeldAlive'
  BY DEF IInv, Fresh, FreedIsQuiet, HeldAlive
<1> QED  BY <1>2, <1>3, <1>4 DEF IInv

\* Steps that return from the only call.
LEMMA LeaveIInv ==
  ASSUME IInv, TypeOK', In("decode") \/ In("packet"),
         stack' = Pop(stack),
         UNCHANGED <<peer, object, handle, overs, writes, held, fault>>
  PROVE  IInv'
<1>1. Len(stack') = 0 /\ \A d \in Clients : ~Ending(d)
  BY OnlyCall, PopFacts
<1>2. \A d \in Clients : Stage(d)'
  BY <1>1 DEF IInv, Stage
<1>3. StackOK'
  BY <1>1 DEF StackOK
<1>4. Fresh' /\ FreedIsQuiet' /\ HeldAlive'
  BY DEF IInv, Fresh, FreedIsQuiet, HeldAlive
<1> QED  BY <1>2, <1>3, <1>4 DEF IInv

LEMMA OverReturnIInv ==
  ASSUME IInv, TypeOK', OverReturn
  PROVE  IInv'
<1> DEFINE c == Top.client
           n == Len(stack) - 1
<1>1. stack \in Seq(Call) /\ stack # << >> /\ Len(stack) \in Nat \ {0}
      /\ Top = stack[Len(stack)] /\ Top \in Call /\ Top.at = "over"
  BY EmptySeq DEF IInv, TypeOK, OverReturn, In, Top
<1>2. Len(stack') = n /\ n \in Nat /\ \A i \in 1 .. n : stack'[i] = stack[i]
  BY <1>1, PopFacts DEF OverReturn
<1>3. c \in Clients /\ object[c] = "alive" /\ handle[c] = "closing" /\ overs[c] = 1
  <2>1. c \in Clients
    BY <1>1 DEF Call
  <2>2. object[c] = "alive" /\ handle[c] = "closing"
    BY <1>1 DEF IInv, StackOK
  <2> QED  BY <2>1, <2>2 DEF IInv, Stage
<1>4. /\ object'[c] = "deleted"
      /\ \A d \in Clients \ {c} : object'[d] = object[d]
      /\ UNCHANGED <<peer, handle, overs, writes, fault>>
      /\ held' = held \ {c}
  BY <1>3 DEF OverReturn, IInv, TypeOK
<1>5. \A i \in 1 .. n : stack[i].at = "over" => stack[i].client # c
  BY <1>1, <1>2 DEF IInv, StackOK
<1>6. ASSUME NEW d \in Clients PROVE Stage(d)'
  <2>1. CASE d = c
    BY <2>1, <1>3, <1>4 DEF Stage
  <2>2. CASE d # c
    <3>1. Ending(d) => Ending(d)'
      <4> SUFFICES ASSUME NEW i \in 1 .. Len(stack), stack[i].at = "over",
                          stack[i].client = d
                   PROVE  Ending(d)'
        BY DEF Ending
      <4>1. i \in 1 .. n
        BY <1>1, <2>2
      <4> QED  BY <4>1, <1>2 DEF Ending
    <3> QED  BY <3>1, <1>4, <2>2 DEF IInv, Stage
  <2> QED  BY <2>1, <2>2
<1>7. StackOK'
  <2>1. ASSUME NEW i \in 1 .. n
        PROVE  /\ stack'[i].at # "over" => i = 1
               /\ stack'[i].at # "decode"
               /\ stack'[i].at = "over" => object'[stack'[i].client] = "alive"
                                           /\ handle'[stack'[i].client] = "closing"
    <3>1. i \in 1 .. Len(stack) /\ stack'[i] = stack[i] /\ Len(stack) # 1
      BY <1>1, <1>2
    <3>2. stack[i].client \in Clients
      <4>1. stack[i] \in Call
        BY <1>1, <3>1
      <4> QED  BY <4>1 DEF Call
    <3> QED  BY <3>1, <3>2, <1>4, <1>5 DEF IInv, StackOK
  <2>2. \A i \in 1 .. n : i \in 1 .. Len(stack) /\ stack'[i] = stack[i]
    BY <1>1, <1>2
  <2>3. ASSUME NEW i \in 1 .. n, NEW j \in 1 .. n,
               stack'[i].at = "over", stack'[j].at = "over",
               stack'[i].client = stack'[j].client
        PROVE  i = j
    BY <2>2, <2>3 DEF IInv, StackOK
  <2> QED  BY <2>1, <2>3, <1>2 DEF StackOK
<1>8. Fresh' /\ FreedIsQuiet' /\ HeldAlive'
  <2>1. \A d \in Clients : peer[d] \in {"none", "connecting"} => d # c
    BY <1>3 DEF IInv, Fresh
  <2>2. held \subseteq Clients
    BY DEF IInv, TypeOK
  <2> QED  BY <2>1, <2>2, <1>4 DEF IInv, Fresh, FreedIsQuiet, HeldAlive
<1> QED  BY <1>6, <1>7, <1>8 DEF IInv
-----------------------------------------------------------------------------
(* Type correctness, one step per action *)

LEMMA ExceptErrorTypes ==
  ASSUME TypeOK, NEW c \in Clients, NEW s \in Seq(Call), ExceptError(c, s)
  PROVE  /\ handle' \in [Clients -> {"none", "open", "closing", "freed", "leaked"}]
         /\ overs' \in [Clients -> Nat]
         /\ stack' \in Seq(Call)
<1>1. OverCall(c) \in Call
  BY ServerAssumption DEF OverCall, Call
<1>2. stack' = Push(s, OverCall(c)) /\ Push(s, OverCall(c)) \in Seq(Call)
  BY <1>1, PushFacts DEF ExceptError
<1> QED  BY <1>2 DEF ExceptError, TypeOK

LEMMA FailTypes ==
  ASSUME NEW c \in Clients, NEW at \in {"listen", "decoder", "packet callback", "write callback"},
         Fail(at, c)
  PROVE  fault' \in Faults
<1>1. [at |-> at, client |-> c] \in
        [at : {"listen", "decoder", "packet callback", "write callback"}, client : Clients]
  OBVIOUS
<1> QED  BY <1>1 DEF Fail, Faults

LEMMA EnvironmentTypes ==
  ASSUME TypeOK, NEW c \in Clients,
         Start \/ Stop \/ Connect(c) \/ PeerLeaves(c) \/ OnConnection(c)
         \/ AcceptFails(c) \/ PeernameFails(c)
  PROVE  TypeOK'
<1>1. CASE Start \/ Stop
  BY <1>1 DEF Start, Stop, TypeOK
<1>2. CASE Connect(c) \/ PeerLeaves(c)
  BY <1>2 DEF Connect, PeerLeaves, TypeOK
<1>3. CASE OnConnection(c) \/ AcceptFails(c)
  BY <1>3 DEF OnConnection, AcceptFails, TypeOK
<1>4. CASE PeernameFails(c)
  BY <1>4 DEF PeernameFails, Fail, Faults, TypeOK
<1> QED  BY <1>1, <1>2, <1>3, <1>4

LEMMA ReadTypes ==
  ASSUME TypeOK, NEW c \in Clients, NEW k \in 0 .. MaxPackets,
         Read(c, k)
  PROVE  TypeOK'
<1>1. [at |-> "decode", client |-> c, count |-> 0] \in Call
  BY ServerAssumption DEF Call
<1>2. stack' \in Seq(Call)
  BY <1>1, PushFacts DEF Read, TypeOK
<1>3. ready[c] \in Nat /\ unread[c] \in 0 .. MaxPackets /\ k \in 0 .. unread[c]
  BY DEF Read, TypeOK
<1>4. ready[c] + k \in Nat /\ unread[c] - k \in 0 .. MaxPackets
  BY <1>3, ServerAssumption
<1> QED  BY <1>2, <1>4 DEF Read, TypeOK
LEMMA ErrorTypes ==
  ASSUME TypeOK, NEW c \in Clients,
         ReadOverflow(c) \/ OnDisconnect(c) \/ SendFails(c)
  PROVE  TypeOK'
<1>1. stack \in Seq(Call) /\ ExceptError(c, stack)
  BY DEF TypeOK, ReadOverflow, OnDisconnect, SendFails
<1>2. /\ handle' \in [Clients -> {"none", "open", "closing", "freed", "leaked"}]
      /\ overs' \in [Clients -> Nat]
      /\ stack' \in Seq(Call)
  BY <1>1, ExceptErrorTypes
<1> QED  BY <1>2 DEF TypeOK, ReadOverflow, OnDisconnect, SendFails

LEMMA WriteTypes ==
  ASSUME TypeOK, NEW c \in Clients,
         \/ \E w \in WriteOutcomes : Send(c, w)
         \/ Flush(c) \/ WriteDone(c) \/ CloseWrite(c) \/ CloseDone(c)
  PROVE  TypeOK'
<1>1. writes[c] \in Seq(WriteStates) /\ writes \in [Clients -> Seq(WriteStates)]
  BY DEF TypeOK
<1>2. CASE \E w \in WriteOutcomes : Send(c, w)
  <2>1. PICK w \in WriteOutcomes : Send(c, w)
    BY <1>2
  <2>2. w \in WriteStates
    BY ServerAssumption
  <2>3. Append(writes[c], w) \in Seq(WriteStates)
    BY <1>1, <2>2
  <2> QED  BY <2>1, <2>3 DEF Send, TypeOK
<1>3. CASE Flush(c)
  <2>1. PICK i \in 1 .. Len(writes[c]), w \in {"flushed", "failed"} :
               writes' = [writes EXCEPT ![c][i] = w]
    BY <1>3 DEF Flush
  <2>2. [writes[c] EXCEPT ![i] = w] \in Seq(WriteStates)
    BY <1>1, ExceptSeq DEF WriteStates
  <2> QED  BY <1>1, <1>3, <2>1, <2>2 DEF Flush, TypeOK
<1>4. CASE WriteDone(c)
  <2>1. writes' \in [Clients -> Seq(WriteStates)]
    BY <1>1, <1>4 DEF WriteDone
  <2>2. stack \in Seq(Call)
    BY DEF TypeOK
  <2>3. CASE ExceptError(c, stack)
    <3>1. /\ handle' \in [Clients -> {"none", "open", "closing", "freed", "leaked"}]
          /\ overs' \in [Clients -> Nat]
          /\ stack' \in Seq(Call)
      BY <2>2, <2>3, ExceptErrorTypes
    <3> QED  BY <1>4, <2>1, <3>1 DEF WriteDone, TypeOK
  <2>4. CASE UNCHANGED <<handle, stack, overs>>
    BY <1>4, <2>1, <2>4 DEF WriteDone, TypeOK
  <2> QED  BY <1>4, <2>3, <2>4 DEF WriteDone
<1>5. CASE CloseWrite(c)
  <2>1. Tail(writes[c]) \in Seq(WriteStates)
    BY <1>1, <1>5, HeadTailProperties DEF CloseWrite
  <2>2. fault' \in Faults
    <3>1. CASE UNCHANGED fault
      BY <3>1 DEF TypeOK
    <3>2. CASE Fail("write callback", c)
      BY <3>2, FailTypes
    <3> QED  BY <1>5, <3>1, <3>2 DEF CloseWrite
  <2> QED  BY <1>5, <2>1, <2>2 DEF CloseWrite, TypeOK
<1>6. CASE CloseDone(c)
  BY <1>6 DEF CloseDone, TypeOK
<1> QED  BY <1>2, <1>3, <1>4, <1>5, <1>6

LEMMA ReturnTypes ==
  ASSUME IInv, Return
  PROVE  TypeOK'
<1> DEFINE c == Top.client
<1>1. TypeOK /\ stack \in Seq(Call) /\ stack # << >>
  BY DEF IInv, TypeOK, Return, DecodePacket, DecodeEnd, DecodeThrows, PacketReturn,
     OverReturn, In
<1>2. Pop(stack) \in Seq(Call)
  BY <1>1, PopFacts
<1>3. c \in Clients /\ Top.count \in 0 .. MaxBatch - 1
  <2>1. Top \in Call
    BY <1>1, PopFacts DEF Top
  <2> QED  BY <2>1 DEF Call
<1>4. CASE DecodePacket
  <2>1. Goto("packet", Top.count) \in Seq(Call)
    BY <1>1, <1>3, GotoFacts
  <2>2. ready[c] - 1 \in Nat
    BY <1>3, <1>4 DEF IInv, TypeOK, DecodePacket
  <2> QED  BY <1>1, <1>3, <1>4, <2>1, <2>2 DEF DecodePacket, TypeOK
<1>5. CASE DecodeEnd
  BY <1>1, <1>2, <1>5 DEF DecodeEnd, TypeOK
<1>6. CASE DecodeThrows
  <2>1. ExceptError(c, Pop(stack))
    BY <1>6 DEF DecodeThrows
  <2>2. /\ handle' \in [Clients -> {"none", "open", "closing", "freed", "leaked"}]
        /\ overs' \in [Clients -> Nat]
        /\ stack' \in Seq(Call)
    BY <1>1, <1>2, <1>3, <2>1, ExceptErrorTypes
  <2> QED  BY <1>1, <1>6, <2>2 DEF DecodeThrows, TypeOK
<1>7. CASE PacketReturn
  <2>1. Top.count + 1 < MaxBatch => Top.count + 1 \in 0 .. MaxBatch - 1
    BY <1>3, ServerAssumption
  <2>2. stack' \in Seq(Call)
    BY <1>1, <1>2, <1>7, <2>1, GotoFacts DEF PacketReturn
  <2>3. fault' \in Faults
    <3>1. CASE UNCHANGED fault
      BY <1>1, <3>1 DEF TypeOK
    <3>2. CASE Fail("decoder", c) \/ Fail("packet callback", c)
      BY <1>3, <3>2, FailTypes
    <3> QED  BY <1>7, <3>1, <3>2 DEF PacketReturn
  <2> QED  BY <1>1, <1>7, <2>2, <2>3 DEF PacketReturn, TypeOK
<1>8. CASE OverReturn
  BY <1>1, <1>2, <1>8 DEF OverReturn, TypeOK
<1> QED  BY <1>4, <1>5, <1>6, <1>7, <1>8 DEF Return

LEMMA NextTypes == IInv /\ [Next]_vars => TypeOK'
<1> SUFFICES ASSUME IInv, [Next]_vars PROVE TypeOK'
  OBVIOUS
<1>1. TypeOK
  BY DEF IInv
<1>2. CASE UNCHANGED vars
  BY <1>1, <1>2 DEF vars, TypeOK
<1>3. CASE Start \/ Stop
  BY <1>1, <1>3 DEF Start, Stop, TypeOK
<1>4. CASE Return
  BY <1>4, ReturnTypes
<1>5. ASSUME NEW c \in Clients,
             \/ Connect(c) \/ PeerLeaves(c) \/ OnConnection(c) \/ AcceptFails(c)
             \/ PeernameFails(c)
             \/ \E k \in 0 .. MaxPackets : Read(c, k)
             \/ ReadOverflow(c) \/ OnDisconnect(c)
             \/ \E w \in WriteOutcomes : Send(c, w)
             \/ SendFails(c) \/ Flush(c) \/ WriteDone(c) \/ CloseWrite(c) \/ CloseDone(c)
      PROVE  TypeOK'
  BY <1>1, <1>5, EnvironmentTypes, ReadTypes, ErrorTypes, WriteTypes
<1> QED  BY <1>2, <1>3, <1>4, <1>5 DEF Next
-----------------------------------------------------------------------------
(* The inductive step *)

\* The application runs in the loop, in a packet callback or in an over callback:
\* the decoder is never in the middle of an iteration then.
LEMMA NotDecoding ==
  ASSUME IInv, InApplication
  PROVE  stack \in Seq(Call) /\ \A i \in 1 .. Len(stack) : stack[i].at # "decode"
<1>1. stack \in Seq(Call)
  BY DEF IInv, TypeOK
<1>2. ASSUME NEW i \in 1 .. Len(stack), stack[i].at = "decode" PROVE FALSE
  <2>1. Len(stack) = 1 /\ i = Len(stack)
    BY <1>2 DEF IInv, StackOK
  <2>2. stack # << >>
    BY <2>1
  <2> QED  BY <1>2, <2>1, <2>2 DEF InApplication, Top
<1> QED  BY <1>1, <1>2

LEMMA ErrorIInv ==
  ASSUME IInv, TypeOK', NEW c \in Clients, Open(c), InApplication,
         ExceptError(c, stack), UNCHANGED <<peer, object, held, fault>>,
         \A d \in Clients : handle[d] = "freed" => writes'[d] = writes[d]
  PROVE  IInv'
<1>1. stack \in Seq(Call) /\ \A i \in 1 .. Len(stack) : stack[i].at # "decode"
  BY NotDecoding
<1>2. Len(stack) \in Nat
  BY <1>1
<1> QED  BY <1>1, <1>2, ExceptErrorIInv

LEMMA ServerIInv == IInv /\ TypeOK' /\ (Start \/ Stop \/ UNCHANGED vars) => IInv'
<1> SUFFICES ASSUME IInv, TypeOK', Start \/ Stop \/ UNCHANGED vars PROVE IInv'
  OBVIOUS
<1>1. UNCHANGED <<peer, object, handle, overs, stack, held, fault, writes>>
  BY DEF Start, Stop, vars
<1>2. Fresh'
  BY <1>1 DEF IInv, Fresh
<1> QED  BY <1>1, <1>2, QuietIInv

LEMMA PeerIInv ==
  ASSUME IInv, TypeOK', NEW c \in Clients, Connect(c) \/ PeerLeaves(c)
  PROVE  IInv'
<1>1. UNCHANGED <<object, handle, overs, stack, held, fault, writes>>
  BY DEF Connect, PeerLeaves
<1>2. Fresh'
  BY <1>1 DEF IInv, TypeOK, Fresh, Connect, PeerLeaves
<1> QED  BY <1>1, <1>2, QuietIInv

\* The three outcomes of the listen callback; the stack is empty.
LEMMA ListenIInv ==
  ASSUME IInv, TypeOK', NEW c \in Clients,
         OnConnection(c) \/ AcceptFails(c) \/ PeernameFails(c)
  PROVE  IInv'
<1>1. /\ stack = << >> /\ UNCHANGED <<stack, held, overs, writes>> /\ fault = NoFault
      /\ object[c] = "none" /\ handle[c] = "none" /\ overs[c] = 0
      /\ \/ object'[c] = "alive" /\ handle'[c] = "open"
         \/ object'[c] = "none" /\ handle'[c] = "leaked"
         \/ object'[c] = "deleted" /\ handle'[c] = "closing"
            /\ fault' = [at |-> "listen", client |-> c]
      /\ peer'[c] \in {"up", "gone"}
      /\ \A d \in Clients \ {c} :
           object'[d] = object[d] /\ handle'[d] = handle[d] /\ peer'[d] = peer[d]
  <2>1. peer[c] = "connecting" /\ stack = << >> /\ fault = NoFault
    BY DEF OnConnection, AcceptFails, PeernameFails, Incoming, InLoop
  <2>2. object[c] = "none" /\ handle[c] = "none" /\ overs[c] = 0
    BY <2>1 DEF IInv, Fresh, Stage
  <2>3. /\ peer \in [Clients -> {"none", "connecting", "up", "gone"}]
        /\ object \in [Clients -> {"none", "alive", "deleted"}]
        /\ handle \in [Clients -> {"none", "open", "closing", "freed", "leaked"}]
    BY DEF IInv, TypeOK
  <2>4. CASE OnConnection(c)
    BY <2>1, <2>2, <2>3, <2>4 DEF OnConnection
  <2>5. CASE AcceptFails(c)
    BY <2>1, <2>2, <2>3, <2>5 DEF AcceptFails
  <2>6. CASE PeernameFails(c)
    BY <2>1, <2>2, <2>3, <2>6 DEF PeernameFails, Fail
  <2> QED  BY <2>4, <2>5, <2>6
<1>2. ASSUME NEW d \in Clients PROVE Stage(d)'
  <2>1. fault # [at |-> "listen", client |-> d]
    BY <1>1 DEF NoFault
  <2>2. ~Ending(d)
    BY <1>1 DEF Ending
  <2>3. Stage(d) /\ overs'[d] = overs[d]
    BY <1>1 DEF IInv
  <2> QED  BY <1>1, <2>1, <2>2, <2>3 DEF Stage
<1>3. StackOK'
  BY <1>1 DEF StackOK
<1>4. Fresh' /\ FreedIsQuiet'
  BY <1>1 DEF IInv, Fresh, FreedIsQuiet
<1>5. HeldAlive'
  BY <1>1 DEF IInv, TypeOK, HeldAlive
<1> QED  BY <1>2, <1>3, <1>4, <1>5 DEF IInv

LEMMA ReadIInv ==
  ASSUME IInv, TypeOK', NEW c \in Clients, NEW k \in 0 .. MaxPackets, Read(c, k)
  PROVE  IInv'
<1> DEFINE call == [at |-> "decode", client |-> c, count |-> 0]
<1>1. call \in Call
  BY ServerAssumption DEF Call
<1>2. stack = << >> /\ stack \in Seq(Call) /\ stack' = Push(stack, call) /\ Open(c)
      /\ UNCHANGED <<peer, object, handle, overs, writes, held, fault>>
  BY DEF IInv, TypeOK, Read, InLoop
<1>3. Len(stack') = 1 /\ stack'[1] = call
  <2>1. Len(stack) = 0
    BY <1>2, EmptySeq
  <2>2. /\ Len(Push(stack, call)) = Len(stack) + 1
        /\ Push(stack, call)[Len(stack) + 1] = call
    BY <1>1, <1>2, PushFacts
  <2> QED  BY <1>2, <2>1, <2>2
<1>4. ASSUME NEW d \in Clients PROVE Stage(d)'
  <2>1. ~Ending(d)
    BY <1>2 DEF Ending
  <2> QED  BY <1>2, <2>1 DEF IInv, Stage
<1>5. StackOK'
  BY <1>2, <1>3 DEF StackOK, Open
<1>6. Fresh' /\ FreedIsQuiet' /\ HeldAlive'
  BY <1>2 DEF IInv, Fresh, FreedIsQuiet, HeldAlive
<1> QED  BY <1>4, <1>5, <1>6 DEF IInv

LEMMA LostIInv ==
  ASSUME IInv, TypeOK', NEW c \in Clients,
         ReadOverflow(c) \/ OnDisconnect(c) \/ SendFails(c)
  PROVE  IInv'
<1>1. Open(c) /\ InApplication
  BY DEF ReadOverflow, OnDisconnect, SendFails, InLoop, InApplication
<1>2. ExceptError(c, stack) /\ UNCHANGED <<peer, object, held, fault, writes>>
  BY DEF ReadOverflow, OnDisconnect, SendFails
<1> QED  BY <1>1, <1>2, ErrorIInv

LEMMA WriteIInv ==
  ASSUME IInv, TypeOK', NEW c \in Clients,
         (\E w \in WriteOutcomes : Send(c, w)) \/ Flush(c) \/ WriteDone(c)
  PROVE  IInv'
<1>1. /\ Open(c) /\ InApplication
      /\ UNCHANGED <<peer, object, held, fault>>
  BY DEF Send, Flush, WriteDone, InLoop, InApplication
<1>2. \A d \in Clients : handle[d] = "freed" => writes'[d] = writes[d]
  <2>1. \E ws : writes' = [writes EXCEPT ![c] = ws]
    <3>1. CASE \E w \in WriteOutcomes : Send(c, w)
      BY <3>1 DEF Send
    <3>2. CASE Flush(c)
      <4>1. PICK i \in 1 .. Len(writes[c]), w \in {"flushed", "failed"} :
              writes' = [writes EXCEPT ![c][i] = w]
        BY <3>2 DEF Flush
      <4> QED  BY <4>1
    <3>3. CASE WriteDone(c)
      BY <3>3 DEF WriteDone
    <3> QED  BY <3>1, <3>2, <3>3
  <2>2. handle[c] # "freed"
    BY <1>1 DEF Open
  <2> QED  BY <2>1, <2>2 DEF IInv, TypeOK
<1>3. CASE UNCHANGED <<handle, overs, stack>>
  <2>1. Fresh'
    BY <1>1, <1>3 DEF IInv, Fresh
  <2> QED  BY <1>1, <1>2, <1>3, <2>1, QuietIInv
<1>4. CASE ExceptError(c, stack)
  BY <1>1, <1>2, <1>4, ErrorIInv
<1> QED  BY <1>3, <1>4 DEF Send, Flush, WriteDone

LEMMA CloseIInv ==
  ASSUME IInv, TypeOK', NEW c \in Clients, CloseWrite(c) \/ CloseDone(c)
  PROVE  IInv'
<1>1. /\ handle[c] = "closing" /\ stack = << >> /\ fault = NoFault
      /\ UNCHANGED <<peer, object, overs, stack, held>>
  BY DEF CloseWrite, CloseDone, InLoop
<1>2. CASE CloseWrite(c)
  <2>1. UNCHANGED handle /\ \A d \in Clients : handle[d] = "freed" => writes'[d] = writes[d]
    BY <1>1, <1>2 DEF IInv, TypeOK, CloseWrite
  <2>2. Fresh'
    BY <1>1, <2>1 DEF IInv, Fresh
  <2> QED  BY <1>1, <2>1, <2>2, QuietIInv
<1>3. CASE CloseDone(c)
  <2>1. /\ handle'[c] = "freed" /\ writes'[c] = << >>
        /\ \A d \in Clients \ {c} : handle'[d] = handle[d]
        /\ UNCHANGED <<writes, fault>>
    BY <1>3 DEF IInv, TypeOK, CloseDone
  <2>2. ASSUME NEW d \in Clients PROVE Stage(d)'
    <3>1. ~Ending(d)
      BY <1>1 DEF Ending
    <3> QED  BY <1>1, <2>1, <3>1 DEF IInv, Stage
  <2>3. StackOK'
    BY <1>1 DEF StackOK
  <2>4. Fresh' /\ FreedIsQuiet' /\ HeldAlive'
    BY <1>1, <2>1 DEF IInv, Fresh, FreedIsQuiet, HeldAlive
  <2> QED  BY <2>2, <2>3, <2>4 DEF IInv
<1> QED  BY <1>2, <1>3

LEMMA ReturnIInv ==
  ASSUME IInv, TypeOK', Return
  PROVE  IInv'
<1> DEFINE c == Top.client
<1>1. CASE DecodePacket
  <2>1. In("decode") /\ c \in Clients /\ Open(c) /\ Top.count \in 0 .. MaxBatch - 1
    BY <1>1, OnlyCall DEF DecodePacket
  <2>2. object[c] = "alive"
    BY <2>1 DEF IInv, Stage, Open
  <2> QED  BY <1>1, <2>1, <2>2, GotoIInv DEF DecodePacket
<1>2. CASE DecodeEnd
  BY <1>2, LeaveIInv DEF DecodeEnd
<1>3. CASE DecodeThrows
  <2>1. In("decode") /\ stack \in Seq(Call) /\ stack # << >> /\ Len(stack) = 1
        /\ c \in Clients /\ Open(c) /\ stack[1].at = "decode"
    BY <1>3, OnlyCall DEF DecodeThrows, In
  <2>2. Pop(stack) \in Seq(Call) /\ Len(Pop(stack)) = 0
    BY <2>1, PopFacts
  <2>3. Pop(stack) = << >>
    BY <2>2, EmptySeq
  <2>4. ExceptError(c, Pop(stack)) /\ UNCHANGED <<peer, object, held, fault, writes>>
    BY <1>3 DEF DecodeThrows
  <2>5. /\ \A i \in 1 .. Len(stack) : stack[i].at # "over"
        /\ Len(Pop(stack)) <= Len(stack)
        /\ \A i \in 1 .. Len(Pop(stack)) :
             Pop(stack)[i] = stack[i] /\ Pop(stack)[i].at # "decode"
    BY <2>1, <2>2
  <2>6. \A d \in Clients : handle[d] = "freed" => writes'[d] = writes[d]
    BY <2>4
  <2> HIDE DEF c
  <2> QED  BY <2>1, <2>2, <2>3, <2>4, <2>5, <2>6, ExceptErrorIInv
<1>4. CASE PacketReturn
  <2>1. /\ In("packet") /\ c \in Clients /\ Top.count \in 0 .. MaxBatch - 1
        /\ fault = NoFault
    BY <1>4, OnlyCall DEF PacketReturn
  <2>2. UNCHANGED <<peer, object, handle, overs, writes, held>>
    BY <1>4 DEF PacketReturn
  <2>3. CASE stack' = Pop(stack) /\ UNCHANGED fault
    BY <2>1, <2>2, <2>3, LeaveIInv
  <2>4. CASE Top.count + 1 < MaxBatch /\ object[c] = "alive"
             /\ stack' = Goto("decode", Top.count + 1) /\ UNCHANGED fault
    <3>1. Top.count + 1 \in 0 .. MaxBatch - 1
      BY <2>1, <2>4, ServerAssumption
    <3> QED  BY <2>1, <2>2, <2>4, <3>1, GotoIInv
  <2>5. CASE UNCHANGED stack
    <3>1. Fresh'
      BY <2>2 DEF IInv, Fresh
    <3> QED  BY <2>1, <2>2, <2>5, <3>1, QuietIInv
  <2> QED  BY <1>4, <2>3, <2>4, <2>5 DEF PacketReturn
<1>5. CASE OverReturn
  BY <1>5, OverReturnIInv
<1> QED  BY <1>1, <1>2, <1>3, <1>4, <1>5 DEF Return

LEMMA NextIInv == IInv /\ [Next]_vars => IInv'
<1> SUFFICES ASSUME IInv, [Next]_vars PROVE IInv'
  OBVIOUS
<1>1. TypeOK'
  BY NextTypes
<1>2. CASE Start \/ Stop \/ UNCHANGED vars
  BY <1>1, <1>2, ServerIInv
<1>3. CASE Return
  BY <1>1, <1>3, ReturnIInv
<1>4. ASSUME NEW c \in Clients,
             \/ Connect(c) \/ PeerLeaves(c) \/ OnConnection(c) \/ AcceptFails(c)
             \/ PeernameFails(c)
             \/ \E k \in 0 .. MaxPackets : Read(c, k)
             \/ ReadOverflow(c) \/ OnDisconnect(c)
             \/ \E w \in WriteOutcomes : Send(c, w)
             \/ SendFails(c) \/ Flush(c) \/ WriteDone(c) \/ CloseWrite(c) \/ CloseDone(c)
      PROVE  IInv'
  BY <1>1, <1>4, PeerIInv, ListenIInv, ReadIInv, LostIInv, WriteIInv, CloseIInv
<1> QED  BY <1>2, <1>3, <1>4 DEF Next

-----------------------------------------------------------------------------
THEOREM Invariance == Spec => []IInv
<1>1. Init => IInv
  BY InitIInv
<1>2. IInv /\ [Next]_vars => IInv'
  BY NextIInv
<1> QED  BY <1>1, <1>2, PTL DEF Spec

\* Type correctness of the server.
THEOREM TypeCorrect == Spec => []TypeOK
BY Invariance, PTL DEF IInv

\* The application never holds a pointer to a deleted Client, whatever fails and
\* from wherever it sends.
THEOREM HeldStaysAlive == Spec => []HeldAlive
BY Invariance, PTL DEF IInv

\* A Client is deleted after exactly one over callback.
THEOREM OverOnce == Spec => []OverExactlyOnce
<1>1. IInv => OverExactlyOnce
  <2> SUFFICES ASSUME IInv, NEW c \in Clients
               PROVE  /\ overs[c] <= 1
                      /\ object[c] = "alive" /\ overs[c] = 1 => Ending(c)
                      /\ object[c] = "deleted" /\ fault # [at |-> "listen", client |-> c]
                           => overs[c] = 1
    BY DEF OverExactlyOnce, Ending
  <2>1. Stage(c)
    BY DEF IInv
  <2> QED  BY <2>1 DEF Stage
<1> QED  BY <1>1, Invariance, PTL

\* Handles and Clients end together: no open handle without a Client, no Client
\* whose handle is gone, no handle freed under a write.
THEOREM HandlesFollow == Spec => []HandleFollowsClient
<1>1. IInv => HandleFollowsClient
  <2> SUFFICES ASSUME IInv, NEW c \in Clients
               PROVE  /\ Open(c) => object[c] = "alive"
                      /\ object[c] = "alive" => handle[c] \in {"open", "closing"}
                      /\ object[c] = "deleted" => handle[c] \in {"closing", "freed"}
                      /\ handle[c] = "freed" => object[c] = "deleted" /\ writes[c] = << >>
                      /\ handle[c] = "leaked" => object[c] = "none"
    BY DEF HandleFollowsClient
  <2>1. Stage(c)
    BY DEF IInv
  <2> QED  BY <2>1 DEF IInv, Stage, Open, FreedIsQuiet
<1> QED  BY <1>1, Invariance, PTL
-----------------------------------------------------------------------------
(* After the over callback *)

LEMMA ClosedIsSilent ==
  ASSUME IInv, [Next]_vars, NEW c \in Clients, overs[c] > 0
  PROVE  ready'[c] = ready[c] /\ Len(writes'[c]) <= Len(writes[c])
<1>1. ~Open(c)
  <2>1. Stage(c)
    BY DEF IInv
  <2> QED  BY <2>1 DEF Stage, Open
<1>2. /\ ready \in [Clients -> Nat] /\ writes \in [Clients -> Seq(WriteStates)]
      /\ writes[c] \in Seq(WriteStates) /\ Len(writes[c]) \in Nat
  BY DEF IInv, TypeOK
<1>3. CASE Start \/ Stop \/ UNCHANGED vars
  BY <1>2, <1>3 DEF Start, Stop, vars
<1>4. CASE Return
  <2>1. UNCHANGED writes
    BY <1>4 DEF Return, DecodePacket, DecodeEnd, DecodeThrows, PacketReturn, OverReturn
  <2>2. CASE DecodePacket
    <3>1. Top.client \in Clients /\ Open(Top.client)
      BY <2>2, OnlyCall DEF DecodePacket
    <3> QED  BY <1>1, <1>2, <2>1, <2>2, <3>1 DEF DecodePacket
  <2>3. CASE DecodeEnd \/ DecodeThrows \/ PacketReturn \/ OverReturn
    <3>1. UNCHANGED ready
      BY <2>3 DEF DecodeEnd, DecodeThrows, PacketReturn, OverReturn
    <3> QED  BY <1>2, <2>1, <3>1
  <2> QED  BY <1>4, <2>2, <2>3 DEF Return
<1>5. ASSUME NEW d \in Clients,
             \/ Connect(d) \/ PeerLeaves(d) \/ OnConnection(d) \/ AcceptFails(d)
             \/ PeernameFails(d) \/ ReadOverflow(d) \/ OnDisconnect(d)
             \/ SendFails(d) \/ CloseDone(d)
      PROVE  UNCHANGED <<ready, writes>>
  BY <1>5 DEF Connect, PeerLeaves, OnConnection, AcceptFails, PeernameFails,
     ReadOverflow, OnDisconnect, SendFails, CloseDone
<1>6. ASSUME NEW d \in Clients,
             \/ \E k \in 0 .. MaxPackets : Read(d, k)
             \/ \E w \in WriteOutcomes : Send(d, w)
             \/ Flush(d) \/ WriteDone(d)
      PROVE  ready'[c] = ready[c] /\ writes'[c] = writes[c]
  <2>1. d # c
    BY <1>1, <1>6 DEF Read, Send, Flush, WriteDone
  <2> QED  BY <1>2, <1>6, <2>1 DEF Read, Send, Flush, WriteDone
<1>7. ASSUME NEW d \in Clients, CloseWrite(d)
      PROVE  ready'[c] = ready[c] /\ Len(writes'[c]) <= Len(writes[c])
  <2>1. UNCHANGED ready /\ writes' = [writes EXCEPT ![d] = Tail(writes[d])]
        /\ writes[d] # << >>
    BY <1>7 DEF CloseWrite
  <2>2. CASE d = c
    <3>1. Len(Tail(writes[c])) = Len(writes[c]) - 1
      BY <1>2, <2>1, <2>2, HeadTailProperties
    <3> QED  BY <1>2, <2>1, <2>2, <3>1
  <2>3. CASE d # c
    BY <1>2, <2>1, <2>3
  <2> QED  BY <2>2, <2>3
<1> QED  BY <1>2, <1>3, <1>4, <1>5, <1>6, <1>7 DEF Next

\* Once its over callback has been called a Client gets no packet and takes no
\* write, from whatever callback the application tries.
THEOREM SilenceAfterOver == Spec => SilentAfterOver
<1>1. IInv /\ [Next]_vars =>
        \A c \in Clients : overs[c] > 0 => /\ ready'[c] = ready[c]
                                           /\ Len(writes'[c]) <= Len(writes[c])
  BY ClosedIsSilent
<1> QED  BY <1>1, Invariance, PTL DEF Spec, SilentAfterOver

-----------------------------------------------------------------------------
(* No use of a deleted Client while writes succeed *)

AllFlushed == \A c \in Clients : \A i \in 1 .. Len(writes[c]) : writes[c][i] = "flushed"

\* Nothing nests: a read, a packet callback or an over callback is the only call,
\* and the Client of a read is alive.
OneCall == /\ Len(stack) <= 1
           /\ \A i \in 1 .. Len(stack) :
                stack[i].at # "over" => object[stack[i].client] = "alive"

CalmInv == fault = NoFault /\ AllFlushed /\ OneCall

LEMMA OneCallPush ==
  ASSUME IInv, stack = << >>, NEW call \in Call, stack' = Push(stack, call),
         call.at # "over" => object'[call.client] = "alive"
  PROVE  OneCall'
<1>1. stack \in Seq(Call) /\ Len(stack) = 0
  BY EmptySeq DEF IInv, TypeOK
<1>2. Len(stack') = 1 /\ stack'[1] = call
  <2>1. /\ Len(Push(stack, call)) = Len(stack) + 1
        /\ Push(stack, call)[Len(stack) + 1] = call
    BY <1>1, PushFacts
  <2> QED  BY <1>1, <2>1
<1>3. \A i \in 1 .. Len(stack') : stack'[i] = call
  BY <1>2
<1>4. Len(stack') <= 1
  BY <1>2
<1> QED  BY <1>3, <1>4 DEF OneCall

LEMMA CalmReturn ==
  ASSUME IInv, CalmInv, Return
  PROVE  CalmInv'
<1> DEFINE c == Top.client
<1>1. stack \in Seq(Call) /\ stack # << >> /\ Len(stack) \in Nat \ {0} /\ Len(stack) = 1
      /\ Top = stack[1]
  <2>1. stack \in Seq(Call) /\ stack # << >>
    BY DEF IInv, TypeOK, Return, DecodePacket, DecodeEnd, DecodeThrows, PacketReturn,
       OverReturn, In
  <2>2. Len(stack) \in Nat \ {0} /\ Len(stack) <= 1
    BY <2>1, PopFacts DEF CalmInv, OneCall
  <2> QED  BY <2>1, <2>2 DEF Top
<1>2. c \in Clients /\ Top.count \in 0 .. MaxBatch - 1
  <2>1. Top \in Call
    BY <1>1
  <2> QED  BY <2>1 DEF Call
<1>3. AllFlushed'
  BY DEF CalmInv, AllFlushed, Return, DecodePacket, DecodeEnd, DecodeThrows, PacketReturn,
     OverReturn
<1>4. Top.at # "over" => object[c] = "alive"
  BY <1>1 DEF CalmInv, OneCall
<1>5. stack' = Pop(stack) => OneCall'
  <2>1. Len(Pop(stack)) = 0
    BY <1>1, PopFacts
  <2> QED  BY <2>1 DEF OneCall
<1>6. ASSUME NEW at \in {"decode", "packet"}, NEW n \in 0 .. MaxBatch - 1,
             stack' = Goto(at, n), object' = object, object[c] = "alive"
      PROVE  OneCall'
  <2>1. Len(stack') = 1 /\ stack'[1].client = c
    BY <1>1, <1>6, GotoFacts DEF IInv
  <2> QED  BY <1>6, <2>1 DEF OneCall
<1>7. CASE DecodePacket
  <2>1. object[c] = "alive"
    BY <1>4, <1>7 DEF DecodePacket, In
  <2> QED  BY <1>2, <1>3, <1>6, <1>7, <2>1 DEF CalmInv, DecodePacket
<1>8. CASE DecodeEnd \/ OverReturn
  BY <1>3, <1>5, <1>8 DEF CalmInv, DecodeEnd, OverReturn
<1>9. CASE DecodeThrows
  <2>1. Pop(stack) \in Seq(Call) /\ Len(Pop(stack)) = 0
    BY <1>1, PopFacts
  <2>2. OverCall(c) \in Call /\ OverCall(c).at = "over"
    BY <1>2, ServerAssumption DEF OverCall, Call
  <2>3. stack' = Push(Pop(stack), OverCall(c))
    BY <1>9 DEF DecodeThrows, ExceptError
  <2>4. /\ Len(Push(Pop(stack), OverCall(c))) = Len(Pop(stack)) + 1
        /\ Push(Pop(stack), OverCall(c))[Len(Pop(stack)) + 1] = OverCall(c)
    BY <2>1, <2>2, PushFacts
  <2>5. Len(stack') = 1 /\ stack'[1].at = "over"
    BY <2>1, <2>2, <2>3, <2>4
  <2> QED  BY <1>3, <1>9, <2>5 DEF CalmInv, OneCall, DecodeThrows
<1>10. CASE PacketReturn
  <2>1. object[c] = "alive"
    BY <1>4, <1>10 DEF PacketReturn, In
  <2>2. fault' = fault /\ object' = object
    BY <1>10, <2>1 DEF PacketReturn
  <2>3. OneCall'
    <3>1. CASE stack' = Pop(stack)
      BY <1>5, <3>1
    <3>2. CASE Top.count + 1 < MaxBatch /\ stack' = Goto("decode", Top.count + 1)
      <4>1. Top.count + 1 \in 0 .. MaxBatch - 1
        BY <1>2, <3>2, ServerAssumption
      <4> QED  BY <1>6, <2>1, <2>2, <3>2, <4>1
    <3> QED  BY <1>10, <2>1, <3>1, <3>2 DEF PacketReturn
  <2> QED  BY <1>3, <2>2, <2>3 DEF CalmInv
<1> QED  BY <1>7, <1>8, <1>9, <1>10 DEF Return
\* The conditions: writes always reach the kernel, peers stay until accepted.
Calm == WriteOutcomes = {"flushed"} /\ ~SyncWriteErrors /\ ~PeernameErrors

LEMMA CalmEnvironment ==
  ASSUME Calm, IInv, CalmInv, NEW c \in Clients,
         \/ Connect(c) \/ PeerLeaves(c) \/ OnConnection(c) \/ AcceptFails(c)
         \/ PeernameFails(c)
  PROVE  CalmInv'
<1>1. UNCHANGED <<fault, writes, stack>>
  BY DEF Calm, Connect, PeerLeaves, OnConnection, AcceptFails,
     PeernameFails
<1>2. \A d \in Clients : object[d] = "alive" => object'[d] = "alive"
  BY DEF Calm, IInv, TypeOK, Connect, PeerLeaves, OnConnection,
     AcceptFails, PeernameFails
<1>3. ASSUME NEW i \in 1 .. Len(stack) PROVE stack[i].client \in Clients
  <2>1. stack[i] \in Call
    BY DEF IInv, TypeOK
  <2> QED  BY <2>1 DEF Call
<1> QED  BY <1>1, <1>2, <1>3 DEF CalmInv, AllFlushed, OneCall

LEMMA CalmRead ==
  ASSUME IInv, CalmInv, NEW c \in Clients,
         \/ \E k \in 0 .. MaxPackets : Read(c, k)
         \/ ReadOverflow(c) \/ OnDisconnect(c)
  PROVE  CalmInv'
<1>1. stack = << >> /\ Open(c) /\ UNCHANGED <<fault, writes, object>>
  BY DEF Read, ReadOverflow, OnDisconnect, InLoop
<1>2. object[c] = "alive"
  BY <1>1 DEF IInv, Stage, Open
<1>3. OneCall'
  <2>1. CASE \E k \in 0 .. MaxPackets : Read(c, k)
    <3> DEFINE call == [at |-> "decode", client |-> c, count |-> 0]
    <3>1. call \in Call /\ call.client = c
      BY ServerAssumption DEF Call
    <3>2. stack' = Push(stack, call)
      BY <2>1 DEF Read
    <3> HIDE DEF call
    <3> QED  BY <1>1, <1>2, <3>1, <3>2, OneCallPush
  <2>2. CASE ReadOverflow(c) \/ OnDisconnect(c)
    <3>1. OverCall(c) \in Call /\ OverCall(c).at = "over"
      BY ServerAssumption DEF OverCall, Call
    <3>2. stack' = Push(stack, OverCall(c))
      BY <2>2 DEF ReadOverflow, OnDisconnect, ExceptError
    <3> QED  BY <1>1, <3>1, <3>2, OneCallPush
  <2> QED  BY <2>1, <2>2
<1> QED  BY <1>1, <1>3 DEF CalmInv, AllFlushed

LEMMA CalmWrite ==
  ASSUME Calm, IInv, CalmInv, NEW c \in Clients,
         \/ \E w \in WriteOutcomes : Send(c, w)
         \/ SendFails(c) \/ Flush(c) \/ WriteDone(c) \/ CloseWrite(c) \/ CloseDone(c)
  PROVE  CalmInv'
<1>1. /\ writes \in [Clients -> Seq(WriteStates)] /\ writes[c] \in Seq(WriteStates)
      /\ Len(writes[c]) \in Nat
      /\ \A i \in 1 .. Len(writes[c]) : writes[c][i] = "flushed"
  BY DEF IInv, TypeOK, CalmInv, AllFlushed
<1>2. writes[c] # << >> =>
        /\ Head(writes[c]) = "flushed"
        /\ Len(Tail(writes[c])) = Len(writes[c]) - 1
        /\ \A i \in 1 .. Len(Tail(writes[c])) : Tail(writes[c])[i] = "flushed"
  BY <1>1, HeadTailProperties, EmptySeq
<1>3. CASE \E w \in WriteOutcomes : Send(c, w)
  <2>1. Send(c, "flushed")
    BY <1>3 DEF Calm
  <2>2. \A i \in 1 .. Len(Append(writes[c], "flushed")) :
           Append(writes[c], "flushed")[i] = "flushed"
    BY <1>1, AppendProperties DEF WriteStates
  <2>3. AllFlushed'
    BY <1>1, <2>1, <2>2 DEF Send, CalmInv, AllFlushed
  <2> QED  BY <2>1, <2>3 DEF Send, CalmInv, OneCall
<1>4. CASE WriteDone(c) \/ CloseWrite(c)
  <2>1. writes' = [writes EXCEPT ![c] = Tail(writes[c])] /\ writes[c] # << >>
    BY <1>4 DEF WriteDone, CloseWrite
  <2>2. AllFlushed'
    BY <1>1, <1>2, <2>1 DEF CalmInv, AllFlushed
  <2>3. UNCHANGED <<stack, object, fault>>
    BY <1>2, <1>4, <2>1 DEF WriteDone, CloseWrite
  <2> QED  BY <2>2, <2>3 DEF CalmInv, OneCall
<1>5. CASE CloseDone(c)
  BY <1>5 DEF CloseDone, CalmInv, AllFlushed, OneCall
<1>6. CASE Flush(c)
  BY <1>1, <1>6 DEF Flush
<1> QED  BY <1>3, <1>4, <1>5, <1>6 DEF Calm, SendFails

\* While every write reaches the kernel and no peer leaves before it is accepted,
\* the server never uses a deleted Client, for any number of connections, packets
\* and outstanding writes and any order of events.
THEOREM CalmServerNeverFaults ==
  ASSUME Calm
  PROVE  Spec => []NeverFaults
<1>1. Init => CalmInv
  BY EmptySeq DEF Init, CalmInv, AllFlushed, OneCall
<1>2. IInv /\ CalmInv /\ [Next]_vars => CalmInv'
  <2> SUFFICES ASSUME IInv, CalmInv, [Next]_vars PROVE CalmInv'
    OBVIOUS
  <2>1. CASE Start \/ Stop \/ UNCHANGED vars
    <3>1. UNCHANGED <<fault, writes, stack, object>>
      BY <2>1 DEF Start, Stop, vars
    <3> QED  BY <3>1 DEF CalmInv, AllFlushed, OneCall
  <2>2. CASE Return
    BY <2>2, CalmReturn
  <2>3. ASSUME NEW c \in Clients,
               \/ Connect(c) \/ PeerLeaves(c) \/ OnConnection(c) \/ AcceptFails(c)
               \/ PeernameFails(c)
               \/ \E k \in 0 .. MaxPackets : Read(c, k)
               \/ ReadOverflow(c) \/ OnDisconnect(c)
               \/ \E w \in WriteOutcomes : Send(c, w)
               \/ SendFails(c) \/ Flush(c) \/ WriteDone(c) \/ CloseWrite(c) \/ CloseDone(c)
        PROVE  CalmInv'
    BY <2>3, CalmEnvironment, CalmRead, CalmWrite
  <2> QED  BY <2>1, <2>2, <2>3 DEF Next
<1>3. CalmInv => NeverFaults
  BY DEF CalmInv, NeverFaults
<1> QED  BY <1>1, <1>2, <1>3, Invariance, PTL DEF Spec
=============================================================================
