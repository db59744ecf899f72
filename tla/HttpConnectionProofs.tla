------------------------ MODULE HttpConnectionProofs ------------------------
(***************************************************************************)
(* For every set of requests and every bound: the handler is called once,  *)
(* nothing harms a response after that, and the connection implements the  *)
(* exchange; the parser keeps to the grammar of requests, so that none is  *)
(* given up or left behind without cause; the headers that the handler     *)
(* sees are those of the request, however reads cut it, and so are a URL   *)
(* and a body that no read cut; and what a handler makes of its response.  *)
(***************************************************************************)
EXTENDS HttpConnection, HttpResponse, FiniteSetTheorems, SequenceTheorems, TLAPS

\* A connection before its handler is called, and after.
Before == /\ handled = 0
          /\ pc # "handler" /\ errno # "complete"
          /\ ends = 0 /\ writes = << >>
          /\ conn \in {"none", "alive"} /\ handle # "closing"

After == /\ handled = 1
         /\ fault \notin {"url", "null"}
         /\ \/ pc = "handler" /\ conn = "alive"
            \/ pc = "loop" /\ errno = "complete" /\ conn \in {"alive", "deleted"}

\* The socket and the parser belong to a context that lives.
Owned == /\ pc = "parse" => conn = "alive"
         /\ reading => conn = "alive"
         /\ handle = "open" => conn = "alive"

\* The release takes the callback of one write; a second one is due after it only
\* if there was a second answer.
Answered == /\ ends \in Nat
            /\ writes \in Seq(WriteStates)
            /\ Len(writes) <= ends
            /\ handle = "closing" => Len(writes) < ends
            /\ fault = "response" => ends >= 2
            /\ fault = "bytes" => writes # << >> /\ writes[1] = "queued"

IInv == /\ Before \/ After
        /\ Owned
        /\ Answered
        /\ pc \in {"loop", "parse", "handler"}
        /\ fault \in {"none", "url", "null", "bytes", "response"}

LEMMA InitIInv == Init => IInv
  BY DEF Init, IInv, Before, After, Owned, Answered

-----------------------------------------------------------------------------
(* The parser *)

\* A step of the parser that calls no handler: it goes on, or goes back to the
\* loop, and the one thing that can go wrong is a URL.
ParserStep == /\ pc = "parse" /\ fault = "none"
              /\ pc' \in {"parse", "loop"}
              /\ errno' \in {errno, "syntax"}
              /\ fault' \in {fault, "url"}
              /\ UNCHANGED <<handled, life>>

LEMMA ParserStepIInv == IInv /\ ParserStep => IInv'
  BY DEF ParserStep, IInv, Before, After, Owned, Answered, life

LEMMA ParseCases ==
  ASSUME Parse
  PROVE  ParserStep \/ MessageComplete \/ HandlerReturn
<1>1. CASE NextByte
  BY <1>1 DEF NextByte, Parsing, ParserStep
<1>2. CASE UrlEnd
  BY <1>2 DEF UrlEnd, Url, ByteIn, Parsing, ParserStep
<1>3. CASE NameEnd
  BY <1>3 DEF NameEnd, ByteIn, Parsing, ParserStep
<1>4. CASE ValueEnd
  BY <1>4 DEF ValueEnd, ByteIn, Parsing, ParserStep
<1>5. CASE HeaderEnd
  BY <1>5 DEF HeaderEnd, Parsing, ParserStep
<1>6. CASE EmptyValue
  BY <1>6 DEF EmptyValue, Parsing, ParserStep
<1>7. CASE HeadersComplete
  BY <1>7 DEF HeadersComplete, ByteIn, Parsing, ParserStep
<1>8. CASE BodyEnd
  BY <1>8 DEF BodyEnd, ByteIn, Parsing, ParserStep
<1>9. CASE ChunkEnd
  BY <1>9 DEF ChunkEnd, ByteIn, Parsing, ParserStep
<1>10. CASE LastChunk
  BY <1>10 DEF LastChunk, ByteIn, Parsing, ParserStep
<1>11. CASE TrailersComplete
  BY <1>11 DEF TrailersComplete, ByteIn, Parsing, ParserStep
<1>12. CASE Refuse
  BY <1>12 DEF Refuse, Parsing, ParserStep
<1>13. CASE ReadEnd
  BY <1>13 DEF ReadEnd, Url, ParserStep
<1> QED
  BY <1>1, <1>2, <1>3, <1>4, <1>5, <1>6, <1>7, <1>8, <1>9, <1>10, <1>11, <1>12, <1>13
     DEF Parse

-----------------------------------------------------------------------------
LEMMA NextIInv == IInv /\ [Next]_vars => IInv'
<1> SUFFICES ASSUME IInv, [Next]_vars PROVE IInv'
  OBVIOUS
<1> USE DEF IInv, Before, After, Owned, Answered
<1>1. CASE ParserStep
  BY <1>1, ParserStepIInv
<1>2. CASE MessageComplete
  BY <1>2 DEF MessageComplete, Parsing, life
<1>3. CASE HandlerReturn
  BY <1>3 DEF HandlerReturn, life
<1>4. CASE Accept
  BY <1>4 DEF Accept, InLoop
<1>5. CASE \E n \in 1 .. Len(stream) : Read(n)
  BY <1>5 DEF Read, InLoop, life
<1>6. CASE ReadZero
  BY <1>6 DEF ReadZero, InLoop, life
<1>7. CASE Disconnect
  BY <1>7 DEF Disconnect, InLoop
<1>8. ASSUME NEW w \in WriteOutcomes, End(w) PROVE IInv'
  <2>1. w \in WriteStates /\ writes \in Seq(WriteStates)
    BY HttpAssumption
  <2>2. /\ Append(writes, w) \in Seq(WriteStates)
        /\ Len(Append(writes, w)) = Len(writes) + 1
        /\ writes # << >> => Append(writes, w)[1] = writes[1]
    BY <2>1
  <2>3. Answered'
    BY <1>8, <2>1, <2>2 DEF End
  <2> QED  BY <1>8, <2>3 DEF End
<1>9. CASE LateWrite
  <2>1. writes \in Seq(WriteStates) /\ writes # << >> /\ Head(writes) = writes[1]
    BY <1>9 DEF LateWrite
  <2>2. CASE fault' = "bytes" /\ UNCHANGED writes
    BY <1>9, <2>1, <2>2 DEF LateWrite, InLoop
  <2>3. CASE writes' = [writes EXCEPT ![1] = "failed"] /\ UNCHANGED fault
    <3>1. writes' \in Seq(WriteStates) /\ Len(writes') = Len(writes)
      BY <2>1, <2>3 DEF WriteStates
    <3> QED  BY <1>9, <2>1, <2>3, <3>1 DEF LateWrite, InLoop
  <2> QED  BY <1>9, <2>2, <2>3 DEF LateWrite
<1>10. CASE WriteDone
  <2>1. writes' \in Seq(WriteStates) /\ Len(writes') = Len(writes) - 1
    BY <1>10 DEF WriteDone
  <2> QED  BY <1>10, <2>1 DEF WriteDone, InLoop
<1>11. CASE CloseWrite
  <2>1. Len(writes) >= 1
    BY <1>11 DEF CloseWrite
  <2> QED  BY <1>11, <2>1 DEF CloseWrite, InLoop, life
<1>12. CASE CloseDone
  BY <1>12 DEF CloseDone, InLoop
<1>13. CASE UNCHANGED vars
  BY <1>13 DEF vars, life
<1> QED
  BY <1>1, <1>2, <1>3, <1>4, <1>5, <1>6, <1>7, <1>8, <1>9, <1>10, <1>11, <1>12, <1>13,
     ParseCases DEF Next

\* The inductive invariant holds.
THEOREM Invariance == Spec => []IInv
  BY InitIInv, NextIInv, PTL DEF Spec

\* Once the handler has been called, nothing the peer does harms a response that is
\* ended once and taken by the socket at once (SafeOnceHandled).
THEOREM HandledIsSafe == Spec => []SafeOnceHandled
<1>1. IInv => SafeOnceHandled
  BY DEF IInv, Before, After, Answered, SafeOnceHandled
<1> QED  BY <1>1, Invariance, PTL

-----------------------------------------------------------------------------
LEMMA InitExchange == Init => Exchange!Init
  BY DEF Init, Exchange!Init, Phase

LEMMA StepExchange == IInv /\ [Next]_vars => [Exchange!Next]_Exchange!vars
<1> SUFFICES ASSUME IInv, [Next]_vars PROVE [Exchange!Next]_Exchange!vars
  OBVIOUS
<1> USE DEF IInv, Before, After, Owned, Answered
<1>1. UNCHANGED <<conn, handled, ends>> => UNCHANGED Exchange!vars
  BY DEF Exchange!vars, Phase
<1>2. CASE MessageComplete
  <2>1. conn = "alive" /\ handled = 0 /\ handled' = 1 /\ UNCHANGED <<conn, ends>>
    BY <1>2 DEF MessageComplete, Parsing, life
  <2>2. Phase = "open" /\ Phase' = "handled"
    BY <2>1 DEF Phase
  <2> QED  BY <2>1, <2>2 DEF Exchange!Next, Exchange!Handle
<1>3. CASE Accept
  <2>1. conn = "none" /\ conn' = "alive" /\ handled = 0 /\ UNCHANGED <<handled, ends>>
    BY <1>3 DEF Accept
  <2>2. Phase = "none" /\ Phase' = "open"
    BY <2>1 DEF Phase
  <2> QED  BY <2>1, <2>2 DEF Exchange!Next, Exchange!Accept
<1>4. CASE \E w \in WriteOutcomes : End(w)
  <2>1. conn = "alive" /\ handled = 1 /\ ends' = ends + 1 /\ UNCHANGED <<conn, handled>>
    BY <1>4 DEF End
  <2>2. Phase = "handled" /\ Phase' = "handled"
    BY <2>1 DEF Phase
  <2> QED  BY <2>1, <2>2 DEF Exchange!Next, Exchange!Answer
<1>5. CASE WriteDone
  <2>1. conn = "alive" /\ conn' = "deleted" /\ handled = 1 /\ ends > 0
        /\ UNCHANGED <<handled, ends>>
    <3>1. Len(writes) >= 1
      BY <1>5 DEF WriteDone
    <3> QED  BY <1>5, <3>1 DEF WriteDone
  <2>2. Phase = "handled" /\ Phase' = "released"
    BY <2>1 DEF Phase
  <2> QED  BY <2>1, <2>2 DEF Exchange!Next, Exchange!Release
<1>6. CASE UNCHANGED <<conn, handled, ends>>
  BY <1>1, <1>6
<1>7. ParserStep \/ HandlerReturn \/ (\E n \in 1 .. Len(stream) : Read(n)) \/ ReadZero
        \/ Disconnect \/ LateWrite \/ CloseWrite \/ CloseDone \/ UNCHANGED vars
      => UNCHANGED <<conn, handled, ends>>
  BY DEF ParserStep, HandlerReturn, Read, ReadZero, Disconnect, LateWrite, CloseWrite,
         CloseDone, vars, life
<1> QED
  BY <1>2, <1>3, <1>4, <1>5, <1>6, <1>7, ParseCases DEF Next

\* The handler is called once at most and the connection released after an answer
\* only: the connection implements the exchange (ImplementsExchange).
THEOREM ConnectionIsExchange == Spec => ImplementsExchange
  BY InitExchange, StepExchange, Invariance, PTL DEF Spec, ImplementsExchange, Exchange!Spec

-----------------------------------------------------------------------------
(* Types *)

Texts == Seq(Nat)

\* A request, and the header line that is being put together.
Req == [url : Texts, headers : SUBSET (Texts \X Texts), body : Texts,
        field : Texts, value : Texts, wasValue : BOOLEAN]

\* The parser is within the bytes that were read, and a mark within those it has seen.
Typed == /\ stream \in Requests /\ cuts \subseteq 1 .. Len(stream)
         /\ end \in 0 .. Len(stream)
         /\ pos \in 1 .. end + 1
         /\ mark \in 0 .. Len(stream)
         /\ st \in ParserStates /\ trailing \in BOOLEAN
         /\ errno \in {"ok", "syntax", "eof", "complete"}
         /\ req \in Req
         /\ ends \in 0 .. MaxEnds
         /\ handle \in {"none", "open", "closing", "freed"} /\ reading \in BOOLEAN
         /\ writes \in Seq(WriteStates \ {"refused"})

\* A piece of the stream is a text.
LEMMA PieceIsText ==
  ASSUME NEW first \in Nat, NEW past \in Nat
  PROVE  Piece(first, past) \in Texts
<1>1. CASE past <= first
  <2>1. Piece(first, past) = << >>
    BY <1>1 DEF Piece
  <2> QED  BY <2>1 DEF Texts
<1>2. CASE ~(past <= first)
  <2>1. past - first \in Nat /\ \A i \in 1 .. past - first : first + i - 1 \in Nat
    BY <1>2
  <2> QED  BY <2>1 DEF Piece, Texts
<1> QED  BY <1>1, <1>2

LEMMA StoreIsReq ==
  ASSUME NEW r \in Req
  PROVE  Store(r) \in Req
<1>1. {h \in r.headers : h[1] # r.field} \cup {<<r.field, r.value>>} \in SUBSET (Texts \X Texts)
  BY DEF Req
<1> HIDE DEF Texts
<1> QED  BY <1>1 DEF Store, Req

\* The callbacks make a request of a request and a text.
LEMMA CallbacksAreReq ==
  ASSUME NEW r \in Req, NEW text \in Texts
  PROVE  /\ OnUrl(r, text) \in Req /\ OnBody(r, text) \in Req
         /\ OnHeaderField(r, text) \in Req /\ OnHeaderValue(r, text) \in Req
         /\ OnHeadersComplete(r) \in Req
<1> << >> \in Texts /\ \A t1, t2 \in Texts : t1 \o t2 \in Texts
  BY DEF Texts
<1> HIDE DEF Texts
<1>1. OnUrl(r, text) \in Req /\ OnBody(r, text) \in Req
  BY DEF OnUrl, OnBody, Req
<1>2. OnHeaderValue(r, text) \in Req
  <2>1. r.value \o text \in Texts
    BY DEF Req
  <2> QED  BY <2>1 DEF OnHeaderValue, Req
<1>3. OnHeadersComplete(r) \in Req
  BY StoreIsReq DEF OnHeadersComplete
<1>4. OnHeaderField(r, text) \in Req
  <2>1. CASE ~r.wasValue
    <3>1. r.field \o text \in Texts
      BY DEF Req
    <3> QED  BY <2>1, <3>1 DEF OnHeaderField, Req
  <2>2. CASE r.wasValue
    <3> DEFINE q == IF r.field # << >> THEN [Store(r) EXCEPT !.value = << >>] ELSE r
    <3>1. q \in Req
      <4>1. [Store(r) EXCEPT !.value = << >>] \in Req
        BY StoreIsReq DEF Req
      <4> QED  BY <4>1
    <3> HIDE DEF q
    <3>2. [q EXCEPT !.field = text, !.wasValue = FALSE] \in Req
      BY <3>1 DEF Req
    <3> QED  BY <2>2, <3>2 DEF OnHeaderField, q
  <2> QED  BY <2>1, <2>2
<1> QED  BY <1>1, <1>2, <1>3, <1>4

LEMMA InitTyped == Init => Typed
<1> SUFFICES ASSUME Init PROVE Typed
  OBVIOUS
<1>1. stream \in Seq(Kinds) /\ Len(stream) \in Nat
  BY HttpAssumption DEF Init
<1>2. NewRequest \in Req
  BY DEF NewRequest, Req, Texts
<1>3. << >> \in Seq(WriteStates \ {"refused"}) /\ 0 \in 0 .. MaxEnds
  BY HttpAssumption
<1>4. "start" \in ParserStates
  BY DEF ParserStates
<1>5. end = 0 /\ pos = 1 /\ mark = 0 /\ cuts = {} /\ st = "start" /\ req = NewRequest
      /\ ends = 0 /\ writes = << >> /\ stream \in Requests
  BY DEF Init
<1>6. trailing \in BOOLEAN /\ errno = "ok" /\ handle = "none" /\ reading \in BOOLEAN
  BY DEF Init
<1>7. end \in 0 .. Len(stream) /\ pos \in 1 .. end + 1 /\ mark \in 0 .. Len(stream)
  BY <1>1, <1>5
<1> QED  BY <1>2, <1>3, <1>4, <1>5, <1>6, <1>7 DEF Typed

\* Texts that the parser hands over.
LEMMA TextsAtHand ==
  ASSUME Typed
  PROVE  /\ Len(stream) \in Nat /\ pos \in Nat /\ end \in Nat
         /\ \A from \in {mark, pos} : \A past \in {pos, pos + 1} :
              /\ Piece(from, past) \in Texts
              /\ OnUrl(req, Piece(from, past)) \in Req /\ OnBody(req, Piece(from, past)) \in Req
              /\ OnHeaderField(req, Piece(from, past)) \in Req
              /\ OnHeaderValue(req, Piece(from, past)) \in Req
         /\ OnHeaderValue(req, << >>) \in Req /\ OnHeadersComplete(req) \in Req
<1>1. stream \in Seq(Kinds) /\ Len(stream) \in Nat
  BY HttpAssumption DEF Typed
<1>2. pos \in Nat /\ end \in Nat /\ mark \in Nat /\ req \in Req
  BY <1>1 DEF Typed
<1>3. \A from \in {mark, pos} : \A past \in {pos, pos + 1} : Piece(from, past) \in Texts
  BY <1>2, PieceIsText
<1>4. << >> \in Texts
  BY DEF Texts
<1> QED  BY <1>1, <1>2, <1>3, <1>4, CallbacksAreReq

\* A step of the parser keeps the types if it goes on by a byte at most, to one of its
\* states, and makes a request of the request.
ParserKeeps == /\ pos' \in {pos, pos + 1} /\ pos' <= end + 1
               /\ mark' \in 0 .. Len(stream) /\ st' \in ParserStates
               /\ trailing' \in BOOLEAN /\ errno' \in {"ok", "syntax", "eof", "complete"}
               /\ req' \in Req /\ UNCHANGED <<input, life>>

LEMMA ParserKeepsTyped == Typed /\ ParserKeeps => Typed'
<1> SUFFICES ASSUME Typed, ParserKeeps PROVE Typed'
  OBVIOUS
<1>1. UNCHANGED <<stream, cuts, end, ends, handle, reading, writes>>
  BY DEF ParserKeeps, input, life
<1>2. pos' \in 1 .. end + 1
  BY TextsAtHand DEF Typed, ParserKeeps
<1> QED  BY <1>1, <1>2 DEF Typed, ParserKeeps

\* The steps of the parser make such steps.
LEMMA ParseTyped ==
  ASSUME Typed, Parse
  PROVE  Typed'
<1>1. /\ Len(stream) \in Nat /\ pos \in Nat /\ end \in Nat /\ pos <= end + 1 /\ end <= Len(stream)
      /\ mark \in 0 .. Len(stream) /\ 0 \in 0 .. Len(stream) /\ st \in ParserStates
      /\ trailing \in BOOLEAN /\ errno \in {"ok", "syntax", "eof", "complete"} /\ req \in Req
  BY TextsAtHand DEF Typed
<1>2. Parsing => pos \in 0 .. Len(stream) /\ pos + 1 <= end + 1
  BY <1>1 DEF Parsing
<1>3. {"start", "method", "url", "line", "field_start", "field", "discard_ws", "discard_lws",
       "value", "value_lws", "body", "chunk_size", "chunk_line", "last_chunk", "chunk_data",
       "message_done"} = ParserStates
  BY DEF ParserStates
<1>4. CASE NextByte
  <2>1. PICK step \in Silent : st' = step[3] /\ mark' \in {From, 0}
    BY <1>4 DEF NextByte
  <2>2. step[3] \in ParserStates
    BY <2>1, <1>3 DEF Silent, RequestLine, HeaderName, HeaderValue, Chunks
  <2>3. Parsing /\ pos' = pos + 1 /\ UNCHANGED <<input, trailing, errno, req, life>>
    BY <1>4 DEF NextByte
  <2>4. mark' \in 0 .. Len(stream)
    BY <1>1, <1>2, <2>1, <2>3 DEF From
  <2> QED  BY <1>1, <1>2, <2>1, <2>2, <2>3, <2>4, ParserKeepsTyped DEF ParserKeeps
<1>5. CASE UrlEnd
  BY <1>1, <1>2, <1>3, <1>5, TextsAtHand, ParserKeepsTyped
     DEF UrlEnd, ByteIn, Url, Consume, ParserKeeps
<1>6. CASE NameEnd
  BY <1>1, <1>2, <1>3, <1>6, TextsAtHand, ParserKeepsTyped
     DEF NameEnd, ByteIn, Consume, ParserKeeps
<1>7. CASE ValueEnd
  BY <1>1, <1>2, <1>3, <1>7, TextsAtHand, ParserKeepsTyped
     DEF ValueEnd, ByteIn, Consume, ParserKeeps
<1>8. CASE HeaderEnd
  BY <1>1, <1>2, <1>3, <1>8, ParserKeepsTyped DEF HeaderEnd, Reexecute, ParserKeeps
<1>9. CASE EmptyValue
  BY <1>1, <1>2, <1>3, <1>9, TextsAtHand, ParserKeepsTyped
     DEF EmptyValue, Reexecute, ParserKeeps
<1>10. CASE HeadersComplete
  BY <1>1, <1>2, <1>3, <1>10, TextsAtHand, ParserKeepsTyped
     DEF HeadersComplete, ByteIn, Consume, Reexecute, ParserKeeps
<1>11. CASE BodyEnd
  BY <1>1, <1>2, <1>3, <1>11, TextsAtHand, ParserKeepsTyped
     DEF BodyEnd, ByteIn, From, Reexecute, ParserKeeps
<1>12. CASE ChunkEnd
  BY <1>1, <1>2, <1>3, <1>12, TextsAtHand, ParserKeepsTyped
     DEF ChunkEnd, ByteIn, Consume, ParserKeeps
<1>13. CASE LastChunk
  BY <1>1, <1>2, <1>3, <1>13, ParserKeepsTyped DEF LastChunk, ByteIn, Consume, ParserKeeps
<1>14. CASE TrailersComplete
  BY <1>1, <1>2, <1>3, <1>14, ParserKeepsTyped
     DEF TrailersComplete, ByteIn, Reexecute, ParserKeeps
<1>15. CASE MessageComplete
  BY <1>1, <1>15, ParserKeepsTyped DEF MessageComplete, ParserKeeps
<1>16. CASE HandlerReturn
  BY <1>1, <1>16, ParserKeepsTyped DEF HandlerReturn, ParserKeeps
<1>17. CASE Refuse
  BY <1>1, <1>17, ParserKeepsTyped DEF Refuse, ParserKeeps
<1>18. CASE ReadEnd
  <2>1. req' \in Req
    BY <1>1, <1>18, TextsAtHand DEF ReadEnd, Url
  <2> QED  BY <1>1, <1>18, <2>1, ParserKeepsTyped DEF ReadEnd, ParserKeeps
<1> QED
  BY <1>4, <1>5, <1>6, <1>7, <1>8, <1>9, <1>10, <1>11, <1>12, <1>13, <1>14, <1>15, <1>16,
     <1>17, <1>18 DEF Parse

LEMMA NextTyped == IInv /\ Typed /\ [Next]_vars => Typed'
<1> SUFFICES ASSUME IInv, Typed, [Next]_vars PROVE Typed'
  OBVIOUS
<1>1. /\ Len(stream) \in Nat /\ pos \in Nat /\ end \in Nat /\ pos <= end + 1 /\ end <= Len(stream)
      /\ MaxEnds \in Nat
  BY TextsAtHand, HttpAssumption DEF Typed
<1>2. CASE Parse
  BY <1>2, ParseTyped
<1>3. CASE Accept \/ ReadZero \/ Disconnect
  BY <1>3 DEF Accept, ReadZero, Disconnect, Typed, input, life
<1>4. ASSUME NEW n \in 1 .. Len(stream), Read(n) PROVE Typed'
  <2>1. n \in 1 .. Len(stream) - end /\ end' = end + n /\ cuts' = cuts \cup {end + n}
        /\ mark' \in {mark, pos, 0} /\ UNCHANGED <<stream, pos, st, trailing, errno, req, life>>
    BY <1>4 DEF Read
  <2>2. end' \in 0 .. Len(stream) /\ pos \in 1 .. end' + 1 /\ cuts' \subseteq 1 .. Len(stream)
        /\ mark' \in 0 .. Len(stream)
    BY <1>1, <2>1 DEF Typed
  <2> QED  BY <2>1, <2>2 DEF Typed, life
<1>5. ASSUME NEW w \in WriteOutcomes, End(w) PROVE Typed'
  <2>1. ends' \in 0 .. MaxEnds
    BY <1>1, <1>5 DEF End, Typed
  <2>2. writes' \in Seq(WriteStates \ {"refused"})
    <3>1. w \in WriteStates
      BY HttpAssumption
    <3>2. CASE w = "refused"
      BY <1>5, <3>2 DEF End, Typed
    <3>3. CASE w # "refused"
      <4>1. writes' = Append(writes, w)
        BY <1>5, <3>3 DEF End
      <4> HIDE DEF WriteStates
      <4> QED  BY <3>1, <3>3, <4>1 DEF Typed
    <3> QED  BY <3>2, <3>3
  <2> QED  BY <1>5, <2>1, <2>2 DEF End, Typed, input
<1>6. CASE LateWrite
  <2>1. writes' \in Seq(WriteStates \ {"refused"})
    <3> DEFINE S == WriteStates \ {"refused"}
    <3>1. "failed" \in S
      BY DEF WriteStates
    <3> HIDE DEF S
    <3>2. writes \in Seq(S)
      BY DEF S, Typed
    <3>3. writes' \in {writes, [writes EXCEPT ![1] = "failed"]}
      BY <1>6 DEF LateWrite
    <3>4. writes' \in Seq(S)
      BY <3>1, <3>2, <3>3
    <3> QED  BY <3>4 DEF S
  <2> QED  BY <1>6, <2>1 DEF LateWrite, Typed, input
<1>7. CASE WriteDone
  <2>1. writes' \in Seq(WriteStates \ {"refused"})
    BY <1>7 DEF WriteDone, Typed
  <2> QED  BY <1>7, <2>1 DEF WriteDone, Typed, input
<1>8. CASE CloseWrite \/ CloseDone \/ UNCHANGED vars
  BY <1>8 DEF CloseWrite, CloseDone, Typed, input, life, vars
<1> QED  BY <1>2, <1>3, <1>4, <1>5, <1>6, <1>7, <1>8 DEF Next

THEOREM AlwaysTyped == Spec => []Typed
  BY InitTyped, NextTyped, Invariance, PTL DEF Spec

\* Every variable has its type in every reachable state (TypeOK).
THEOREM TypeCorrect == Spec => []TypeOK
<1>1. IInv /\ Typed => TypeOK
  <2> SUFFICES ASSUME IInv, Typed PROVE TypeOK
    OBVIOUS
  <2>1. /\ Len(stream) \in Nat /\ pos \in 1 .. Len(stream) + 1
    BY TextsAtHand DEF Typed
  <2>2. /\ DOMAIN req = DOMAIN [url |-> 0, headers |-> 0, body |-> 0,
                                field |-> 0, value |-> 0, wasValue |-> 0]
        /\ {req.url, req.body, req.field, req.value} \subseteq Seq(Nat)
        /\ \A h \in req.headers : h[1] \in Seq(Nat) /\ h[2] \in Seq(Nat)
        /\ req.wasValue \in BOOLEAN
    <3> HIDE DEF Texts
    <3>1. req \in Req
      BY DEF Typed
    <3>2. DOMAIN req = DOMAIN [url |-> 0, headers |-> 0, body |-> 0,
                               field |-> 0, value |-> 0, wasValue |-> 0]
      BY <3>1 DEF Req
    <3>3. /\ req.url \in Texts /\ req.body \in Texts /\ req.field \in Texts /\ req.value \in Texts
          /\ req.headers \subseteq Texts \X Texts /\ req.wasValue \in BOOLEAN
      BY <3>1 DEF Req
    <3>4. \A h \in Texts \X Texts : h[1] \in Texts /\ h[2] \in Texts
      OBVIOUS
    <3> QED  BY <3>2, <3>3, <3>4 DEF Texts
  <2>3. /\ pc \in {"loop", "parse", "handler"} /\ handled \in 0 .. 1
        /\ conn \in {"none", "alive", "deleted"}
        /\ fault \in {"none", "url", "null", "bytes", "response"}
    BY DEF IInv, Before, After
  <2> QED  BY <2>1, <2>2, <2>3 DEF Typed, TypeOK
<1> QED  BY <1>1, Invariance, AlwaysTyped, PTL

-----------------------------------------------------------------------------
(* Where the parser is, by the bytes it has come past *)

\* In each state but the first, the last byte p and the one before it, q.
Came(s, at, state) ==
  LET p == s[at - 1]
      q == s[at - 2]
  IN  /\ state = "start" => at = 1
      /\ state = "method" => p = "method"
      /\ state = "url" => p \in {"slash", "char"}
      /\ state = "line" => p = "line"
      /\ state = "field_start" =>
           /\ p = "eol"
           /\ \/ q \in {"slash", "char", "line", "last"}
              \/ q \in {"colon", "value", "sp"} /\ s[at] # "sp"
      /\ state = "field" => p = "field"
      /\ state = "discard_ws" => p \in {"colon", "sp"}
      /\ state = "discard_lws" => p = "eol" /\ q \in {"colon", "sp"}
      /\ state = "value" => p \in {"value", "sp"}
      /\ state = "value_lws" => p = "eol" /\ q \in {"value", "sp"}
      /\ state = "body" =>
           ~Chunked(s) /\ HasBody(s) /\ (p = "body" \/ (p = "eol" /\ q = "eol"))
      /\ state = "chunk_size" =>
           Chunked(s) /\ p = "eol" /\ (q = "body" \/ (q = "eol" /\ ~InTrailer(s, at - 1)))
      /\ state = "chunk_line" => Chunked(s) /\ p = "size"
      /\ state = "chunk_data" => Chunked(s) /\ (p = "body" \/ (p = "eol" /\ q = "size"))
      /\ state = "last_chunk" => p = "last"
      /\ state = "message_done" => at = Ends(s)

\* Until the handler is called, the parser is within the request.
Within == /\ pos \in 1 .. Ends(stream)
          /\ \A k \in 1 .. pos - 1 : stream[k] # "bad"
          /\ st # "start" => 1 < pos
          /\ Came(stream, pos, st)
          /\ st = "last_chunk" \/ (trailing <=> InTrailer(stream, pos - 1))

\* It stops for a reason, and a read that ends has handed over all its bytes.
Stopped == /\ errno = "syntax" => stream[pos] = "bad"
           /\ errno = "eof" => st # "start"
           /\ pc # "loop" => errno = "ok"
           /\ pc = "loop" /\ errno = "ok" => pos = end + 1
           /\ handled > 0 => errno \in {"ok", "complete"}
           /\ ~ZeroReads => errno # "eof"

Synced == (handled = 0 => Within) /\ Stopped

\* The streams are requests.
Grammatical == \A s \in Requests : IsRequest(s)

LEMMA StreamIsRequest ==
  ASSUME Grammatical, Typed
  PROVE  /\ IsRequest(stream) /\ Len(stream) \in Nat /\ DOMAIN stream = 1 .. Len(stream)
         /\ Ends(stream) \in Nat /\ 1 <= Ends(stream) /\ Ends(stream) <= Len(stream)
<1>1. stream \in Seq(Kinds) /\ Len(stream) \in Nat /\ DOMAIN stream = 1 .. Len(stream)
  BY HttpAssumption DEF Typed
<1>2. IsRequest(stream)
  BY DEF Grammatical, Typed
<1>3. Ends(stream) \in Nat /\ Ends(stream) <= Len(stream)
  <2> DEFINE P == {i \in DOMAIN stream : stream[i] # "next"}
  <2>1. IsFiniteSet(1 .. Len(stream)) /\ Cardinality(1 .. Len(stream)) = Len(stream)
    <3>1. /\ IsFiniteSet(1 .. Len(stream))
          /\ Cardinality(1 .. Len(stream)) = IF 1 > Len(stream) THEN 0 ELSE Len(stream) - 1 + 1
      BY <1>1, FS_Interval
    <3> QED  BY <1>1, <3>1
  <2>2. P \subseteq 1 .. Len(stream)
    BY <1>1
  <2>3. Cardinality(P) \in Nat /\ Cardinality(P) <= Cardinality(1 .. Len(stream))
    BY <2>1, <2>2, FS_Subset, FS_CardinalityType
  <2> QED  BY <2>1, <2>3 DEF Ends
<1>4. 1 <= Ends(stream)
  <2>1. 1 \in DOMAIN stream /\ stream[1] # "next"
    BY <1>2 DEF IsRequest
  <2> QED  BY <1>2, <2>1 DEF IsRequest
<1> QED  BY <1>1, <1>2, <1>3, <1>4

LEMMA TrailerGoesOn ==
  ASSUME NEW s, NEW i \in Nat, 1 <= i
  PROVE  InTrailer(s, i) <=> InTrailer(s, i - 1) \/ s[i] = "last"
  BY DEF InTrailer

\* A byte that something may follow is not the last of the request.
LEMMA NotLast ==
  ASSUME Grammatical, Typed, Within, stream[pos] # "bad", Follow(stream, pos) # {},
         stream[pos] = "body" => Chunked(stream) \/ pos # Ends(stream)
  PROVE  pos + 1 \in 1 .. Ends(stream) /\ \A k \in 1 .. pos : stream[k] # "bad"
<1>1. /\ IsRequest(stream) /\ Len(stream) \in Nat /\ DOMAIN stream = 1 .. Len(stream)
      /\ Ends(stream) \in Nat /\ pos \in 1 .. Ends(stream)
  BY StreamIsRequest DEF Within
<1>2. \A k \in 1 .. pos : stream[k] # "bad"
  BY <1>1 DEF Within
<1>3. pos # Ends(stream)
  <2> SUFFICES ASSUME pos = Ends(stream) PROVE FALSE
    OBVIOUS
  <2>1. \A i \in DOMAIN stream : i \in 1 .. pos \/ stream[i] = "next"
    BY <1>1 DEF IsRequest
  <2>2. WellFormed(stream)
    BY <1>2, <2>1 DEF WellFormed
  <2> QED  BY <1>1, <2>2 DEF IsRequest
<1> QED  BY <1>1, <1>2, <1>3

\* The byte after those that the parser has come past.
LEMMA Follows ==
  ASSUME Grammatical, Typed, Within, 1 < pos
  PROVE  \E b \in Follow(stream, pos - 1) : stream[pos] \in {b, "bad"}
<1>1. /\ IsRequest(stream) /\ Ends(stream) \in Nat /\ pos \in 1 .. Ends(stream)
      /\ \A k \in 1 .. pos - 1 : stream[k] # "bad"
  BY StreamIsRequest DEF Within
<1>2. pos - 1 \in 1 .. Ends(stream) - 1 /\ (pos - 1) + 1 = pos
  BY <1>1
<1> QED  BY <1>1, <1>2 DEF IsRequest

-----------------------------------------------------------------------------
\* The parser consumes a byte and goes on within the request.
LEMMA ConsumedWithin ==
  ASSUME Grammatical, Typed, Within, UNCHANGED stream, pos' = pos + 1,
         stream[pos] # "bad", Follow(stream, pos) # {},
         stream[pos] = "body" => Chunked(stream) \/ pos # Ends(stream),
         st' # "start", Came(stream, pos + 1, st'),
         \/ st' = "last_chunk"
         \/ trailing' = TRUE /\ InTrailer(stream, pos)
         \/ UNCHANGED trailing /\ st # "last_chunk" /\ stream[pos] # "last"
  PROVE  Within'
<1>1. pos + 1 \in 1 .. Ends(stream) /\ \A k \in 1 .. pos : stream[k] # "bad"
  BY NotLast
<1>2. pos \in Nat /\ 1 <= pos
  BY TextsAtHand DEF Typed
<1>3. (pos + 1) - 1 = pos
  BY <1>2
<1>4. st' = "last_chunk" \/ (trailing' <=> InTrailer(stream, pos))
  BY <1>2, TrailerGoesOn DEF Within
<1> QED  BY <1>1, <1>2, <1>3, <1>4 DEF Within

\* The parser goes to another state and looks at the same byte again.
LEMMA ReexecutedWithin ==
  ASSUME Grammatical, Typed, Within, UNCHANGED <<stream, pos, trailing>>,
         st # "last_chunk", st' # "last_chunk", st' = "start" => st = "start",
         1 < pos, Came(stream, pos, st')
  PROVE  Within'
  BY DEF Within

\* Something follows each byte but the end of an empty line.
LEMMA MayFollow ==
  ASSUME NEW s, NEW i,
         \/ s[i] \in {"method", "slash", "char", "line", "field", "colon", "value", "sp",
                      "body", "size", "last"}
         \/ /\ s[i] = "eol"
            /\ s[i - 1] \in {"slash", "char", "line", "last", "colon", "value", "sp",
                             "size", "body"}
  PROVE  Follow(s, i) # {}
<1>1. CASE s[i] \in {"method", "slash", "char", "line", "field", "colon", "value", "sp"}
  BY <1>1 DEF Follow
<1>2. CASE s[i] \in {"body", "size", "last"}
  BY <1>2 DEF Follow
<1>3. CASE s[i] = "eol" /\ s[i - 1] \in {"slash", "char", "line", "last", "colon", "value", "sp",
                                         "size", "body"}
  <2>1. AfterLine(s, i) # {}
    BY <1>3 DEF AfterLine
  <2> QED  BY <1>3, <2>1 DEF Follow
<1> QED  BY <1>1, <1>2, <1>3

\* The bytes that no callback is called for, by state, byte and next state.
LEMMA NextByteWithin ==
  ASSUME Grammatical, Typed, Within, NextByte
  PROVE  Within'
<1>1. PICK step \in Silent : step[1] = st /\ step[2] = stream[pos] /\ st' = step[3]
  BY DEF NextByte
<1>2. pos' = pos + 1 /\ UNCHANGED <<stream, trailing>>
  BY DEF NextByte, input
<1>3. pos \in Nat /\ (pos + 1) - 1 = pos /\ (pos + 1) - 2 = pos - 1
  BY TextsAtHand
<1>4. CASE step \in RequestLine
  <2>1. st \in {"start", "method", "url", "line"} /\ st' # "start" /\ stream[pos] # "last"
        /\ stream[pos] \in {"method", "slash", "char", "line", "eol"}
        /\ (stream[pos] = "eol" => st = "line")
    BY <1>1, <1>4 DEF RequestLine
  <2>2. Came(stream, pos + 1, st')
    BY <1>1, <1>3, <1>4 DEF RequestLine, Came, Within
  <2>3. Follow(stream, pos) # {}
    BY <2>1, MayFollow DEF Came, Within
  <2> QED  BY <1>2, <2>1, <2>2, <2>3, ConsumedWithin
<1>5. CASE step \in HeaderName
  <2>1. st \in {"field_start", "field"} /\ st' = "field" /\ stream[pos] = "field"
    BY <1>1, <1>5 DEF HeaderName
  <2>2. Came(stream, pos + 1, st') /\ Follow(stream, pos) # {}
    BY <1>3, <2>1, MayFollow DEF Came
  <2> QED  BY <1>2, <2>1, <2>2, ConsumedWithin
<1>6. CASE step \in HeaderValue
  <2>1. st \in {"discard_ws", "discard_lws", "value", "value_lws"} /\ st' # "start"
        /\ stream[pos] \in {"sp", "value", "eol"} /\ (stream[pos] = "eol" => st = "discard_ws")
    BY <1>1, <1>6 DEF HeaderValue
  <2>2. Came(stream, pos + 1, st')
    BY <1>1, <1>3, <1>6 DEF HeaderValue, Came, Within
  <2>3. Follow(stream, pos) # {}
    BY <2>1, MayFollow DEF Came, Within
  <2> QED  BY <1>2, <2>1, <2>2, <2>3, ConsumedWithin
<1>7. CASE step \in Chunks
  <2>1. /\ st \in {"chunk_size", "chunk_line", "chunk_data"} /\ st' # "start"
        /\ stream[pos] \in {"size", "eol", "body", "last"}
        /\ stream[pos] = "eol" => st = "chunk_line"
        /\ stream[pos] = "last" => st' = "last_chunk"
        /\ stream[pos] = "body" => st = "chunk_data"
    BY <1>1, <1>7 DEF Chunks
  <2>2. Came(stream, pos + 1, st')
    BY <1>1, <1>3, <1>7 DEF Chunks, Came, Within
  <2>3. Follow(stream, pos) # {}
    BY <2>1, MayFollow DEF Came, Within
  <2>4. stream[pos] = "body" => Chunked(stream)
    BY <2>1 DEF Came, Within
  <2> QED  BY <1>2, <2>1, <2>2, <2>3, <2>4, ConsumedWithin
<1>8. CASE ~LastOfBody /\ step = <<"body", "body", "body">>
  <2>1. st = "body" /\ st' = "body" /\ stream[pos] = "body" /\ pos # Ends(stream)
    BY <1>1, <1>8 DEF LastOfBody
  <2>2. Came(stream, pos + 1, st') /\ Follow(stream, pos) # {}
    BY <1>3, <2>1, MayFollow DEF Came, Within
  <2> QED  BY <1>2, <2>1, <2>2, ConsumedWithin
<1> QED  BY <1>1, <1>4, <1>5, <1>6, <1>7, <1>8 DEF Silent

\* The end of a URL, a name or a value.
LEMMA TextEndWithin ==
  ASSUME Grammatical, Typed, Within, UrlEnd \/ NameEnd \/ ValueEnd
  PROVE  Within'
<1>1. pos \in Nat /\ (pos + 1) - 1 = pos /\ (pos + 1) - 2 = pos - 1
  BY TextsAtHand
<1>2. CASE UrlEnd
  <2>1. /\ st = "url" /\ stream[pos] \in {"line", "eol"} /\ pos' = pos + 1
        /\ st' = (IF stream[pos] = "eol" THEN "field_start" ELSE "line")
        /\ UNCHANGED <<stream, trailing>>
    BY <1>2 DEF UrlEnd, ByteIn, Consume, input
  <2>2. stream[pos - 1] \in {"slash", "char"}
    BY <2>1 DEF Came, Within
  <2>3. Came(stream, pos + 1, st') /\ Follow(stream, pos) # {}
    BY <1>1, <2>1, <2>2, MayFollow DEF Came
  <2> QED  BY <2>1, <2>3, ConsumedWithin
<1>3. CASE NameEnd
  <2>1. /\ st = "field" /\ stream[pos] = "colon" /\ pos' = pos + 1 /\ st' = "discard_ws"
        /\ UNCHANGED <<stream, trailing>>
    BY <1>3 DEF NameEnd, ByteIn, Consume, input
  <2>2. Came(stream, pos + 1, st') /\ Follow(stream, pos) # {}
    BY <1>1, <2>1, MayFollow DEF Came
  <2> QED  BY <2>1, <2>2, ConsumedWithin
<1>4. CASE ValueEnd
  <2>1. /\ st = "value" /\ stream[pos] = "eol" /\ pos' = pos + 1 /\ st' = "value_lws"
        /\ UNCHANGED <<stream, trailing>>
    BY <1>4 DEF ValueEnd, ByteIn, Consume, input
  <2>2. stream[pos - 1] \in {"value", "sp"}
    BY <2>1 DEF Came, Within
  <2>3. Came(stream, pos + 1, st') /\ Follow(stream, pos) # {}
    BY <1>1, <2>1, <2>2, MayFollow DEF Came
  <2> QED  BY <2>1, <2>3, ConsumedWithin
<1> QED  BY <1>2, <1>3, <1>4

\* The end of a header line: the next one starts with the byte at hand.
LEMMA LineEndWithin ==
  ASSUME Grammatical, Typed, Within, HeaderEnd \/ EmptyValue
  PROVE  Within'
<1>1. /\ st \in {"value_lws", "discard_lws"} /\ stream[pos] # "sp" /\ st' = "field_start"
      /\ UNCHANGED <<stream, pos, trailing>>
  BY DEF HeaderEnd, EmptyValue, Reexecute, input
<1>2. 1 < pos
  BY <1>1 DEF Within
<1>3. Came(stream, pos, st')
  BY <1>1 DEF Came, Within
<1> QED  BY <1>1, <1>2, <1>3, ReexecutedWithin

\* A byte that nothing may follow is the last of the request.
LEMMA AtEnd ==
  ASSUME Grammatical, Typed, Within, stream[pos] # "bad", Follow(stream, pos) = {}
  PROVE  pos = Ends(stream)
<1>1. /\ IsRequest(stream) /\ Ends(stream) \in Nat /\ pos \in 1 .. Ends(stream)
      /\ \A k \in 1 .. pos : stream[k] # "bad"
  BY StreamIsRequest DEF Within
<1>2. pos \notin 1 .. Ends(stream) - 1
  BY <1>1 DEF IsRequest
<1> QED  BY <1>1, <1>2

\* The empty line after the headers.
LEMMA HeadersCompleteWithin ==
  ASSUME Grammatical, Typed, Within, HeadersComplete
  PROVE  Within'
<1>1. /\ st = "field_start" /\ stream[pos] = "eol" /\ ~trailing /\ UNCHANGED <<stream, trailing>>
  BY DEF HeadersComplete, ByteIn, input
<1>2. pos \in Nat /\ 1 < pos /\ (pos + 1) - 1 = pos /\ (pos + 1) - 2 = pos - 1
  BY <1>1, TextsAtHand DEF Within
<1>3. stream[pos - 1] = "eol" /\ ~InTrailer(stream, pos - 1)
  BY <1>1 DEF Came, Within
<1>4. ~InTrailer(stream, pos)
  BY <1>1, <1>2, <1>3, TrailerGoesOn
<1>5. Follow(stream, pos) = AfterLine(stream, pos)
  BY <1>1 DEF Follow
<1>6. CASE Chunked(stream) /\ Consume("chunk_size")
  <2>1. pos' = pos + 1 /\ st' = "chunk_size"
    BY <1>6 DEF Consume
  <2>2. Follow(stream, pos) # {}
    BY <1>3, <1>4, <1>5, <1>6 DEF AfterLine
  <2>3. Came(stream, pos + 1, st')
    BY <1>1, <1>2, <1>3, <1>4, <1>6, <2>1 DEF Came
  <2> QED  BY <1>1, <2>1, <2>2, <2>3, ConsumedWithin
<1>7. CASE ~Chunked(stream) /\ HasBody(stream) /\ Consume("body")
  <2>1. pos' = pos + 1 /\ st' = "body"
    BY <1>7 DEF Consume
  <2>2. Follow(stream, pos) # {}
    BY <1>3, <1>4, <1>5, <1>7 DEF AfterLine
  <2>3. Came(stream, pos + 1, st')
    BY <1>1, <1>2, <1>3, <1>7, <2>1 DEF Came
  <2> QED  BY <1>1, <2>1, <2>2, <2>3, ConsumedWithin
<1>8. CASE ~Chunked(stream) /\ ~HasBody(stream) /\ Reexecute("message_done")
  <2>1. pos' = pos /\ st' = "message_done"
    BY <1>8 DEF Reexecute
  <2>2. Follow(stream, pos) = {}
    BY <1>3, <1>4, <1>5, <1>8 DEF AfterLine
  <2>3. Came(stream, pos, st')
    BY <1>1, <2>1, <2>2, AtEnd DEF Came
  <2> QED  BY <1>1, <1>2, <2>1, <2>3, ReexecutedWithin
<1> QED  BY <1>6, <1>7, <1>8 DEF HeadersComplete

\* The empty line after the trailers.
LEMMA TrailersCompleteWithin ==
  ASSUME Grammatical, Typed, Within, TrailersComplete
  PROVE  Within'
<1>1. /\ st = "field_start" /\ stream[pos] = "eol" /\ trailing
      /\ st' = "message_done" /\ UNCHANGED <<stream, pos, trailing>>
  BY DEF TrailersComplete, ByteIn, Reexecute, input
<1>2. pos \in Nat /\ 1 < pos
  BY <1>1, TextsAtHand DEF Within
<1>3. stream[pos - 1] = "eol" /\ InTrailer(stream, pos - 1)
  BY <1>1 DEF Came, Within
<1>4. InTrailer(stream, pos)
  BY <1>2, <1>3, TrailerGoesOn
<1>5. Chunked(stream)
  <2>1. 1 .. pos \subseteq DOMAIN stream
    BY <1>2, StreamIsRequest DEF Within
  <2> QED  BY <1>4, <2>1 DEF InTrailer, Chunked
<1>6. Follow(stream, pos) = {}
  BY <1>1, <1>3, <1>4, <1>5 DEF Follow, AfterLine
<1>7. Came(stream, pos, st')
  BY <1>1, <1>6, AtEnd DEF Came
<1> QED  BY <1>1, <1>2, <1>7, ReexecutedWithin

LEMMA BodyEndWithin ==
  ASSUME Grammatical, Typed, Within, BodyEnd
  PROVE  Within'
<1>1. /\ st = "body" /\ st' = "message_done" /\ pos = Ends(stream)
      /\ UNCHANGED <<stream, pos, trailing>>
  BY DEF BodyEnd, ByteIn, LastOfBody, Reexecute, input
<1>2. 1 < pos
  BY <1>1 DEF Within
<1>3. Came(stream, pos, st')
  BY <1>1 DEF Came
<1> QED  BY <1>1, <1>2, <1>3, ReexecutedWithin

\* The line ends of chunks.
LEMMA ChunkEndWithin ==
  ASSUME Grammatical, Typed, Within, ChunkEnd
  PROVE  Within'
<1>1. /\ st = "chunk_data" /\ stream[pos] = "eol" /\ pos' = pos + 1 /\ st' = "chunk_size"
      /\ UNCHANGED <<stream, trailing>>
  BY DEF ChunkEnd, ByteIn, Consume, input
<1>2. /\ pos \in Nat /\ 1 < pos /\ (pos + 1) - 1 = pos /\ (pos + 1) - 2 = pos - 1
      /\ (pos - 1) - 1 = pos - 2
  BY <1>1, TextsAtHand DEF Within
<1>3. stream[pos - 1] = "body"
  <2> SUFFICES ASSUME stream[pos - 1] = "eol", stream[pos - 2] = "size" PROVE FALSE
    BY <1>1 DEF Came, Within
  <2>1. Follow(stream, pos - 1) = AfterLine(stream, pos - 1)
    BY DEF Follow
  <2>2. AfterLine(stream, pos - 1) = {"body"}
    BY <1>2 DEF AfterLine
  <2> QED  BY <1>1, <1>2, <2>1, <2>2, Follows
<1>4. Follow(stream, pos) # {}
  BY <1>1, <1>3, MayFollow
<1>5. Came(stream, pos + 1, st')
  BY <1>1, <1>2, <1>3 DEF Came, Within
<1> QED  BY <1>1, <1>4, <1>5, ConsumedWithin

LEMMA LastChunkWithin ==
  ASSUME Grammatical, Typed, Within, LastChunk
  PROVE  Within'
<1>1. /\ st = "last_chunk" /\ stream[pos] = "eol" /\ pos' = pos + 1 /\ st' = "field_start"
      /\ trailing' = TRUE /\ UNCHANGED stream
  BY DEF LastChunk, ByteIn, Consume, input
<1>2. pos \in Nat /\ 1 < pos /\ (pos + 1) - 1 = pos /\ (pos + 1) - 2 = pos - 1
  BY <1>1, TextsAtHand DEF Within
<1>3. stream[pos - 1] = "last"
  BY <1>1 DEF Came, Within
<1>4. InTrailer(stream, pos)
  <2>1. pos - 1 \in 1 .. pos
    BY <1>2
  <2> QED  BY <1>3, <2>1 DEF InTrailer
<1>5. Came(stream, pos + 1, st') /\ Follow(stream, pos) # {}
  BY <1>1, <1>2, <1>3, MayFollow DEF Came
<1> QED  BY <1>1, <1>4, <1>5, ConsumedWithin

-----------------------------------------------------------------------------
LEMMA InitSynced == Grammatical /\ Init => Synced
<1> SUFFICES ASSUME Grammatical, Init PROVE Synced
  OBVIOUS
<1>1. Typed
  BY InitTyped
<1>2. pos = 1 /\ st = "start" /\ ~trailing /\ errno = "ok" /\ pc = "loop" /\ end = 0 /\ handled = 0
  BY DEF Init
<1>3. pos \in 1 .. Ends(stream) /\ 1 .. pos - 1 = {}
  BY <1>1, <1>2, StreamIsRequest
<1>4. Came(stream, pos, st)
  BY <1>2 DEF Came
<1>5. ~InTrailer(stream, pos - 1)
  BY <1>3 DEF InTrailer
<1> QED  BY <1>2, <1>3, <1>4, <1>5 DEF Synced, Within, Stopped

\* What the parser does not read or write leaves it within the request.
LEMMA ElsewhereWithin ==
  ASSUME Within, UNCHANGED <<stream, pos, st, trailing>>
  PROVE  Within'
  BY DEF Within

LEMMA ParseSynced ==
  ASSUME Grammatical, IInv, Typed, Synced, Parse
  PROVE  Synced'
<1>1. end \in Nat /\ pos \in Nat /\ pos <= end + 1
  BY TextsAtHand DEF Typed
<1>2. handled' = 0 => Within'
  <2> SUFFICES ASSUME handled' = 0 PROVE Within'
    OBVIOUS
  <2>1. handled = 0 /\ ~MessageComplete
    BY ParseCases DEF ParserStep, MessageComplete, HandlerReturn, IInv, Before, After
  <2>2. Within
    BY <2>1 DEF Synced
  <2>3. CASE HandlerReturn \/ Refuse \/ ReadEnd
    BY <2>2, <2>3, ElsewhereWithin DEF HandlerReturn, Refuse, ReadEnd, input
  <2> QED
    BY <2>1, <2>2, <2>3, NextByteWithin, TextEndWithin, LineEndWithin, HeadersCompleteWithin,
       TrailersCompleteWithin, BodyEndWithin, ChunkEndWithin, LastChunkWithin DEF Parse
<1>3. Stopped'
  <2>1. pc # "loop" /\ errno = "ok"
    BY DEF Synced, Stopped, Parse, NextByte, UrlEnd, NameEnd, ValueEnd, HeaderEnd, EmptyValue,
           HeadersComplete, BodyEnd, ChunkEnd, LastChunk, TrailersComplete, MessageComplete,
           HandlerReturn, Refuse, ReadEnd, ByteIn, Parsing
  <2>2. CASE HandlerReturn
    BY <2>2 DEF HandlerReturn, Stopped
  <2>3. CASE MessageComplete
    BY <2>1, <2>3 DEF MessageComplete, Stopped
  <2>4. CASE Refuse
    BY <2>1, <2>4 DEF Refuse, Stopped, Parsing, input, IInv, Before, After
  <2>5. CASE ReadEnd
    BY <1>1, <2>1, <2>5 DEF ReadEnd, Stopped, input, Synced
  <2>6. CASE ~(HandlerReturn \/ MessageComplete \/ Refuse \/ ReadEnd)
    <3>1. errno' = errno /\ pc' = pc /\ handled' = handled
      BY <2>6 DEF Parse, NextByte, UrlEnd, NameEnd, ValueEnd, HeaderEnd, EmptyValue,
                  HeadersComplete, BodyEnd, ChunkEnd, LastChunk, TrailersComplete
    <3> QED  BY <2>1, <3>1 DEF Stopped
  <2> QED  BY <2>2, <2>3, <2>4, <2>5, <2>6
<1> QED  BY <1>2, <1>3 DEF Synced

LEMMA NextSynced == Grammatical /\ IInv /\ Typed /\ Synced /\ [Next]_vars => Synced'
<1> SUFFICES ASSUME Grammatical, IInv, Typed, Synced, [Next]_vars PROVE Synced'
  OBVIOUS
<1>1. CASE Parse
  BY <1>1, ParseSynced
<1>2. CASE ~Parse
  <2>1. UNCHANGED <<stream, pos, st, trailing, handled>>
    BY <1>2 DEF Next, Accept, Read, ReadZero, Disconnect, End, LateWrite, WriteDone, CloseWrite,
                CloseDone, vars, input, life
  <2>2. handled' = 0 => Within'
    BY <2>1, ElsewhereWithin DEF Synced
  <2>3. CASE \E n \in 1 .. Len(stream) : Read(n)
    BY <2>1, <2>2, <2>3 DEF Read, InLoop, Synced, Stopped
  <2>4. CASE ReadZero
    <3>1. handled > 0 => errno = "complete"
      BY <2>4 DEF ReadZero, InLoop, IInv, Before, After
    <3> QED  BY <2>1, <2>2, <2>4, <3>1 DEF ReadZero, InLoop, Synced, Stopped, input
  <2>5. CASE ~(\E n \in 1 .. Len(stream) : Read(n)) /\ ~ReadZero
    <3>1. UNCHANGED <<end, errno, pc>>
      BY <1>2, <2>5 DEF Next, Accept, Disconnect, End, LateWrite, WriteDone, CloseWrite,
                        CloseDone, vars, input, life
    <3> QED  BY <2>1, <2>2, <3>1 DEF Synced, Stopped
  <2> QED  BY <2>3, <2>4, <2>5
<1> QED  BY <1>1, <1>2

THEOREM AlwaysSynced == Grammatical => (Spec => []Synced)
<1> SUFFICES ASSUME Grammatical PROVE Spec => []Synced
  OBVIOUS
<1>1. Init => Synced
  BY InitSynced
<1>2. IInv /\ Typed /\ Synced /\ [Next]_vars => Synced'
  BY NextSynced
<1> QED  BY <1>1, <1>2, Invariance, AlwaysTyped, PTL DEF Spec

\* However requests are cut by reads, and wherever an empty read comes between: one is
\* given up only at a byte that it cannot contain, or by an empty read in the middle of
\* it (ErrorForCause).
THEOREM GivenUpForCause == Grammatical => (Spec => []ErrorForCause)
<1> SUFFICES ASSUME Grammatical PROVE Spec => []ErrorForCause
  OBVIOUS
<1>1. IInv /\ Synced /\ Typed => ErrorForCause
  <2> SUFFICES ASSUME IInv, Synced, Typed PROVE ErrorForCause
    OBVIOUS
  <2>1. Ends(stream) \in Nat
    BY StreamIsRequest
  <2>2. errno = "eof" => handled = 0
    BY DEF Synced, Stopped, IInv, Before, After
  <2> QED  BY <2>1, <2>2 DEF Synced, Stopped, Within, ErrorForCause
<1> QED  BY <1>1, Invariance, AlwaysSynced, AlwaysTyped, PTL

\* However a request is cut by reads: when all of it has been received and no read was
\* empty, it has been handled (NothingLost).
THEOREM ReceivedIsHandled == Grammatical /\ ~ZeroReads => (Spec => []NothingLost)
<1> SUFFICES ASSUME Grammatical, ~ZeroReads PROVE Spec => []NothingLost
  OBVIOUS
<1>1. IInv /\ Typed /\ Synced => NothingLost
  <2> SUFFICES ASSUME IInv, Typed, Synced, InLoop, WellFormed(stream), end >= Ends(stream)
               PROVE  handled = 1
    BY DEF NothingLost
  <2> SUFFICES ASSUME handled = 0 PROVE FALSE
    BY DEF IInv, Before, After
  <2>1. /\ Ends(stream) \in Nat /\ Ends(stream) <= Len(stream) /\ end \in Nat
        /\ DOMAIN stream = 1 .. Len(stream) /\ Len(stream) \in Nat
    BY StreamIsRequest, TextsAtHand
  <2>2. pos \in 1 .. Ends(stream)
    BY DEF Synced, Within
  <2>3. stream[pos] # "bad"
    BY <2>1, <2>2 DEF WellFormed
  <2>4. errno = "ok"
    BY <2>3 DEF Synced, Stopped, Typed, IInv, Before, After
  <2>5. pos = end + 1
    BY <2>4 DEF InLoop, Synced, Stopped
  <2> QED  BY <2>1, <2>2, <2>5
<1> QED  BY <1>1, Invariance, AlwaysSynced, AlwaysTyped, PTL

\* The parser is never stuck within a request: there is a step for each byte that the
\* grammar allows where it stands.
CanStep == \/ st = "message_done"
           \/ stream[pos] = "bad"
           \/ \E next \in ParserStates : <<st, stream[pos], next>> \in Silent
           \/ <<st, stream[pos]>> \in {<<"url", "line">>, <<"url", "eol">>, <<"field", "colon">>,
                                       <<"value", "eol">>, <<"field_start", "eol">>,
                                       <<"chunk_data", "eol">>, <<"last_chunk", "eol">>}
           \/ st = "body" /\ stream[pos] = "body"
           \/ st \in {"value_lws", "discard_lws"} /\ stream[pos] # "sp"

THEOREM NeverStuck == Grammatical => (Spec => [](Parsing => CanStep))
<1> SUFFICES ASSUME Grammatical PROVE Spec => [](Parsing => CanStep)
  OBVIOUS
<1>1. IInv /\ Typed /\ Synced => (Parsing => CanStep)
  <2> SUFFICES ASSUME IInv, Typed, Synced, Parsing, stream[pos] # "bad" PROVE CanStep
    BY DEF CanStep
  <2>1. Within
    BY DEF Synced, IInv, Before, After, Parsing
  <2>2. CASE st = "start"
    <3>1. pos = 1 /\ stream[1] = "method"
      BY <2>1, <2>2, StreamIsRequest DEF Within, Came, IsRequest
    <3> QED  BY <2>2, <3>1 DEF CanStep, Silent, RequestLine, ParserStates
  <2>3. CASE st # "start"
    <3>1. /\ pos \in Nat /\ (pos - 1) - 1 = pos - 2 /\ Came(stream, pos, st)
          /\ stream[pos] \in Follow(stream, pos - 1)
      BY <2>1, <2>3, TextsAtHand, Follows DEF Within
    <3> DEFINE b == stream[pos]
    <3>2. CASE st \in {"method", "url", "line"}
      <4>1. \/ st = "method" /\ b \in {"method", "slash"}
            \/ st = "url" /\ b \in {"slash", "char", "line", "eol"}
            \/ st = "line" /\ b \in {"line", "eol"}
        BY <3>1, <3>2 DEF Came, Follow
      <4> QED  BY <4>1 DEF CanStep, Silent, RequestLine, ParserStates
    <3>3. CASE st \in {"field_start", "field"}
      <4>1. \/ st = "field_start" /\ b \in {"field", "eol"}
            \/ st = "field" /\ b \in {"field", "colon"}
        BY <3>1, <3>3 DEF Came, Follow, AfterLine
      <4> QED  BY <4>1 DEF CanStep, Silent, HeaderName, ParserStates
    <3>4. CASE st \in {"discard_ws", "discard_lws", "value", "value_lws"}
      <4>1. \/ st \in {"discard_ws", "value"} /\ b \in {"value", "sp", "eol"}
            \/ st \in {"discard_lws", "value_lws"}
        BY <3>1, <3>4 DEF Came, Follow
      <4> QED  BY <4>1 DEF CanStep, Silent, HeaderValue, ParserStates
    <3>5. CASE st \in {"chunk_size", "chunk_line", "chunk_data", "last_chunk"}
      <4>1. \/ st = "chunk_size" /\ b \in {"size", "last"}
            \/ st = "chunk_line" /\ b \in {"size", "eol"}
            \/ st = "chunk_data" /\ b \in {"body", "eol"}
            \/ st = "last_chunk" /\ b = "eol"
        BY <3>1, <3>5 DEF Came, Follow, AfterLine
      <4> QED  BY <4>1 DEF CanStep, Silent, Chunks, ParserStates
    <3>6. CASE st = "body"
      <4>1. b = "body"
        BY <3>1, <3>6 DEF Came, Follow, AfterLine
      <4> QED  BY <3>6, <4>1 DEF CanStep
    <3> QED
      BY <2>3, <3>2, <3>3, <3>4, <3>5, <3>6 DEF CanStep, Typed, ParserStates
  <2> QED  BY <2>2, <2>3
<1> QED  BY <1>1, Invariance, AlwaysSynced, AlwaysTyped, PTL

-----------------------------------------------------------------------------
(* Texts: positions in their order *)

\* How many of these positions the position i passes, itself included.
Passed(S, i) == {j \in S : j <= i}

LEMMA PassedIsFinite ==
  ASSUME NEW S \in SUBSET Nat, IsFiniteSet(S), NEW i \in Nat
  PROVE  /\ IsFiniteSet(Passed(S, i)) /\ Cardinality(Passed(S, i)) \in Nat
         /\ Cardinality(Passed(S, i)) <= Cardinality(S) /\ Cardinality(S) \in Nat
<1>1. Passed(S, i) \subseteq S
  BY DEF Passed
<1> QED  BY <1>1, FS_Subset, FS_CardinalityType

\* No two of the positions pass the same number.
LEMMA PassedGrows ==
  ASSUME NEW S \in SUBSET Nat, IsFiniteSet(S), NEW i \in S, NEW j \in S, i < j
  PROVE  Cardinality(Passed(S, i)) < Cardinality(Passed(S, j))
<1>0. i \in Nat /\ j \in Nat /\ \A k \in S : k \in Nat
  OBVIOUS
<1>1. Passed(S, i) \subseteq Passed(S, j) /\ j \in Passed(S, j) /\ j \notin Passed(S, i)
  <2>1. \A k \in S : k <= i => k <= j
    BY <1>0
  <2>2. j <= j /\ ~(j <= i)
    BY <1>0
  <2> QED  BY <2>1, <2>2 DEF Passed
<1>2. IsFiniteSet(Passed(S, j)) /\ Cardinality(Passed(S, j)) \in Nat
      /\ Cardinality(Passed(S, i)) \in Nat
  BY PassedIsFinite
<1>3. Cardinality(Passed(S, i)) <= Cardinality(Passed(S, j))
      /\ (Cardinality(Passed(S, i)) = Cardinality(Passed(S, j)) => Passed(S, i) = Passed(S, j))
  BY <1>1, <1>2, FS_Subset
<1> QED  BY <1>1, <1>2, <1>3

\* A position stands where as many stand as it passes.
LEMMA StandsAt ==
  ASSUME NEW S \in SUBSET Nat, IsFiniteSet(S), NEW i \in S
  PROVE  /\ Cardinality(Passed(S, i)) \in DOMAIN InOrder(S)
         /\ InOrder(S)[Cardinality(Passed(S, i))] = i
<1> DEFINE k == Cardinality(Passed(S, i))
<1>1. k \in Nat /\ k <= Cardinality(S) /\ Cardinality(S) \in Nat
  BY PassedIsFinite
<1>2. k # 0
  <2>1. i \in Passed(S, i)
    BY DEF Passed
  <2> QED  BY <2>1, PassedIsFinite, FS_EmptySet
<1>3. k \in 1 .. Cardinality(S)
  BY <1>1, <1>2
<1>4. \A j \in S : Cardinality(Passed(S, j)) = k => j = i
  <2> TAKE j \in S
  <2> SUFFICES ASSUME Cardinality(Passed(S, j)) = k, j # i PROVE FALSE
    OBVIOUS
  <2>1. j < i \/ i < j
    OBVIOUS
  <2> QED  BY <1>1, <2>1, PassedGrows
<1>5. (CHOOSE j \in S : Cardinality(Passed(S, j)) = k) = i
  BY <1>4
<1> HIDE DEF k
<1>6. k \in DOMAIN InOrder(S) /\ InOrder(S)[k] = CHOOSE j \in S : Cardinality(Passed(S, j)) = k
  BY <1>3 DEF InOrder, Passed
<1> QED  BY <1>5, <1>6 DEF k

LEMMA InOrderAt ==
  ASSUME NEW S, NEW k \in 1 .. Cardinality(S)
  PROVE  InOrder(S)[k] = CHOOSE i \in S : Cardinality(Passed(S, i)) = k
  BY DEF InOrder, Passed

LEMMA InOrderOfNone == InOrder({}) = << >>
<1>1. Cardinality({}) = 0
  BY FS_EmptySet
<1> QED  BY <1>1 DEF InOrder

\* The next position goes to the end.
LEMMA InOrderAppend ==
  ASSUME NEW S \in SUBSET Nat, IsFiniteSet(S), NEW p \in Nat, \A i \in S : i < p
  PROVE  InOrder(S \cup {p}) = InOrder(S) \o <<p>>
<1> DEFINE n == Cardinality(S)
           T == S \cup {p}
<1>0. p \notin S /\ \A i \in S : i \in Nat /\ i < p /\ ~(p <= i)
  OBVIOUS
<1>1. n \in Nat /\ IsFiniteSet(T) /\ Cardinality(T) = n + 1
  BY <1>0, FS_CardinalityType, FS_AddElement
<1>2. Passed(T, p) = T
  <2>1. \A i \in T : i <= p
    BY <1>0
  <2> QED  BY <2>1 DEF Passed
<1>3. \A i \in S : Passed(T, i) = Passed(S, i)
  BY <1>0 DEF Passed
<1>4. ASSUME NEW k \in 1 .. n
      PROVE  (CHOOSE i \in T : Cardinality(Passed(T, i)) = k)
               = CHOOSE i \in S : Cardinality(Passed(S, i)) = k
  <2>1. Cardinality(Passed(T, p)) # k
    BY <1>1, <1>2
  <2>2. \A i : (i \in T /\ Cardinality(Passed(T, i)) = k)
                 <=> (i \in S /\ Cardinality(Passed(S, i)) = k)
    BY <1>3, <2>1
  <2> QED  BY <2>2, Zenon
<1>5. InOrder(T)[n + 1] = p
  BY <1>0, <1>1, <1>2, StandsAt
<1>6. \A k \in 1 .. n : InOrder(T)[k] = InOrder(S)[k]
  <2> TAKE k \in 1 .. n
  <2>1. k \in 1 .. Cardinality(T)
    BY <1>1
  <2>2. InOrder(T)[k] = CHOOSE i \in T : Cardinality(Passed(T, i)) = k
    BY <2>1, InOrderAt, Zenon
  <2>3. InOrder(S)[k] = CHOOSE i \in S : Cardinality(Passed(S, i)) = k
    BY InOrderAt, Zenon
  <2> QED  BY <1>4, <2>2, <2>3
<1> DEFINE R == {InOrder(S)[k] : k \in 1 .. n}
<1>7. InOrder(S) \in [1 .. n -> R] /\ InOrder(T) = [k \in 1 .. n + 1 |-> InOrder(T)[k]]
  <2>1. InOrder(S) = [k \in 1 .. n |-> InOrder(S)[k]]
    BY DEF InOrder
  <2> HIDE DEF n, T, R
  <2>2. InOrder(T) = [k \in 1 .. Cardinality(T) |-> InOrder(T)[k]]
    BY DEF InOrder
  <2> QED  BY <1>1, <2>1, <2>2 DEF R
<1> HIDE DEF n, T, R
<1>8. InOrder(S) \in Seq(R) /\ Len(InOrder(S)) = n
  BY <1>1, <1>7
<1>9. InOrder(S) \o <<p>> = [k \in 1 .. n + 1 |-> IF k <= n THEN InOrder(S)[k] ELSE p]
  BY <1>1, <1>8
<1>10. \A k \in 1 .. n + 1 : InOrder(T)[k] = IF k <= n THEN InOrder(S)[k] ELSE p
  BY <1>1, <1>5, <1>6
<1>11. InOrder(T) = InOrder(S) \o <<p>>
  BY <1>7, <1>9, <1>10
<1> QED  BY <1>11 DEF T

LEMMA InOrderOfOne ==
  ASSUME NEW p \in Nat
  PROVE  InOrder({}) \o <<p>> = <<p>> /\ InOrder({p}) = <<p>>
<1>1. << >> \o <<p>> = <<p>>
  <2>1. <<p>> \in Seq(Nat)
    OBVIOUS
  <2> QED  BY <2>1, ConcatEmptySeq
<1>2. InOrder({} \cup {p}) = InOrder({}) \o <<p>>
  BY FS_EmptySet, InOrderAppend
<1>3. {} \cup {p} = {p}
  OBVIOUS
<1> QED  BY <1>1, <1>2, <1>3, InOrderOfNone

\* As many positions are passed by one of them as by any number up to their number.
LEMMA EveryPlaceTaken ==
  ASSUME NEW S \in SUBSET Nat, IsFiniteSet(S), NEW k \in 1 .. Cardinality(S)
  PROVE  InOrder(S)[k] \in S /\ Cardinality(Passed(S, InOrder(S)[k])) = k
<1> DEFINE n == Cardinality(S)
           f == [i \in S |-> Cardinality(Passed(S, i))]
<1>1. n \in Nat /\ IsFiniteSet(1 .. n) /\ Cardinality(1 .. n) = n
  <2>1. n \in Nat
    BY FS_CardinalityType
  <2> HIDE DEF n
  <2>2. IsFiniteSet(1 .. n) /\ Cardinality(1 .. n) = IF 1 > n THEN 0 ELSE n - 1 + 1
    BY <2>1, FS_Interval
  <2> QED  BY <2>1, <2>2
<1>2. f \in [S -> 1 .. n]
  <2>1. \A i \in S : Cardinality(Passed(S, i)) \in 1 .. n
    BY StandsAt DEF InOrder
  <2> QED  BY <2>1
<1>3. \A i, j \in S : f[i] = f[j] => i = j
  <2> TAKE i, j \in S
  <2> SUFFICES ASSUME f[i] = f[j], i # j PROVE FALSE
    OBVIOUS
  <2>1. i < j \/ j < i
    OBVIOUS
  <2>2. f[i] \in Nat /\ f[j] \in Nat
    BY <1>1, <1>2
  <2> QED  BY <2>1, <2>2, PassedGrows
<1>4. f \in Injection(S, 1 .. n)
  BY <1>2, <1>3 DEF Injection, IsInjective
<1>5. f \in Surjection(S, 1 .. n)
  BY <1>1, <1>4, FS_Injection
<1>6. PICK i \in S : Cardinality(Passed(S, i)) = k
  BY <1>5 DEF Surjection
<1> QED  BY <1>6, StandsAt

\* The first position of a text and the last enclose the others.
LEMMA FirstAndLast ==
  ASSUME NEW S \in SUBSET Nat, IsFiniteSet(S), NEW a \in S
  PROVE  /\ InOrder(S) # << >> /\ Len(InOrder(S)) \in Nat
         /\ InOrder(S)[1] \in S /\ InOrder(S)[1] <= a
         /\ InOrder(S)[Len(InOrder(S))] \in S /\ a <= InOrder(S)[Len(InOrder(S))]
<1> DEFINE n == Cardinality(S)
<1>1. n \in Nat /\ Cardinality(Passed(S, a)) \in 1 .. n
  BY StandsAt, FS_CardinalityType DEF InOrder
<1>2. 1 \in 1 .. n /\ n \in 1 .. n
  BY <1>1
<1>3. Len(InOrder(S)) = n /\ InOrder(S) # << >>
  BY <1>1, <1>2 DEF InOrder
<1>4. ASSUME NEW b \in S, NEW c \in S, Cardinality(Passed(S, b)) <= Cardinality(Passed(S, c))
      PROVE  b <= c
  <2>1. Cardinality(Passed(S, b)) \in Nat /\ Cardinality(Passed(S, c)) \in Nat
    BY PassedIsFinite
  <2> QED  BY <1>4, <2>1, PassedGrows
<1>5. InOrder(S)[1] \in S /\ Cardinality(Passed(S, InOrder(S)[1])) = 1
  BY <1>2, EveryPlaceTaken
<1>6. InOrder(S)[n] \in S /\ Cardinality(Passed(S, InOrder(S)[n])) = n
  BY <1>2, EveryPlaceTaken
<1> HIDE DEF n
<1>7. Cardinality(Passed(S, InOrder(S)[1])) <= Cardinality(Passed(S, a))
      /\ Cardinality(Passed(S, a)) <= Cardinality(Passed(S, InOrder(S)[n]))
  BY <1>1, <1>5, <1>6
<1> QED  BY <1>1, <1>3, <1>4, <1>5, <1>6, <1>7

-----------------------------------------------------------------------------
(* A header, byte by byte *)

\* The names that have begun before p, and whether l is the last of them.
Begun(s, p) == {i \in Names(s) : i < p}
IsLast(s, l, p) == l \in Begun(s, p) /\ \A k \in Begun(s, p) : k <= l

\* The bytes of a header from l that are before p: of its name and of its value.
NameTill(s, l, p) == {j \in l .. p - 1 : s[j] = "field"}
ValueTill(s, l, p) ==
  {j \in l .. p - 1 : s[j] \in {"value", "sp"} /\ \E k \in l .. j : s[k] = "value"}

HeadersTill(s, p) == {HeaderOf(s, i) : i \in Begun(s, p)}

\* A request that has the header from l, as far as the byte before p, in its field and
\* value, and the headers before it in its headers; or this one as well.
HeaderIs(s, l, p, r) ==
  /\ r.field = InOrder(NameTill(s, l, p))
  /\ IF r.wasValue THEN r.value = InOrder(ValueTill(s, l, p)) ELSE ValueTill(s, l, p) = {}
HeaderOpen(s, l, p, r) == HeaderIs(s, l, p, r) /\ r.headers = HeadersTill(s, l)
HeaderKept(s, l, p, r) ==
  HeaderIs(s, l, p, r) /\ r.headers = HeadersTill(s, l) \cup {<<r.field, r.value>>}

SameHeaders(r, q) == /\ r.headers = q.headers /\ r.field = q.field
                     /\ r.value = q.value /\ r.wasValue = q.wasValue

LEMMA SomeAreFinite ==
  ASSUME NEW n \in Nat, NEW S \in SUBSET (1 .. n)
  PROVE  S \in SUBSET Nat /\ IsFiniteSet(S)
<1>1. IsFiniteSet(1 .. n)
  BY FS_Interval
<1>2. IsFiniteSet(S)
  BY <1>1, FS_Subset
<1> QED  BY <1>2

\* The byte at p goes to the end of those of a kind that have been seen.
LEMMA NextOfKind ==
  ASSUME NEW p \in Nat, 1 <= p, NEW S \in SUBSET (1 .. p - 1)
  PROVE  /\ InOrder(S \cup {p}) = InOrder(S) \o <<p>>
         /\ S \in SUBSET Nat /\ IsFiniteSet(S)
<1>1. p - 1 \in Nat /\ p \in Nat /\ \A i \in S : i < p
  OBVIOUS
<1> QED  BY <1>1, SomeAreFinite, InOrderAppend

\* What a byte adds to a header.
LEMMA QuietByte ==
  ASSUME NEW s, NEW p \in Nat, NEW l \in Nat, l < p, s[p] # "field",
         s[p] \notin {"value", "sp"} \/ (s[p] = "sp" /\ ValueTill(s, l, p) = {})
  PROVE  /\ NameTill(s, l, p + 1) = NameTill(s, l, p)
         /\ ValueTill(s, l, p + 1) = ValueTill(s, l, p)
<1>1. l .. (p + 1) - 1 = (l .. p - 1) \cup {p}
  OBVIOUS
<1>2. s[p] = "sp" => \A k \in l .. p : s[k] # "value"
  <2> SUFFICES ASSUME s[p] = "sp", NEW k \in l .. p, s[k] = "value" PROVE FALSE
    OBVIOUS
  <2>1. k \in l .. p - 1 /\ k \in l .. k
    BY DEF ValueTill
  <2>2. k \in ValueTill(s, l, p)
    BY <2>1 DEF ValueTill
  <2> QED  BY <2>2
<1>3. ValueTill(s, l, p + 1) = ValueTill(s, l, p)
  <2>1. p \notin ValueTill(s, l, p + 1)
    BY <1>2 DEF ValueTill
  <2> QED  BY <1>1, <2>1 DEF ValueTill
<1> QED  BY <1>1, <1>3 DEF NameTill

LEMMA NameByte ==
  ASSUME NEW s, NEW p \in Nat, NEW l \in Nat, l < p, s[p] = "field"
  PROVE  /\ NameTill(s, l, p + 1) = NameTill(s, l, p) \cup {p}
         /\ ValueTill(s, l, p + 1) = ValueTill(s, l, p)
<1>1. l .. (p + 1) - 1 = (l .. p - 1) \cup {p}
  OBVIOUS
<1> QED  BY <1>1 DEF NameTill, ValueTill

LEMMA ValueByte ==
  ASSUME NEW s, NEW p \in Nat, NEW l \in Nat, l < p,
         s[p] = "value" \/ (s[p] = "sp" /\ ValueTill(s, l, p) # {})
  PROVE  /\ NameTill(s, l, p + 1) = NameTill(s, l, p)
         /\ ValueTill(s, l, p + 1) = ValueTill(s, l, p) \cup {p}
<1>1. l .. (p + 1) - 1 = (l .. p - 1) \cup {p}
  OBVIOUS
<1>2. \E k \in l .. p : s[k] = "value"
  <2>1. CASE s[p] = "value"
    BY <2>1
  <2>2. CASE ValueTill(s, l, p) # {}
    <3>1. PICK j \in ValueTill(s, l, p) : TRUE
      BY <2>2
    <3>2. j \in l .. p - 1 /\ \E k \in l .. j : s[k] = "value"
      BY <3>1 DEF ValueTill
    <3> QED  BY <3>2
  <2> QED  BY <2>1, <2>2
<1> QED  BY <1>1, <1>2 DEF NameTill, ValueTill

\* The bytes of a header are among those that have been seen, and its first is the
\* first of its name.
LEMMA HeaderBytes ==
  ASSUME NEW s, NEW p \in Nat, NEW l \in Nat, 1 <= l, l < p, s[l] = "field"
  PROVE  /\ NameTill(s, l, p) \in SUBSET (1 .. p - 1)
         /\ ValueTill(s, l, p) \in SUBSET (1 .. p - 1)
         /\ InOrder(NameTill(s, l, p)) # << >>
         /\ InOrder(NameTill(s, l, p))[1] = l
<1> DEFINE S == NameTill(s, l, p)
<1>1. S \in SUBSET (1 .. p - 1) /\ ValueTill(s, l, p) \in SUBSET (1 .. p - 1)
      /\ l \in S /\ \A j \in S : l <= j
  BY DEF NameTill, ValueTill
<1> HIDE DEF S
<1>2. p - 1 \in Nat
  OBVIOUS
<1>3. S \in SUBSET Nat /\ IsFiniteSet(S)
  BY <1>1, <1>2, SomeAreFinite
<1>4. InOrder(S) # << >> /\ InOrder(S)[1] \in S /\ InOrder(S)[1] <= l
  BY <1>1, <1>3, FirstAndLast
<1>5. InOrder(S)[1] = l
  <2>1. InOrder(S)[1] \in Nat /\ l <= InOrder(S)[1]
    BY <1>1, <1>3, <1>4
  <2> QED  BY <1>4, <2>1
<1> QED  BY <1>1, <1>4, <1>5 DEF S

\* The bytes of a line end where the next name begins.
LEMMA NextName ==
  ASSUME NEW s \in Seq(Kinds), NEW p \in Names(s), NEW l, IsLast(s, l, p)
  PROVE  HeaderOf(s, l) = <<InOrder(NameTill(s, l, p)), InOrder(ValueTill(s, l, p))>>
<1>1. Len(s) \in Nat /\ DOMAIN s = 1 .. Len(s)
  OBVIOUS
<1>2. p \in 1 .. Len(s) /\ l \in 1 .. Len(s) /\ l < p /\ p \in Nat /\ l \in Nat
  BY <1>1 DEF IsLast, Begun, Names
<1>3. \A k \in Names(s) : k \in Nat /\ (k <= l \/ p <= k)
  <2> TAKE k \in Names(s)
  <2>1. k \in Nat
    BY <1>1 DEF Names
  <2>2. k < p => k <= l
    BY DEF IsLast, Begun
  <2> QED  BY <1>2, <2>1, <2>2
<1>4. Line(s, l) = l .. p - 1
  <2>1. \A j \in l .. Len(s) : (\A k \in Names(s) : k <= l \/ j < k) <=> j <= p - 1
    <3> TAKE j \in l .. Len(s)
    <3>1. j \in Nat
      BY <1>1, <1>2
    <3>2. (\A k \in Names(s) : k <= l \/ j < k) => j < p
      BY <1>2
    <3>3. j < p => \A k \in Names(s) : k <= l \/ j < k
      BY <1>2, <1>3, <3>1
    <3> QED  BY <1>2, <3>1, <3>2, <3>3
  <2> QED  BY <1>1, <1>2, <2>1 DEF Line
<1>5. {i \in Line(s, l) : s[i] \in {"field"}} = NameTill(s, l, p)
  BY <1>4 DEF NameTill
<1>6. {i \in ValueFrom(s, Line(s, l)) : s[i] \in {"value", "sp"}} = ValueTill(s, l, p)
  <2>1. \A j \in l .. p - 1 : (\E k \in l .. p - 1 : k <= j /\ s[k] = "value")
                                <=> \E k \in l .. j : s[k] = "value"
    BY <1>2
  <2> QED  BY <1>4, <2>1 DEF ValueFrom, ValueTill
<1> QED  BY <1>5, <1>6 DEF HeaderOf, Text

\* Names that begin at different bytes differ.
LEMMA NamesDiffer ==
  ASSUME NEW s \in Seq(Kinds), NEW p \in Nat, NEW l \in Begun(s, p), NEW k \in Begun(s, l)
  PROVE  HeaderOf(s, k)[1] # InOrder(NameTill(s, l, p))
<1>1. Len(s) \in Nat /\ DOMAIN s = 1 .. Len(s)
  OBVIOUS
<1>2. /\ k \in 1 .. Len(s) /\ l \in 1 .. Len(s) /\ k < l /\ l < p
      /\ s[k] = "field" /\ s[l] = "field"
  BY <1>1 DEF Begun, Names
<1>3. InOrder(NameTill(s, l, p))[1] = l
  BY <1>2, HeaderBytes
<1> DEFINE S == {i \in Line(s, k) : s[i] \in {"field"}}
<1>4. k \in S /\ S \in SUBSET (1 .. Len(s)) /\ \A i \in S : k <= i
  <2>1. k \in Line(s, k)
    BY <1>1, <1>2 DEF Line, Names
  <2> QED  BY <1>2, <2>1 DEF Line
<1>5. HeaderOf(s, k)[1] = InOrder(S)
  BY DEF HeaderOf, Text
<1> HIDE DEF S
<1>6. S \in SUBSET Nat /\ IsFiniteSet(S)
  BY <1>1, <1>4, SomeAreFinite
<1>7. InOrder(S)[1] \in S /\ InOrder(S)[1] <= k
  BY <1>4, <1>6, FirstAndLast
<1>8. InOrder(S)[1] = k
  <2>1. InOrder(S)[1] \in Nat /\ k \in Nat /\ k <= InOrder(S)[1]
    BY <1>4, <1>6, <1>7
  <2> QED  BY <1>7, <2>1
<1> QED  BY <1>2, <1>3, <1>5, <1>8

-----------------------------------------------------------------------------
(* What the callbacks make of it *)

LEMMA CallbackParts ==
  ASSUME NEW r \in Req, NEW t
  PROVE  /\ ~r.wasValue =>
              /\ OnHeaderField(r, t).field = r.field \o t
              /\ OnHeaderField(r, t).headers = r.headers
              /\ OnHeaderField(r, t).value = r.value
              /\ ~OnHeaderField(r, t).wasValue
         /\ r.wasValue =>
              /\ OnHeaderField(r, t).field = t
              /\ OnHeaderField(r, t).headers =
                   IF r.field # << >> THEN Store(r).headers ELSE r.headers
              /\ ~OnHeaderField(r, t).wasValue
         /\ OnHeaderValue(r, t).field = r.field
         /\ OnHeaderValue(r, t).headers = r.headers
         /\ OnHeaderValue(r, t).wasValue
         /\ OnHeaderValue(r, t).value = IF r.wasValue THEN r.value \o t ELSE t
         /\ Store(r).headers = {h \in r.headers : h[1] # r.field} \cup {<<r.field, r.value>>}
         /\ Store(r).field = r.field /\ Store(r).value = r.value
         /\ Store(r).wasValue = r.wasValue
<1>1. /\ Store(r).headers = {h \in r.headers : h[1] # r.field} \cup {<<r.field, r.value>>}
      /\ Store(r).field = r.field /\ Store(r).value = r.value
      /\ Store(r).wasValue = r.wasValue
  BY DEF Req, Store
<1>2. ~r.wasValue =>
        /\ OnHeaderField(r, t).field = r.field \o t
        /\ OnHeaderField(r, t).headers = r.headers
        /\ OnHeaderField(r, t).value = r.value
        /\ ~OnHeaderField(r, t).wasValue
  BY DEF Req, OnHeaderField
<1>3. r.wasValue =>
        /\ OnHeaderField(r, t).field = t
        /\ OnHeaderField(r, t).headers =
             IF r.field # << >> THEN Store(r).headers ELSE r.headers
        /\ ~OnHeaderField(r, t).wasValue
  BY DEF Req, OnHeaderField, Store
<1>4. /\ OnHeaderValue(r, t).field = r.field
      /\ OnHeaderValue(r, t).headers = r.headers
      /\ OnHeaderValue(r, t).wasValue
      /\ OnHeaderValue(r, t).value = IF r.wasValue THEN r.value \o t ELSE t
  BY DEF Req, OnHeaderValue
<1> QED  BY <1>1, <1>2, <1>3, <1>4

LEMMA TextsJoin ==
  ASSUME NEW a \in Texts, NEW b \in Texts, NEW c \in Texts
  PROVE  (a \o b) \o c = a \o (b \o c)
  BY SMT DEF Texts

\* Pieces of one text are the text: it does not matter where a read cuts it.
LEMMA PieceByPiece ==
  ASSUME NEW r \in Req, NEW t \in Texts, NEW u \in Texts
  PROVE  /\ OnHeaderField(OnHeaderField(r, t), u) = OnHeaderField(r, t \o u)
         /\ OnHeaderValue(OnHeaderValue(r, t), u) = OnHeaderValue(r, t \o u)
<1>1. /\ (r.field \o t) \o u = r.field \o (t \o u)
      /\ (r.value \o t) \o u = r.value \o (t \o u)
  <2>1. r.field \in Texts /\ r.value \in Texts
    BY DEF Req
  <2>2. (r.field \o t) \o u = r.field \o (t \o u)
    BY <2>1, TextsJoin, Zenon
  <2>3. (r.value \o t) \o u = r.value \o (t \o u)
    BY <2>1, TextsJoin, Zenon
  <2> QED  BY <2>2, <2>3
<1>2. OnHeaderValue(OnHeaderValue(r, t), u) = OnHeaderValue(r, t \o u)
  <2> DEFINE v(x) == [r EXCEPT !.value = x, !.wasValue = TRUE]
  <2>1. \A x : v(x).wasValue /\ v(x).value = x
    BY DEF Req
  <2>2. \A x, y : [v(x) EXCEPT !.value = y] = v(y)
    BY DEF Req
  <2>3. OnHeaderValue(r, t) = v(IF r.wasValue THEN r.value \o t ELSE t)
        /\ OnHeaderValue(r, t \o u) = v(IF r.wasValue THEN r.value \o (t \o u) ELSE t \o u)
    BY DEF Req, OnHeaderValue
  <2> HIDE DEF v
  <2>4. \A x : OnHeaderValue(v(x), u) = v(x \o u)
    BY <2>1, <2>2 DEF OnHeaderValue
  <2> QED  BY <1>1, <2>3, <2>4
<1>3. OnHeaderField(OnHeaderField(r, t), u) = OnHeaderField(r, t \o u)
  <2>1. CASE ~r.wasValue
    BY <1>1, <2>1 DEF Req, OnHeaderField
  <2>2. CASE r.wasValue
    <3> DEFINE q == IF r.field # << >> THEN [Store(r) EXCEPT !.value = << >>] ELSE r
    <3>1. q \in Req
      <4>1. [Store(r) EXCEPT !.value = << >>] \in Req
        <5>1. << >> \in Texts
          BY DEF Texts
        <5> HIDE DEF Texts
        <5> QED  BY <5>1, StoreIsReq DEF Req
      <4> QED  BY <4>1
    <3> HIDE DEF q
    <3>2. OnHeaderField(r, t) = [q EXCEPT !.field = t, !.wasValue = FALSE]
          /\ OnHeaderField(r, t \o u) = [q EXCEPT !.field = t \o u, !.wasValue = FALSE]
      BY <2>2 DEF OnHeaderField, q
    <3> QED  BY <3>1, <3>2 DEF OnHeaderField, Req
  <2> QED  BY <2>1, <2>2 DEF Req
<1> QED  BY <1>2, <1>3

LEMMA PieceGrows ==
  ASSUME NEW m \in Nat, NEW p \in Nat, m <= p
  PROVE  /\ Piece(m, p + 1) = Piece(m, p) \o <<p>>
         /\ Piece(p, p) = << >> /\ Piece(p, p + 1) = <<p>>
         /\ Piece(m, p) \in Texts /\ <<p>> \in Texts
<1>1. Piece(m, p) \in Texts /\ <<p>> \in Texts
  BY PieceIsText DEF Texts
<1>2. Len(Piece(m, p)) = p - m /\ \A k \in 1 .. p - m : Piece(m, p)[k] = m + k - 1
  BY DEF Piece
<1>3. Piece(m, p + 1) = [k \in 1 .. p - m + 1 |-> m + k - 1]
  BY DEF Piece
<1>4. Piece(m, p) \o <<p>> = [k \in 1 .. p - m + 1 |-> m + k - 1]
  <2>1. Piece(m, p) \o <<p>> =
          [k \in 1 .. p - m + 1 |-> IF k <= p - m THEN Piece(m, p)[k] ELSE p]
    <3> DEFINE P == Piece(m, p)
    <3>1. p - m \in Nat /\ P \in Seq(Nat) /\ Len(P) = p - m
      BY <1>1, <1>2 DEF Texts
    <3> HIDE DEF P
    <3>2. P \o <<p>> = [k \in 1 .. Len(P) + 1 |-> IF k <= Len(P) THEN P[k] ELSE p]
      BY <3>1
    <3> QED  BY <3>1, <3>2 DEF P
  <2> QED  BY <1>2, <2>1
<1>5. Piece(p, p) = << >> /\ Piece(p, p + 1) = <<p>>
  BY DEF Piece
<1> QED  BY <1>1, <1>3, <1>4, <1>5

-----------------------------------------------------------------------------
(* A header goes on *)

LEMMA BegunAreBytes ==
  ASSUME NEW s \in Seq(Kinds), NEW p \in Nat, NEW l \in Begun(s, p)
  PROVE  l \in Nat /\ 1 <= l /\ l < p /\ s[l] = "field"
  BY DEF Begun, Names

LEMMA HeaderNameGrows ==
  ASSUME NEW s \in Seq(Kinds), NEW p \in Nat, NEW l, IsLast(s, l, p), s[p] = "field",
         NEW r \in Req, ~r.wasValue, HeaderOpen(s, l, p, r)
  PROVE  HeaderOpen(s, l, p + 1, OnHeaderField(r, <<p>>))
<1>1. l \in Nat /\ 1 <= l /\ l < p /\ s[l] = "field"
  BY BegunAreBytes DEF IsLast
<1>2. NameTill(s, l, p + 1) = NameTill(s, l, p) \cup {p}
      /\ ValueTill(s, l, p + 1) = ValueTill(s, l, p)
  BY <1>1, NameByte
<1>3. NameTill(s, l, p) \in SUBSET (1 .. p - 1) /\ 1 <= p
  BY <1>1, HeaderBytes
<1>4. InOrder(NameTill(s, l, p + 1)) = InOrder(NameTill(s, l, p)) \o <<p>>
  BY <1>2, <1>3, NextOfKind
<1>5. /\ OnHeaderField(r, <<p>>).field = r.field \o <<p>>
      /\ OnHeaderField(r, <<p>>).headers = r.headers
      /\ ~OnHeaderField(r, <<p>>).wasValue
  BY DEF OnHeaderField, Req
<1> QED  BY <1>2, <1>4, <1>5 DEF HeaderIs, HeaderOpen, HeaderKept

LEMMA HeaderValueGrows ==
  ASSUME NEW s \in Seq(Kinds), NEW p \in Nat, NEW l, IsLast(s, l, p),
         s[p] = "value" \/ (s[p] = "sp" /\ ValueTill(s, l, p) # {}),
         NEW r \in Req, HeaderOpen(s, l, p, r)
  PROVE  HeaderOpen(s, l, p + 1, OnHeaderValue(r, <<p>>))
<1>1. l \in Nat /\ 1 <= l /\ l < p /\ s[l] = "field"
  BY BegunAreBytes DEF IsLast
<1>2. NameTill(s, l, p + 1) = NameTill(s, l, p)
      /\ ValueTill(s, l, p + 1) = ValueTill(s, l, p) \cup {p}
  BY <1>1, ValueByte
<1>3. ValueTill(s, l, p) \in SUBSET (1 .. p - 1) /\ 1 <= p
  BY <1>1, HeaderBytes
<1>4. InOrder(ValueTill(s, l, p + 1)) = InOrder(ValueTill(s, l, p)) \o <<p>>
  BY <1>2, <1>3, NextOfKind
<1>5. InOrder({}) \o <<p>> = <<p>>
  BY InOrderOfOne
<1>6. /\ OnHeaderValue(r, <<p>>).field = r.field
      /\ OnHeaderValue(r, <<p>>).headers = r.headers
      /\ OnHeaderValue(r, <<p>>).wasValue
      /\ OnHeaderValue(r, <<p>>).value = IF r.wasValue THEN r.value \o <<p>> ELSE <<p>>
  BY CallbackParts
<1> QED  BY <1>2, <1>4, <1>5, <1>6 DEF HeaderIs, HeaderOpen, HeaderKept

LEMMA HeaderEmpty ==
  ASSUME NEW s, NEW p, NEW l, NEW r \in Req, ~r.wasValue, HeaderOpen(s, l, p, r)
  PROVE  HeaderOpen(s, l, p, OnHeaderValue(r, << >>))
<1>1. /\ OnHeaderValue(r, << >>).field = r.field
      /\ OnHeaderValue(r, << >>).headers = r.headers
      /\ OnHeaderValue(r, << >>).wasValue
      /\ OnHeaderValue(r, << >>).value = << >>
  BY CallbackParts
<1> QED  BY <1>1, InOrderOfNone DEF HeaderIs, HeaderOpen, HeaderKept

\* A header that is stored takes the place of none but itself.
LEMMA HeaderStored ==
  ASSUME NEW s \in Seq(Kinds), NEW p \in Nat, NEW l, IsLast(s, l, p),
         NEW r \in Req, HeaderOpen(s, l, p, r) \/ HeaderKept(s, l, p, r)
  PROVE  r.field # << >> /\ HeaderKept(s, l, p, Store(r))
<1>1. l \in Nat /\ 1 <= l /\ l < p /\ s[l] = "field" /\ l \in Begun(s, p)
  BY BegunAreBytes DEF IsLast
<1>2. r.field # << >>
  BY <1>1, HeaderBytes DEF HeaderIs, HeaderOpen, HeaderKept
<1>3. \A h \in HeadersTill(s, l) : h[1] # r.field
  BY <1>1, NamesDiffer DEF HeadersTill, HeaderIs, HeaderOpen, HeaderKept
<1>4. {h \in r.headers : h[1] # r.field} = HeadersTill(s, l)
  BY <1>3 DEF HeaderIs, HeaderOpen, HeaderKept
<1>5. /\ Store(r).headers = HeadersTill(s, l) \cup {<<r.field, r.value>>}
      /\ Store(r).field = r.field /\ Store(r).value = r.value
      /\ Store(r).wasValue = r.wasValue
  BY <1>4 DEF Store, Req
<1>6. HeaderIs(s, l, p, r)
  BY DEF HeaderOpen, HeaderKept
<1>7. HeaderIs(s, l, p, Store(r))
  BY <1>5, <1>6 DEF HeaderIs
<1> QED  BY <1>2, <1>5, <1>7 DEF HeaderKept

LEMMA HeaderComplete ==
  ASSUME NEW s \in Seq(Kinds), NEW p \in Nat, NEW l, IsLast(s, l, p),
         NEW r \in Req, r.wasValue, HeaderOpen(s, l, p, r)
  PROVE  /\ HeaderKept(s, l, p, OnHeadersComplete(r))
         /\ OnHeadersComplete(r).wasValue
<1>1. r.field # << >> /\ HeaderKept(s, l, p, Store(r))
  BY HeaderStored
<1>2. Store(r).wasValue
  BY DEF Store, Req
<1> QED  BY <1>1, <1>2 DEF OnHeadersComplete

\* The names that have begun, when the one that begins at p has.
LEMMA BegunGrows ==
  ASSUME NEW s \in Seq(Kinds), NEW p \in Nat
  PROVE  /\ p \notin Names(s) => Begun(s, p + 1) = Begun(s, p)
         /\ p \in Names(s) => Begun(s, p + 1) = Begun(s, p) \cup {p} /\ IsLast(s, p, p + 1)
<1>1. \A k \in Names(s) : k \in Nat
  BY DEF Names
<1>2. \A k \in Names(s) : k < p + 1 <=> k < p \/ k = p
  BY <1>1
<1>3. p \in Names(s) => Begun(s, p + 1) = Begun(s, p) \cup {p}
  BY <1>2 DEF Begun
<1> QED  BY <1>1, <1>2, <1>3 DEF Begun, IsLast

\* Of the names that have begun one is the last.
LEMMA OneIsLast ==
  ASSUME NEW s \in Seq(Kinds), NEW p \in Nat, Begun(s, p) # {}
  PROVE  \E l : IsLast(s, l, p)
<1>1. Begun(s, p) \in SUBSET (1 .. Len(s)) /\ Len(s) \in Nat
  BY DEF Begun, Names
<1>2. Begun(s, p) \in SUBSET Nat /\ IsFiniteSet(Begun(s, p))
  BY <1>1, SomeAreFinite
<1> DEFINE l == InOrder(Begun(s, p))[Len(InOrder(Begun(s, p)))]
<1>3. l \in Begun(s, p) /\ \A k \in Begun(s, p) : k <= l
  BY <1>2, FirstAndLast
<1> QED  BY <1>3 DEF IsLast

\* The last name is before the one that begins here.
LEMMA HeaderBegins ==
  ASSUME NEW s \in Seq(Kinds), NEW p \in Names(s),
         NEW r \in Req, r.wasValue,
         \/ Begun(s, p) = {} /\ r.headers = {} /\ r.field = << >>
         \/ \E l : IsLast(s, l, p) /\ (HeaderOpen(s, l, p, r) \/ HeaderKept(s, l, p, r))
  PROVE  HeaderOpen(s, p, p + 1, OnHeaderField(r, <<p>>))
<1>1. p \in Nat /\ s[p] = "field"
  BY DEF Names
<1>2. NameTill(s, p, p + 1) = {p} /\ ValueTill(s, p, p + 1) = {}
  BY <1>1 DEF NameTill, ValueTill
<1>3. InOrder({p}) = <<p>>
  BY <1>1, InOrderOfOne
<1>4. /\ OnHeaderField(r, <<p>>).field = <<p>>
      /\ OnHeaderField(r, <<p>>).headers =
           IF r.field # << >> THEN Store(r).headers ELSE r.headers
      /\ ~OnHeaderField(r, <<p>>).wasValue
  BY CallbackParts
<1>5. OnHeaderField(r, <<p>>).headers = HeadersTill(s, p)
  <2>1. CASE Begun(s, p) = {} /\ r.headers = {} /\ r.field = << >>
    BY <1>4, <2>1 DEF HeadersTill
  <2>2. ASSUME NEW l, IsLast(s, l, p), HeaderOpen(s, l, p, r) \/ HeaderKept(s, l, p, r)
        PROVE  OnHeaderField(r, <<p>>).headers = HeadersTill(s, p)
    <3>1. r.field # << >> /\ Store(r).headers = HeadersTill(s, l) \cup {<<r.field, r.value>>}
      <4>1. r.field # << >> /\ HeaderKept(s, l, p, Store(r))
        BY <1>1, <2>2, HeaderStored
      <4>2. Store(r).field = r.field /\ Store(r).value = r.value
        BY DEF Store, Req
      <4> QED  BY <4>1, <4>2 DEF HeaderKept
    <3>2. <<r.field, r.value>> = HeaderOf(s, l)
      BY <2>2, NextName DEF HeaderIs, HeaderOpen, HeaderKept
    <3>3. Begun(s, p) = Begun(s, l) \cup {l}
      <4>1. l \in Begun(s, p) /\ \A k \in Begun(s, p) : k <= l
        BY <2>2 DEF IsLast
      <4>2. l \in Nat /\ l < p /\ \A k \in Names(s) : k \in Nat
        BY <4>1, <1>1 DEF Begun, Names
      <4>3. \A k \in Names(s) : k < p <=> k < l \/ k = l
        BY <1>1, <4>1, <4>2 DEF Begun
      <4> QED  BY <4>1, <4>3 DEF Begun
    <3>4. HeadersTill(s, p) = HeadersTill(s, l) \cup {HeaderOf(s, l)}
      BY <3>3 DEF HeadersTill
    <3> QED  BY <1>4, <3>1, <3>2, <3>4
  <2> QED  BY <2>1, <2>2
<1> QED  BY <1>2, <1>3, <1>4, <1>5 DEF HeaderIs, HeaderOpen, HeaderKept

-----------------------------------------------------------------------------
(* The request that the callbacks have put together *)

\* What it would be if the read ended here.
Flushed == CASE mark # 0 /\ st = "field" -> OnHeaderField(req, Piece(mark, pos))
             [] mark # 0 /\ st = "value" -> OnHeaderValue(req, Piece(mark, pos))
             [] OTHER -> req

Unvalued == {"field", "discard_ws", "discard_lws"}
InHeader == Unvalued \cup {"value", "value_lws"}
PastHeaders == {"body", "chunk_size", "chunk_line", "chunk_data", "last_chunk"}

\* The parser has a mark in a text only, and always while it reads one.
Marks == /\ mark # 0 => st \in Marked /\ mark <= pos
         /\ pc = "parse" /\ st \in {"url", "field", "value"} => mark # 0
         /\ pc = "loop" /\ errno = "ok" => mark = 0

\* The header from l is among those stored: on_headers_complete stores the last one
\* before the body, and nobody the last of the trailers.
Stored(l) == st \in PastHeaders \/ ((st = "message_done" \/ trailing) /\ ~InTrailer(stream, l))

NoHeader == Flushed.headers = {} /\ Flushed.field = << >> /\ st \notin InHeader

HeaderTill(l) ==
  /\ IF Stored(l) THEN HeaderKept(stream, l, pos, Flushed)
                  ELSE HeaderOpen(stream, l, pos, Flushed)
  /\ st \in {"value", "value_lws"} => ValueTill(stream, l, pos) # {}
  /\ st \in InHeader => ~Stored(l)
  /\ st \in PastHeaders => ~InTrailer(stream, l)

Gathered == /\ Marks
            /\ Flushed.wasValue <=> st \notin Unvalued
            /\ Begun(stream, pos) = {} => NoHeader
            /\ \A l : IsLast(stream, l, pos) => HeaderTill(l)
            /\ trailing => st \in InHeader \cup {"field_start", "message_done"}
            /\ st = "message_done" => stream[pos] \in {"eol", "body"}

LEMMA StreamAtHand ==
  ASSUME Typed
  PROVE  /\ stream \in Seq(Kinds) /\ Len(stream) \in Nat /\ DOMAIN stream = 1 .. Len(stream)
         /\ pos \in Nat /\ 1 <= pos /\ end \in Nat /\ mark \in Nat /\ req \in Req
         /\ Flushed \in Req
<1>1. /\ stream \in Seq(Kinds) /\ Len(stream) \in Nat /\ DOMAIN stream = 1 .. Len(stream)
      /\ pos \in Nat /\ 1 <= pos /\ end \in Nat /\ mark \in Nat /\ req \in Req
  BY HttpAssumption DEF Typed
<1>2. OnHeaderField(req, Piece(mark, pos)) \in Req /\ OnHeaderValue(req, Piece(mark, pos)) \in Req
  BY TextsAtHand
<1>3. Flushed \in Req
  BY <1>1, <1>2 DEF Flushed
<1> QED  BY <1>1, <1>3

\* A step that adds nothing to a header.
Quiet == /\ UNCHANGED stream /\ SameHeaders(Flushed', Flushed) /\ Marks'
         /\ st' \in Unvalued <=> st \in Unvalued
         /\ st' \in InHeader => st \in InHeader
         /\ st' \in {"value", "value_lws"} => st \in {"value", "value_lws"}
         /\ \/ pos' = pos
            \/ /\ pos' = pos + 1 /\ stream[pos] \notin {"field", "value"}
               /\ stream[pos] = "sp" => st \in Unvalued
         /\ \A l : IsLast(stream, l, pos) =>
              /\ Stored(l)' <=> Stored(l)
              /\ st' \in PastHeaders => ~InTrailer(stream, l)
         /\ trailing' => st' \in InHeader \cup {"field_start", "message_done"}
         /\ st' = "message_done" => stream'[pos'] \in {"eol", "body"}

LEMMA QuietGathered ==
  ASSUME Typed, Gathered, Quiet
  PROVE  Gathered'
<1>1. stream \in Seq(Kinds) /\ pos \in Nat /\ UNCHANGED stream
  BY StreamAtHand DEF Quiet
<1>2. Begun(stream', pos') = Begun(stream, pos)
  <2>1. stream[pos] # "field" => pos \notin Names(stream)
    BY DEF Names
  <2> QED  BY <1>1, <2>1, BegunGrows DEF Quiet
<1>3. \A l : IsLast(stream', l, pos') <=> IsLast(stream, l, pos)
  BY <1>2 DEF IsLast
<1>4. ASSUME NEW l, IsLast(stream, l, pos)
      PROVE  /\ NameTill(stream', l, pos') = NameTill(stream, l, pos)
             /\ ValueTill(stream', l, pos') = ValueTill(stream, l, pos)
  <2>1. l \in Nat /\ l < pos /\ HeaderTill(l)
    BY <1>1, <1>4, BegunAreBytes DEF IsLast, Gathered
  <2>2. CASE pos' = pos
    BY <1>1, <2>2
  <2>3. CASE pos' = pos + 1 /\ stream[pos] \notin {"field", "value"}
             /\ (stream[pos] = "sp" => st \in Unvalued)
    <3>1. stream[pos] = "sp" => ValueTill(stream, l, pos) = {}
      BY <2>1, <2>3 DEF Gathered, HeaderTill, HeaderKept, HeaderOpen, HeaderIs
    <3> QED  BY <1>1, <2>1, <2>3, <3>1, QuietByte
  <2> QED  BY <2>2, <2>3 DEF Quiet
<1>5. ASSUME NEW l, IsLast(stream, l, pos)
      PROVE  HeaderTill(l)'
  <2>1. HeaderTill(l) /\ (Stored(l)' <=> Stored(l))
    <3>1. HeaderTill(l)
      BY <1>5 DEF Gathered
    <3>2. Stored(l)' <=> Stored(l)
      BY <1>5 DEF Quiet, Stored
    <3> QED  BY <3>1, <3>2
  <2>2. /\ HeaderOpen(stream, l, pos, Flushed) => HeaderOpen(stream', l, pos', Flushed')
        /\ HeaderKept(stream, l, pos, Flushed) => HeaderKept(stream', l, pos', Flushed')
    BY <1>1, <1>4, <1>5 DEF Quiet, SameHeaders, HeaderOpen, HeaderKept, HeaderIs
  <2>3. ValueTill(stream', l, pos') = ValueTill(stream, l, pos)
    BY <1>4, <1>5
  <2> QED  BY <1>1, <1>5, <2>1, <2>2, <2>3 DEF HeaderTill, Quiet
<1>6. Begun(stream', pos') = {} => NoHeader'
  BY <1>2 DEF Gathered, Quiet, NoHeader, SameHeaders
<1>7. Flushed'.wasValue <=> st' \notin Unvalued
  BY DEF Gathered, Quiet, SameHeaders
<1>8. Marks' /\ (trailing' => st' \in InHeader \cup {"field_start", "message_done"})
      /\ (st' = "message_done" => stream'[pos'] \in {"eol", "body"})
  BY DEF Quiet
<1> QED  BY <1>3, <1>5, <1>6, <1>7, <1>8 DEF Gathered

-----------------------------------------------------------------------------
(* The bytes of a header *)

\* The parser consumes a byte that no callback is called for.
LEMMA NextByteMarks ==
  ASSUME Typed, Marks, NextByte
  PROVE  /\ Marks' /\ pc = "parse" /\ pos' = pos + 1 /\ UNCHANGED <<stream, req, trailing>>
         /\ <<st, stream[pos], st'>> \in Silent
         /\ st' \in {"url", "field", "value"} => mark' = From
<1>1. PICK step \in Silent :
        /\ step[1] = st /\ step[2] = stream[pos] /\ st' = step[3]
        /\ mark' = IF step[3] \in Marked /\ step[2] # "eol" THEN From ELSE 0
  BY DEF NextByte
<1>2. pc = "parse" /\ pc' = "parse" /\ pos' = pos + 1 /\ UNCHANGED <<stream, req, trailing>>
  BY DEF NextByte, Parsing, input
<1>3. <<st, stream[pos], st'>> = step
  BY <1>1 DEF Silent, RequestLine, HeaderName, HeaderValue, Chunks
<1>4. st' \in {"url", "field", "value"} => st' \in Marked /\ stream[pos] # "eol"
  BY <1>1 DEF Silent, RequestLine, HeaderName, HeaderValue, Chunks, Marked
<1>5. From \in Nat /\ From # 0 /\ From <= pos + 1 /\ pos \in Nat
  BY StreamAtHand DEF From, Marks
<1>6. Marks'
  BY <1>1, <1>2, <1>4, <1>5 DEF Marks
<1> QED  BY <1>1, <1>2, <1>3, <1>4, <1>6

LEMMA SilentCases ==
  ASSUME NEW a, NEW b, NEW c, <<a, b, c>> \in Silent
  PROVE  \/ a \in {"start", "method", "url", "line"} /\ c \in {"method", "url", "line", "field_start"}
            /\ b \in {"method", "slash", "char", "line", "eol"}
         \/ a \in {"field_start", "field"} /\ c = "field" /\ b = "field"
         \/ a \in {"discard_ws", "discard_lws"} /\ c \in {"discard_ws", "discard_lws"}
            /\ b \in {"sp", "eol"}
         \/ a \in {"discard_ws", "value", "value_lws"} /\ c = "value"
            /\ (b = "value" \/ (b = "sp" /\ a \in {"value", "value_lws"}))
         \/ a \in PastHeaders /\ c \in PastHeaders /\ b \in {"size", "eol", "body", "last"}
  BY DEF Silent, RequestLine, HeaderName, HeaderValue, Chunks, PastHeaders

\* A byte of a name, or of a value, goes to the end of what is there.
LEMMA TextByteFlushed ==
  ASSUME Typed, Marks, NextByte
  PROVE  /\ st' = "field" => Flushed' = OnHeaderField(Flushed, <<pos>>)
         /\ st' = "value" => Flushed' = OnHeaderValue(Flushed, <<pos>>)
         /\ st \notin {"field", "value"} => Flushed = req
         /\ st' \notin {"field", "value"} => Flushed' = req
<1>1. /\ pc = "parse" /\ pos' = pos + 1 /\ req' = req /\ <<st, stream[pos], st'>> \in Silent
      /\ st' \in {"field", "value"} => mark' = From
  BY NextByteMarks
<1>2. pos \in Nat /\ 1 <= pos /\ mark \in Nat /\ req \in Req
  BY StreamAtHand
<1>3. /\ Piece(pos, pos + 1) = <<pos>> /\ <<pos>> \in Texts
      /\ mark <= pos => Piece(mark, pos + 1) = Piece(mark, pos) \o <<pos>>
                        /\ Piece(mark, pos) \in Texts
  BY <1>2, PieceGrows
<1>4. \/ st = "field" /\ st' = "field"
      \/ st = "field_start" /\ st' = "field"
      \/ st = "value" /\ st' = "value"
      \/ st \in {"discard_ws", "value_lws"} /\ st' = "value"
      \/ st' \notin {"field", "value"}
  BY <1>1, SilentCases DEF PastHeaders
<1>5. st \in {"field", "value"} => mark # 0 /\ mark <= pos /\ From = mark
  BY <1>1 DEF Marks, From
<1>6. st \notin {"field", "value"} => Flushed = req
  BY DEF Flushed
<1>7. st \in {"field_start", "discard_ws", "value_lws"} => mark = 0 /\ From = pos
  BY DEF Marks, Marked, From
<1>8. st' \notin {"field", "value"} => Flushed' = req
  BY <1>1 DEF Flushed
<1>9. CASE st = "field" /\ st' = "field"
  <2>1. Flushed = OnHeaderField(req, Piece(mark, pos))
    BY <1>5, <1>9 DEF Flushed
  <2>2. Flushed' = OnHeaderField(req, Piece(mark, pos + 1))
    BY <1>1, <1>5, <1>9 DEF Flushed
  <2>3. OnHeaderField(OnHeaderField(req, Piece(mark, pos)), <<pos>>)
          = OnHeaderField(req, Piece(mark, pos) \o <<pos>>)
    BY <1>2, <1>3, <1>5, <1>9, PieceByPiece
  <2> QED  BY <1>3, <1>5, <1>9, <2>1, <2>2, <2>3
<1>10. CASE st = "value" /\ st' = "value"
  <2>1. Flushed = OnHeaderValue(req, Piece(mark, pos))
    BY <1>5, <1>10 DEF Flushed
  <2>2. Flushed' = OnHeaderValue(req, Piece(mark, pos + 1))
    BY <1>1, <1>5, <1>10 DEF Flushed
  <2>3. OnHeaderValue(OnHeaderValue(req, Piece(mark, pos)), <<pos>>)
          = OnHeaderValue(req, Piece(mark, pos) \o <<pos>>)
    BY <1>2, <1>3, <1>5, <1>10, PieceByPiece
  <2> QED  BY <1>3, <1>5, <1>10, <2>1, <2>2, <2>3
<1>11. CASE st = "field_start" /\ st' = "field"
  <2>1. Flushed' = OnHeaderField(req, Piece(pos, pos + 1))
    BY <1>1, <1>2, <1>7, <1>11 DEF Flushed
  <2> QED  BY <1>3, <1>6, <1>11, <2>1
<1>12. CASE st \in {"discard_ws", "value_lws"} /\ st' = "value"
  <2>1. Flushed' = OnHeaderValue(req, Piece(pos, pos + 1))
    BY <1>1, <1>2, <1>7, <1>12 DEF Flushed
  <2> QED  BY <1>3, <1>6, <1>12, <2>1
<1> QED  BY <1>4, <1>6, <1>8, <1>9, <1>10, <1>11, <1>12

\* A step after which m is the last name that has begun.
LEMMA LastGathered ==
  ASSUME Typed, UNCHANGED stream, pos' \in Nat, NEW m, IsLast(stream, m, pos'), HeaderTill(m)',
         Marks', Flushed'.wasValue <=> st' \notin Unvalued,
         trailing' => st' \in InHeader \cup {"field_start", "message_done"},
         st' = "message_done" => stream'[pos'] \in {"eol", "body"}
  PROVE  Gathered'
<1>1. stream \in Seq(Kinds)
  BY StreamAtHand
<1>2. Begun(stream', pos') # {}
  BY DEF IsLast
<1>3. \A l : IsLast(stream', l, pos') => l = m
  <2> SUFFICES ASSUME NEW l, IsLast(stream, l, pos') PROVE l = m
    OBVIOUS
  <2>1. l \in Nat /\ m \in Nat
    BY <1>1, BegunAreBytes DEF IsLast
  <2>2. l <= m /\ m <= l
    BY DEF IsLast
  <2> QED  BY <2>1, <2>2
<1> QED  BY <1>2, <1>3 DEF Gathered

\* Within a header there is a last name, and no header is stored with it.
LEMMA InHeaderHasLast ==
  ASSUME Typed, Gathered, st \in InHeader
  PROVE  \E l : IsLast(stream, l, pos) /\ HeaderOpen(stream, l, pos, Flushed)
                 /\ HeaderTill(l) /\ ~Stored(l)
<1>1. stream \in Seq(Kinds) /\ pos \in Nat /\ Begun(stream, pos) # {}
  BY StreamAtHand DEF Gathered, NoHeader
<1>2. PICK l : IsLast(stream, l, pos)
  BY <1>1, OneIsLast
<1>3. HeaderTill(l)
  BY <1>2 DEF Gathered
<1> QED  BY <1>2, <1>3 DEF HeaderTill

LEMMA NameByteGathered ==
  ASSUME Grammatical, Typed, Within, Gathered, NextByte, stream[pos] = "field"
  PROVE  Gathered'
<1>1. /\ Marks' /\ pos' = pos + 1 /\ UNCHANGED <<stream, trailing>>
      /\ st \in {"field_start", "field"} /\ st' = "field"
  BY NextByteMarks, SilentCases DEF Gathered
<1>2. Flushed' = OnHeaderField(Flushed, <<pos>>)
  BY <1>1, TextByteFlushed DEF Gathered
<1>3. stream \in Seq(Kinds) /\ pos \in Nat /\ 1 < pos /\ Flushed \in Req
      /\ DOMAIN stream = 1 .. Len(stream) /\ pos \in DOMAIN stream /\ Came(stream, pos, st)
  BY <1>1, StreamAtHand, StreamIsRequest DEF Within
<1>4. ~Flushed'.wasValue
  BY <1>2, <1>3, CallbackParts DEF Gathered
<1>5. /\ Flushed.wasValue <=> st = "field_start"
      /\ trailing <=> InTrailer(stream, pos - 1)
  BY <1>1 DEF Gathered, Unvalued, Within
<1>6. ASSUME NEW m, IsLast(stream, m, pos + 1), HeaderOpen(stream, m, pos + 1, Flushed'),
             trailing => InTrailer(stream, m)
      PROVE  Gathered'
  <2>1. ~Stored(m)'
    BY <1>1, <1>6 DEF Stored, PastHeaders
  <2>2. HeaderTill(m)'
    BY <1>1, <1>6, <2>1 DEF HeaderTill, PastHeaders
  <2>3. st' \in InHeader /\ st' \in Unvalued /\ st' # "message_done" /\ pos' \in Nat
    BY <1>1, <1>3 DEF InHeader, Unvalued
  <2> QED  BY <1>1, <1>4, <1>6, <2>2, <2>3, LastGathered
<1>7. CASE st = "field"
  <2>1. pos \notin Names(stream)
    BY <1>3, <1>7 DEF Names, Came
  <2>2. PICK l : IsLast(stream, l, pos) /\ HeaderOpen(stream, l, pos, Flushed) /\ ~Stored(l)
    BY <1>7, InHeaderHasLast DEF InHeader, Unvalued
  <2>3. IsLast(stream, l, pos + 1)
    BY <1>3, <2>1, <2>2, BegunGrows DEF IsLast
  <2>4. HeaderOpen(stream, l, pos + 1, Flushed')
    BY <1>2, <1>3, <1>5, <1>7, <2>2, HeaderNameGrows
  <2>5. trailing => InTrailer(stream, l)
    BY <2>2 DEF Stored
  <2> QED  BY <1>6, <2>3, <2>4, <2>5
<1>8. CASE st = "field_start"
  <2>1. pos \in Names(stream)
    BY <1>3, <1>8 DEF Names, Came
  <2>2. \/ Begun(stream, pos) = {} /\ Flushed.headers = {} /\ Flushed.field = << >>
        \/ \E l : IsLast(stream, l, pos) /\ (HeaderOpen(stream, l, pos, Flushed)
                                             \/ HeaderKept(stream, l, pos, Flushed))
    <3>1. CASE Begun(stream, pos) = {}
      BY <3>1 DEF Gathered, NoHeader
    <3>2. CASE Begun(stream, pos) # {}
      <4>1. PICK l : IsLast(stream, l, pos)
        BY <1>3, <3>2, OneIsLast
      <4> QED  BY <4>1 DEF Gathered, HeaderTill
    <3> QED  BY <3>1, <3>2
  <2>3. HeaderOpen(stream, pos, pos + 1, Flushed')
    BY <1>2, <1>3, <1>5, <1>8, <2>1, <2>2, HeaderBegins
  <2>4. IsLast(stream, pos, pos + 1)
    BY <1>3, <2>1, BegunGrows
  <2>5. trailing => InTrailer(stream, pos)
    BY <1>3, <1>5, TrailerGoesOn
  <2> QED  BY <1>6, <2>3, <2>4, <2>5
<1> QED  BY <1>1, <1>7, <1>8

LEMMA ValueByteGathered ==
  ASSUME Grammatical, Typed, Within, Gathered, NextByte, st' = "value"
  PROVE  Gathered'
<1>1. /\ Marks' /\ pos' = pos + 1 /\ UNCHANGED <<stream, trailing>>
      /\ st \in {"discard_ws", "value", "value_lws"}
      /\ stream[pos] = "value" \/ (stream[pos] = "sp" /\ st \in {"value", "value_lws"})
  BY NextByteMarks, SilentCases DEF Gathered, PastHeaders
<1>2. Flushed' = OnHeaderValue(Flushed, <<pos>>)
  BY TextByteFlushed DEF Gathered
<1>3. stream \in Seq(Kinds) /\ pos \in Nat /\ Flushed \in Req
  BY StreamAtHand
<1>4. Flushed'.wasValue
  BY <1>2, <1>3, CallbackParts
<1>5. PICK l : /\ IsLast(stream, l, pos) /\ HeaderOpen(stream, l, pos, Flushed)
               /\ HeaderTill(l) /\ ~Stored(l)
  BY <1>1, InHeaderHasLast DEF InHeader, Unvalued
<1>6. stream[pos] = "value" \/ (stream[pos] = "sp" /\ ValueTill(stream, l, pos) # {})
  BY <1>1, <1>5 DEF HeaderTill
<1>7. HeaderOpen(stream, l, pos + 1, Flushed')
  BY <1>2, <1>3, <1>5, <1>6, HeaderValueGrows
<1>8. IsLast(stream, l, pos + 1)
  <2>1. pos \notin Names(stream)
    BY <1>6 DEF Names
  <2> QED  BY <1>3, <1>5, <2>1, BegunGrows DEF IsLast
<1>9. ValueTill(stream, l, pos + 1) # {}
  <2>1. l \in Nat /\ l < pos
    BY <1>3, <1>5, BegunAreBytes DEF IsLast
  <2>2. ValueTill(stream, l, pos + 1) = ValueTill(stream, l, pos) \cup {pos}
    BY <1>3, <1>6, <2>1, ValueByte
  <2> QED  BY <2>2
<1>10. ~Stored(l)'
  BY <1>1, <1>5 DEF Stored, PastHeaders
<1>11. HeaderTill(l)'
  BY <1>1, <1>7, <1>9, <1>10 DEF HeaderTill, PastHeaders
<1>12. st' \in InHeader /\ st' \notin Unvalued /\ st' # "message_done" /\ pos' \in Nat
  BY <1>1, <1>3 DEF InHeader, Unvalued
<1> QED  BY <1>1, <1>4, <1>8, <1>11, <1>12, LastGathered

\* URLs and bodies are no headers.
LEMMA OtherCallbacks ==
  ASSUME NEW r \in Req, NEW t
  PROVE  SameHeaders(r, r) /\ SameHeaders(OnUrl(r, t), r) /\ SameHeaders(OnBody(r, t), r)
  BY DEF OnUrl, OnBody, Req, SameHeaders

LEMMA LastName ==
  ASSUME Typed, NEW l, IsLast(stream, l, pos)
  PROVE  l \in Nat /\ 1 <= l /\ l <= pos - 1 /\ (InTrailer(stream, l) => InTrailer(stream, pos - 1))
<1>1. l \in Nat /\ 1 <= l /\ l < pos /\ pos \in Nat
  BY StreamAtHand, BegunAreBytes DEF IsLast
<1>2. l <= pos - 1 /\ 1 .. l \subseteq 1 .. pos - 1
  BY <1>1
<1> QED  BY <1>1, <1>2 DEF InTrailer

\* A step of the parser that goes on to another state, between texts, and adds nothing
\* to a header.
LEMMA QuietStep ==
  ASSUME Typed, Gathered, UNCHANGED <<stream, trailing>>, pc' = "parse", mark' = 0,
         SameHeaders(req', Flushed),
         st' \notin {"url", "field", "value", "message_done"}, st # "message_done",
         st' \in Unvalued <=> st \in Unvalued,
         st' \in InHeader => st \in InHeader,
         st' = "value_lws" => st = "value",
         st' \in PastHeaders <=> st \in PastHeaders,
         trailing => st' \in InHeader \cup {"field_start"},
         \/ pos' = pos
         \/ pos' = pos + 1 /\ stream[pos] \notin {"field", "value", "sp"}
  PROVE  Gathered'
<1>1. Flushed' = req'
  BY DEF Flushed
<1>2. Marks'
  BY DEF Marks
<1>3. ASSUME NEW l, IsLast(stream, l, pos)
      PROVE  (Stored(l)' <=> Stored(l)) /\ (st' \in PastHeaders => ~InTrailer(stream, l))
  <2>1. HeaderTill(l)
    BY <1>3 DEF Gathered
  <2> QED  BY <2>1 DEF HeaderTill, Stored
<1>4. Quiet
  BY <1>1, <1>2, <1>3 DEF Quiet
<1> QED  BY <1>4, QuietGathered

LEMMA QuietByteGathered ==
  ASSUME Typed, Gathered, NextByte, stream[pos] # "field", st' # "value"
  PROVE  Gathered'
<1>1. /\ Marks' /\ pc = "parse" /\ pos' = pos + 1 /\ UNCHANGED <<stream, req, trailing>>
      /\ <<st, stream[pos], st'>> \in Silent
  BY NextByteMarks DEF Gathered
<1>2. \/ st \in {"start", "method", "url", "line"}
         /\ st' \in {"method", "url", "line", "field_start"}
         /\ stream[pos] \in {"method", "slash", "char", "line", "eol"}
      \/ st \in {"discard_ws", "discard_lws"} /\ st' \in {"discard_ws", "discard_lws"}
         /\ stream[pos] \in {"sp", "eol"}
      \/ st \in PastHeaders /\ st' \in PastHeaders /\ stream[pos] \in {"size", "eol", "body", "last"}
  BY <1>1, SilentCases
<1>3. SameHeaders(Flushed', Flushed)
  BY <1>2, TextByteFlushed, StreamAtHand, OtherCallbacks DEF Gathered, PastHeaders
<1>4. ASSUME NEW l, IsLast(stream, l, pos)
      PROVE  (Stored(l)' <=> Stored(l)) /\ (st' \in PastHeaders => ~InTrailer(stream, l))
  <2>1. HeaderTill(l)
    BY <1>4 DEF Gathered
  <2> QED  BY <1>1, <1>2, <2>1 DEF HeaderTill, Stored, PastHeaders
<1>5. trailing => st \in InHeader \cup {"field_start", "message_done"}
  BY DEF Gathered
<1>6. Quiet
  BY <1>1, <1>2, <1>3, <1>4, <1>5 DEF Quiet, Unvalued, InHeader, PastHeaders
<1> QED  BY <1>6, QuietGathered

\* The ends of texts hand over what is marked.
LEMMA TextEndGathered ==
  ASSUME Typed, Gathered, UrlEnd \/ NameEnd \/ ValueEnd \/ HeaderEnd
  PROVE  Gathered'
<1>1. /\ pc = "parse" /\ pc' = "parse" /\ mark' = 0 /\ UNCHANGED <<stream, trailing>>
      /\ st \in {"url", "field", "value"} => mark # 0
  BY DEF UrlEnd, NameEnd, ValueEnd, HeaderEnd, ByteIn, Parsing, Consume, Reexecute, input,
         Gathered, Marks
<1>2. trailing => st \in InHeader \cup {"field_start", "message_done"}
  BY DEF Gathered
<1>3. req \in Req
  BY StreamAtHand
<1>4. CASE UrlEnd
  <2>1. /\ st = "url" /\ st' \in {"field_start", "line"} /\ pos' = pos + 1
        /\ stream[pos] \in {"line", "eol"} /\ req' = OnUrl(req, Piece(mark, pos))
    BY <1>4 DEF UrlEnd, Url, ByteIn, Consume
  <2>2. Flushed = req
    BY <2>1 DEF Flushed
  <2> QED
    BY <1>1, <1>2, <1>3, <2>1, <2>2, OtherCallbacks, QuietStep DEF Unvalued, InHeader, PastHeaders
<1>5. CASE NameEnd
  <2>1. /\ st = "field" /\ st' = "discard_ws" /\ pos' = pos + 1 /\ stream[pos] = "colon"
        /\ req' = OnHeaderField(req, Piece(mark, pos))
    BY <1>5 DEF NameEnd, ByteIn, Consume
  <2>2. Flushed = req' /\ SameHeaders(req', req')
    BY <1>1, <2>1 DEF Flushed, SameHeaders
  <2> QED
    BY <1>1, <1>2, <2>1, <2>2, QuietStep DEF Unvalued, InHeader, PastHeaders
<1>6. CASE ValueEnd
  <2>1. /\ st = "value" /\ st' = "value_lws" /\ pos' = pos + 1 /\ stream[pos] = "eol"
        /\ req' = OnHeaderValue(req, Piece(mark, pos))
    BY <1>6 DEF ValueEnd, ByteIn, Consume
  <2>2. Flushed = req' /\ SameHeaders(req', req')
    BY <1>1, <2>1 DEF Flushed, SameHeaders
  <2> QED
    BY <1>1, <1>2, <2>1, <2>2, QuietStep DEF Unvalued, InHeader, PastHeaders
<1>7. CASE HeaderEnd
  <2>1. st = "value_lws" /\ st' = "field_start" /\ pos' = pos /\ req' = req
    BY <1>7 DEF HeaderEnd, Reexecute
  <2>2. Flushed = req
    BY <2>1 DEF Flushed
  <2> QED
    BY <1>1, <1>2, <1>3, <2>1, <2>2, OtherCallbacks, QuietStep DEF Unvalued, InHeader, PastHeaders
<1> QED  BY <1>4, <1>5, <1>6, <1>7

\* The bodies, and the line ends of chunks and trailers.
LEMMA BodyStepGathered ==
  ASSUME Typed, Gathered, BodyEnd \/ ChunkEnd \/ LastChunk \/ TrailersComplete
  PROVE  Gathered'
<1>1. /\ pc = "parse" /\ pc' = "parse" /\ mark' = 0 /\ UNCHANGED stream
      /\ st \notin {"field", "value", "message_done"}
  BY DEF BodyEnd, ChunkEnd, LastChunk, TrailersComplete, ByteIn, Parsing, Consume, Reexecute,
         input
<1>2. req \in Req /\ Flushed = req
  BY <1>1, StreamAtHand DEF Flushed
<1>3. \A l : IsLast(stream, l, pos) => HeaderTill(l)
  BY DEF Gathered
<1>4. trailing => st \in InHeader \cup {"field_start", "message_done"}
  BY DEF Gathered
<1>5. CASE ChunkEnd
  <2>1. /\ st = "chunk_data" /\ st' = "chunk_size" /\ pos' = pos + 1 /\ stream[pos] = "eol"
        /\ req' = (IF mark = 0 THEN req ELSE OnBody(req, Piece(mark, pos)))
        /\ UNCHANGED trailing
    BY <1>5 DEF ChunkEnd, ByteIn, Consume
  <2>2. SameHeaders(req', Flushed)
    BY <1>2, <2>1, OtherCallbacks
  <2> QED
    BY <1>1, <1>4, <2>1, <2>2, QuietStep DEF Unvalued, InHeader, PastHeaders
<1>6. CASE BodyEnd
  <2>1. /\ st = "body" /\ st' = "message_done" /\ pos' = pos /\ stream[pos] = "body"
        /\ req' = OnBody(req, Piece(From, pos + 1)) /\ UNCHANGED trailing
    BY <1>6 DEF BodyEnd, ByteIn, Reexecute
  <2>2. Flushed' = req' /\ SameHeaders(req', Flushed)
    BY <1>2, <2>1, OtherCallbacks DEF Flushed
  <2>3. Marks'
    BY <1>1, <2>1 DEF Marks
  <2>4. Quiet
    BY <1>1, <1>3, <2>1, <2>2, <2>3
       DEF Quiet, HeaderTill, Stored, Unvalued, InHeader, PastHeaders
  <2> QED  BY <2>4, QuietGathered
<1>7. CASE LastChunk
  <2>1. /\ st = "last_chunk" /\ st' = "field_start" /\ pos' = pos + 1 /\ stream[pos] = "eol"
        /\ req' = req /\ trailing'
    BY <1>7 DEF LastChunk, ByteIn, Consume
  <2>2. Flushed' = req' /\ SameHeaders(req', Flushed)
    BY <1>2, <2>1, OtherCallbacks DEF Flushed
  <2>3. Marks'
    BY <1>1, <2>1 DEF Marks
  <2>4. Quiet
    BY <1>1, <1>3, <2>1, <2>2, <2>3
       DEF Quiet, HeaderTill, Stored, Unvalued, InHeader, PastHeaders
  <2> QED  BY <2>4, QuietGathered
<1>8. CASE TrailersComplete
  <2>1. /\ st = "field_start" /\ st' = "message_done" /\ pos' = pos /\ stream[pos] = "eol"
        /\ req' = req /\ trailing /\ trailing'
    BY <1>8 DEF TrailersComplete, ByteIn, Reexecute
  <2>2. Flushed' = req' /\ SameHeaders(req', Flushed)
    BY <1>2, <2>1, OtherCallbacks DEF Flushed
  <2>3. Marks'
    BY <1>1, <2>1 DEF Marks
  <2>4. Quiet
    BY <1>1, <1>3, <2>1, <2>2, <2>3
       DEF Quiet, HeaderTill, Stored, Unvalued, InHeader, PastHeaders
  <2> QED  BY <2>4, QuietGathered
<1> QED  BY <1>5, <1>6, <1>7, <1>8

\* A header without a value gets an empty one.
LEMMA EmptyValueGathered ==
  ASSUME Typed, Gathered, EmptyValue
  PROVE  Gathered'
<1>1. /\ st = "discard_lws" /\ st' = "field_start" /\ pos' = pos /\ mark' = 0
      /\ req' = OnHeaderValue(req, << >>) /\ pc' = "parse" /\ UNCHANGED <<stream, trailing>>
  BY DEF EmptyValue, Parsing, Reexecute, input
<1>2. Flushed = req /\ Flushed' = OnHeaderValue(req, << >>) /\ req \in Req
  BY <1>1, StreamAtHand DEF Flushed
<1>3. PICK l : /\ IsLast(stream, l, pos) /\ HeaderOpen(stream, l, pos, Flushed)
               /\ HeaderTill(l) /\ ~Stored(l)
  BY <1>1, InHeaderHasLast DEF InHeader, Unvalued
<1>4. ~req.wasValue
  BY <1>1, <1>2 DEF Gathered, Unvalued
<1>5. HeaderOpen(stream, l, pos, Flushed') /\ Flushed'.wasValue
  BY <1>2, <1>3, <1>4, HeaderEmpty, CallbackParts
<1>6. HeaderTill(l)'
  BY <1>1, <1>3, <1>5 DEF HeaderTill, Stored, InHeader, Unvalued, PastHeaders
<1>7. Marks' /\ st' \notin Unvalued /\ pos \in Nat
  BY <1>1, StreamAtHand DEF Marks, Unvalued
<1> QED  BY <1>1, <1>3, <1>5, <1>6, <1>7, LastGathered

\* The last header before the body is stored when the headers are complete.
LEMMA HeadersCompleteGathered ==
  ASSUME Typed, Within, Gathered, HeadersComplete
  PROVE  Gathered'
<1>1. /\ st = "field_start" /\ st' \in {"chunk_size", "body", "message_done"} /\ mark' = 0
      /\ pos' \in {pos, pos + 1} /\ stream[pos] = "eol" /\ ~trailing
      /\ st' = "message_done" => pos' = pos
      /\ req' = OnHeadersComplete(req) /\ pc' = "parse" /\ UNCHANGED <<stream, trailing>>
  BY DEF HeadersComplete, ByteIn, Parsing, Reexecute, Consume, input
<1>2. /\ Flushed = req /\ Flushed' = OnHeadersComplete(req) /\ req \in Req /\ req.wasValue
      /\ stream \in Seq(Kinds) /\ pos \in Nat /\ pos' \in Nat
  BY <1>1, StreamAtHand DEF Flushed, Gathered, Unvalued
<1>3. Marks' /\ st' \notin Unvalued /\ st' \notin InHeader
  BY <1>1 DEF Marks, Unvalued, InHeader
<1>4. Begun(stream', pos') = Begun(stream, pos)
  <2>1. pos \notin Names(stream)
    BY <1>1 DEF Names
  <2> QED  BY <1>1, <1>2, <2>1, BegunGrows
<1>5. CASE Begun(stream, pos) = {}
  <2>1. req.headers = {} /\ req.field = << >>
    BY <1>2, <1>5 DEF Gathered, NoHeader
  <2>2. Flushed' = req
    BY <1>2, <2>1 DEF OnHeadersComplete
  <2>3. NoHeader' /\ \A l : ~IsLast(stream', l, pos')
    BY <1>3, <1>4, <1>5, <2>1, <2>2 DEF NoHeader, IsLast
  <2> QED  BY <1>1, <1>2, <1>3, <2>2, <2>3 DEF Gathered
<1>6. CASE Begun(stream, pos) # {}
  <2>1. PICK l : IsLast(stream, l, pos)
    BY <1>2, <1>6, OneIsLast
  <2>2. ~InTrailer(stream, l)
    BY <1>1, <2>1, LastName DEF Within
  <2>3. HeaderTill(l) /\ ~Stored(l)
    BY <1>1, <2>1 DEF Gathered, Stored, PastHeaders
  <2>4. HeaderOpen(stream, l, pos, req)
    BY <1>2, <2>3 DEF HeaderTill
  <2>5. HeaderKept(stream, l, pos, Flushed') /\ Flushed'.wasValue
    BY <1>2, <2>1, <2>4, HeaderComplete
  <2>6. HeaderKept(stream, l, pos', Flushed')
    <3>1. CASE pos' = pos
      BY <2>5, <3>1
    <3>2. CASE pos' = pos + 1
      <4>1. l \in Nat /\ l < pos
        BY <1>2, <2>1, BegunAreBytes DEF IsLast
      <4>2. /\ NameTill(stream, l, pos + 1) = NameTill(stream, l, pos)
            /\ ValueTill(stream, l, pos + 1) = ValueTill(stream, l, pos)
        BY <1>1, <1>2, <4>1, QuietByte
      <4> QED  BY <2>5, <3>2, <4>2 DEF HeaderKept, HeaderIs
    <3> QED  BY <1>1, <3>1, <3>2
  <2>7. HeaderTill(l)'
    BY <1>1, <1>3, <2>2, <2>6 DEF HeaderTill, Stored, PastHeaders
  <2>8. IsLast(stream, l, pos')
    BY <1>1, <1>4, <2>1 DEF IsLast
  <2> QED  BY <1>1, <1>2, <1>3, <2>5, <2>7, <2>8, LastGathered
<1> QED  BY <1>5, <1>6

\* The parser refuses a byte, or a read is used up.
LEMMA StopGathered ==
  ASSUME Typed, Gathered, Refuse \/ ReadEnd
  PROVE  Gathered'
<1>1. UNCHANGED <<stream, pos, st, trailing>>
  BY DEF Refuse, ReadEnd, input
<1>2. req \in Req
  BY StreamAtHand
<1>3. SameHeaders(Flushed', Flushed) /\ Marks'
  <2>1. CASE Refuse
    <3>1. UNCHANGED <<mark, req>> /\ pc' = "loop" /\ errno' = "syntax"
      BY <2>1 DEF Refuse
    <3> QED  BY <1>1, <3>1 DEF Flushed, SameHeaders, Marks, Gathered
  <2>2. CASE ReadEnd
    <3>1. mark' = 0 /\ pc' = "loop"
      BY <2>2 DEF ReadEnd
    <3>2. \/ req' = Flushed
          \/ Flushed = req /\ \E t : req' = OnUrl(req, t) \/ req' = OnBody(req, t)
      BY <2>2 DEF ReadEnd, Url, Flushed
    <3>3. SameHeaders(req', Flushed)
      BY <1>2, <3>2, OtherCallbacks DEF SameHeaders
    <3>4. Flushed' = req'
      BY <3>1 DEF Flushed
    <3> QED  BY <3>1, <3>3, <3>4 DEF Marks
  <2> QED  BY <2>1, <2>2
<1>4. \A l : IsLast(stream, l, pos) => HeaderTill(l)
  BY DEF Gathered
<1>5. Quiet
  BY <1>1, <1>3, <1>4 DEF Quiet, Gathered, HeaderTill, Stored
<1> QED  BY <1>5, QuietGathered

\* The text that is open goes on in the next read.
LEMMA ReadGathered ==
  ASSUME Typed, Gathered, NEW n, Read(n)
  PROVE  Gathered'
<1>1. /\ UNCHANGED <<stream, pos, st, trailing, req, errno>> /\ pc = "loop"
      /\ IF errno = "ok"
         THEN pc' = "parse" /\ mark' = (IF st \in {"url", "field", "value"} THEN pos ELSE 0)
         ELSE UNCHANGED <<pc, mark>>
  BY DEF Read, InLoop
<1>2. req \in Req /\ pos \in Nat /\ 1 <= pos
  BY StreamAtHand
<1>3. CASE errno # "ok"
  BY <1>1, <1>3 DEF Gathered, Quiet, Marks, Flushed, HeaderTill, Stored, NoHeader
<1>4. CASE errno = "ok"
  <2>1. mark = 0 /\ Flushed = req
    BY <1>1, <1>4 DEF Gathered, Marks, Flushed
  <2>2. Marks'
    BY <1>1, <1>2, <1>4 DEF Marks, Marked
  <2>3. Piece(pos, pos) = << >> /\ req.field \o << >> = req.field /\ req.value \o << >> = req.value
    <3>1. req.field \in Seq(Nat) /\ req.value \in Seq(Nat)
      BY <1>2 DEF Req, Texts
    <3> QED  BY <1>2, <3>1, PieceGrows, ConcatEmptySeq
  <2>4. Flushed.wasValue <=> st \notin Unvalued
    BY DEF Gathered
  <2>5. SameHeaders(Flushed', Flushed)
    <3>1. CASE st = "field"
      <4>1. Flushed' = OnHeaderField(req, << >>) /\ ~req.wasValue
        BY <1>1, <1>2, <1>4, <2>1, <2>3, <2>4, <3>1 DEF Flushed, Unvalued
      <4>2. /\ OnHeaderField(req, << >>).field = req.field \o << >>
            /\ OnHeaderField(req, << >>).headers = req.headers
            /\ OnHeaderField(req, << >>).value = req.value
            /\ OnHeaderField(req, << >>).wasValue = req.wasValue
        BY <1>2, <4>1 DEF OnHeaderField, Req
      <4> QED  BY <2>1, <2>3, <4>1, <4>2 DEF SameHeaders
    <3>2. CASE st = "value"
      <4>1. Flushed' = OnHeaderValue(req, << >>) /\ req.wasValue
        BY <1>1, <1>2, <1>4, <2>1, <2>3, <2>4, <3>2 DEF Flushed, Unvalued
      <4>2. /\ OnHeaderValue(req, << >>).value = req.value \o << >>
            /\ OnHeaderValue(req, << >>).headers = req.headers
            /\ OnHeaderValue(req, << >>).field = req.field
            /\ OnHeaderValue(req, << >>).wasValue = req.wasValue
        BY <1>2, <4>1 DEF OnHeaderValue, Req
      <4> QED  BY <2>1, <2>3, <4>1, <4>2 DEF SameHeaders
    <3>3. CASE st \notin {"field", "value"}
      <4>1. Flushed' = req
        BY <1>1, <3>3 DEF Flushed
      <4> QED  BY <2>1, <4>1 DEF SameHeaders
    <3> QED  BY <3>1, <3>2, <3>3
  <2>6. \A l : IsLast(stream, l, pos) => HeaderTill(l)
    BY DEF Gathered
  <2>7. Quiet
    BY <1>1, <2>2, <2>5, <2>6 DEF Quiet, Gathered, HeaderTill, Stored
  <2> QED  BY <2>7, QuietGathered
<1> QED  BY <1>3, <1>4

LEMMA ElsewhereGathered ==
  ASSUME Typed, Gathered, UNCHANGED <<stream, pos, st, mark, trailing, req, pc>>,
         errno' = "ok" => errno = "ok"
  PROVE  Gathered'
<1>1. Flushed' = Flushed /\ Marks'
  BY DEF Gathered, Flushed, Marks
<1>2. \A l : IsLast(stream, l, pos) => HeaderTill(l)
  BY DEF Gathered
<1>3. Quiet
  BY <1>1, <1>2 DEF Quiet, SameHeaders, Gathered, HeaderTill, Stored
<1> QED  BY <1>3, QuietGathered

\* When all of the request has been parsed, the headers are those of the request and of
\* its trailers but the last.
LEMMA GatheredWhole ==
  ASSUME Grammatical, Typed, Within, Gathered, st = "message_done"
  PROVE  req.headers = HeadersOf(stream) \cup TrailersButLast(stream)
<1>1. /\ stream \in Seq(Kinds) /\ Len(stream) \in Nat /\ DOMAIN stream = 1 .. Len(stream)
      /\ pos \in Nat /\ pos = Ends(stream) /\ pos <= Len(stream) /\ IsRequest(stream)
  BY StreamAtHand, StreamIsRequest DEF Within, Came
<1>2. Flushed = req /\ Flushed.wasValue /\ stream[pos] \in {"eol", "body"}
  BY DEF Flushed, Gathered, Unvalued
<1>3. \A j \in pos .. Len(stream) : stream[j] \in {"eol", "body", "next"}
  <2> TAKE j \in pos .. Len(stream)
  <2>1. j = pos \/ ~(j <= Ends(stream))
    BY <1>1
  <2> QED  BY <1>1, <1>2, <2>1 DEF IsRequest
<1>4. Begun(stream, pos) = Names(stream) /\ \A k \in Names(stream) : k \in 1 .. Len(stream) /\ k < pos
  <2>1. \A k \in Names(stream) : k \in 1 .. Len(stream) /\ stream[k] = "field"
    BY <1>1 DEF Names
  <2>2. \A k \in Names(stream) : k < pos
    BY <1>1, <1>3, <2>1
  <2> QED  BY <2>1, <2>2 DEF Begun
<1>5. CASE Names(stream) = {}
  <2>1. req.headers = {}
    BY <1>2, <1>4, <1>5 DEF Gathered, NoHeader
  <2> QED  BY <1>5, <2>1 DEF HeadersOf, TrailersButLast
<1>6. CASE Names(stream) # {}
  <2>1. PICK l : IsLast(stream, l, pos)
    BY <1>1, <1>4, <1>6, OneIsLast
  <2>2. /\ l \in Names(stream) /\ l \in 1 .. Len(stream) /\ l < pos /\ l \in Nat
        /\ \A k \in Names(stream) : k <= l /\ k \in Nat /\ 1 <= k
    BY <1>4, <2>1 DEF IsLast
  <2>3. HeaderTill(l) /\ HeaderIs(stream, l, pos, req)
    BY <1>2, <2>1 DEF Gathered, HeaderTill, HeaderOpen, HeaderKept
  <2>4. HeaderOf(stream, l) = <<req.field, req.value>>
    <3>1. Line(stream, l) = l .. Len(stream)
      BY <2>2 DEF Line
    <3>2. {i \in Line(stream, l) : stream[i] \in {"field"}} = NameTill(stream, l, pos)
      BY <1>1, <1>3, <2>2, <3>1 DEF NameTill
    <3>3. {i \in ValueFrom(stream, Line(stream, l)) : stream[i] \in {"value", "sp"}}
            = ValueTill(stream, l, pos)
      <4>1. \A j \in l .. Len(stream) : (\E k \in l .. Len(stream) : k <= j /\ stream[k] = "value")
                                          <=> \E k \in l .. j : stream[k] = "value"
        BY <1>1, <2>2
      <4>2. \A j \in l .. Len(stream) : stream[j] \in {"value", "sp"} => j \in l .. pos - 1
        BY <1>1, <1>3, <2>2
      <4>3. l .. pos - 1 \subseteq l .. Len(stream)
        BY <1>1
      <4> QED  BY <3>1, <4>1, <4>2, <4>3 DEF ValueFrom, ValueTill
    <3> QED  BY <1>2, <2>3, <3>2, <3>3 DEF HeaderOf, Text, HeaderIs
  <2>5. Names(stream) = Begun(stream, l) \cup {l}
    <3>1. \A k \in Names(stream) : k < l \/ k = l
      BY <2>2
    <3> QED  BY <2>2, <3>1 DEF Begun
  <2>6. \A k \in Begun(stream, l) : k \in Names(stream) /\ k < l
    BY DEF Begun
  <2>7. CASE ~InTrailer(stream, l)
    <3>1. req.headers = HeadersTill(stream, l) \cup {HeaderOf(stream, l)}
      BY <1>2, <2>3, <2>4, <2>7 DEF HeaderTill, Stored, HeaderKept
    <3>2. \A k \in Names(stream) : ~InTrailer(stream, k)
      <4> TAKE k \in Names(stream)
      <4>1. 1 .. k \subseteq 1 .. l
        BY <2>2
      <4> QED  BY <2>7, <4>1 DEF InTrailer
    <3>3. HeadersOf(stream) = {HeaderOf(stream, i) : i \in Names(stream)}
          /\ TrailersButLast(stream) = {}
      BY <3>2 DEF HeadersOf, TrailersButLast
    <3> QED  BY <2>5, <3>1, <3>3 DEF HeadersTill
  <2>8. CASE InTrailer(stream, l)
    <3>1. req.headers = HeadersTill(stream, l)
      BY <1>2, <2>3, <2>8 DEF HeaderTill, Stored, PastHeaders, HeaderOpen
    <3>2. Begun(stream, l) = {j \in Names(stream) : ~InTrailer(stream, j)}
            \cup {j \in Names(stream) : InTrailer(stream, j) /\ \E k \in Names(stream) : j < k}
      BY <2>2, <2>5, <2>6, <2>8
    <3> QED  BY <3>1, <3>2 DEF HeadersTill, HeadersOf, TrailersButLast
  <2> QED  BY <2>7, <2>8
<1> QED  BY <1>5, <1>6

-----------------------------------------------------------------------------
(* All steps together *)

LEMMA InitGathered == Init => Gathered
<1> SUFFICES ASSUME Init PROVE Gathered
  OBVIOUS
<1>1. /\ pos = 1 /\ st = "start" /\ mark = 0 /\ ~trailing /\ pc = "loop" /\ errno = "ok"
      /\ req = NewRequest
  BY DEF Init
<1>2. Flushed = NewRequest /\ Marks
  BY <1>1 DEF Flushed, Marks
<1>3. stream \in Seq(Kinds) /\ Len(stream) \in Nat /\ DOMAIN stream = 1 .. Len(stream)
  BY InitTyped, StreamAtHand
<1>4. Begun(stream, pos) = {}
  <2>1. \A i \in DOMAIN stream : ~(i < 1)
    BY <1>3
  <2> QED  BY <1>1, <2>1 DEF Begun, Names
<1>5. NoHeader
  BY <1>1, <1>2 DEF NoHeader, NewRequest, InHeader, Unvalued
<1>6. \A l : ~IsLast(stream, l, pos)
  BY <1>4 DEF IsLast
<1> QED  BY <1>1, <1>2, <1>5, <1>6 DEF Gathered, NewRequest, Unvalued

\* The parser and the request agree until the handler is called.
LEMMA ParseGathered ==
  ASSUME Grammatical, Typed, Within, Gathered, Parse, pc # "handler", ~MessageComplete
  PROVE  Gathered'
<1>1. CASE NextByte
  <2>1. CASE stream[pos] = "field"
    BY <1>1, <2>1, NameByteGathered
  <2>2. CASE st' = "value"
    BY <1>1, <2>2, ValueByteGathered
  <2>3. CASE stream[pos] # "field" /\ st' # "value"
    BY <1>1, <2>3, QuietByteGathered
  <2> QED  BY <2>1, <2>2, <2>3
<1>2. CASE UrlEnd \/ NameEnd \/ ValueEnd \/ HeaderEnd
  BY <1>2, TextEndGathered
<1>3. CASE EmptyValue
  BY <1>3, EmptyValueGathered
<1>4. CASE HeadersComplete
  BY <1>4, HeadersCompleteGathered
<1>5. CASE BodyEnd \/ ChunkEnd \/ LastChunk \/ TrailersComplete
  BY <1>5, BodyStepGathered
<1>6. CASE Refuse \/ ReadEnd
  BY <1>6, StopGathered
<1>7. ~HandlerReturn
  BY DEF HandlerReturn
<1> QED  BY <1>1, <1>2, <1>3, <1>4, <1>5, <1>6, <1>7 DEF Parse

\* Until the handler is called, and after.
HeadersInv == (handled = 0 => Gathered) /\ HeadersWhole

LEMMA NextHeadersInv ==
  ASSUME Grammatical, IInv, Typed, Synced, HeadersInv, [Next]_vars
  PROVE  HeadersInv'
<1>1. CASE MessageComplete
  <2>1. /\ st = "message_done" /\ UNCHANGED <<stream, req>> /\ handled' = handled + 1 /\ handled = 0
    BY <1>1 DEF MessageComplete, Parsing, input, IInv, Before, After
  <2>2. req.headers = HeadersOf(stream) \cup TrailersButLast(stream)
    BY <2>1, GatheredWhole DEF HeadersInv, Synced
  <2> QED  BY <2>1, <2>2 DEF HeadersInv, HeadersWhole
<1>2. CASE Parse /\ ~MessageComplete
  <2>1. CASE handled = 0
    <3>1. Gathered' /\ handled' = 0
      BY <1>2, <2>1, ParseGathered, ParseCases
         DEF HeadersInv, Synced, ParserStep, HandlerReturn, IInv, Before, After
    <3> QED  BY <3>1 DEF HeadersInv, HeadersWhole
  <2>2. CASE handled = 1
    <3>1. UNCHANGED <<stream, req, handled>>
      BY <1>2, <2>2, ParseCases DEF ParserStep, HandlerReturn, IInv, Before, After, input
    <3> QED  BY <2>2, <3>1 DEF HeadersInv, HeadersWhole
  <2> QED  BY <2>1, <2>2 DEF IInv, Before, After
<1>3. CASE ~Parse
  <2>1. UNCHANGED <<stream, pos, st, trailing, req, handled>>
    BY <1>3 DEF Next, Accept, Read, ReadZero, Disconnect, End, LateWrite, WriteDone, CloseWrite,
                CloseDone, vars, input, life
  <2>2. ASSUME Gathered PROVE Gathered'
    <3>1. CASE \E n \in 1 .. Len(stream) : Read(n)
      BY <2>2, <3>1, ReadGathered
    <3>2. CASE ~(\E n \in 1 .. Len(stream) : Read(n))
      <4>1. UNCHANGED <<mark, pc>> /\ (errno' = "ok" => errno = "ok")
        BY <1>3, <3>2 DEF Next, Accept, ReadZero, Disconnect, End, LateWrite, WriteDone,
                          CloseWrite, CloseDone, vars, input, life
      <4> QED  BY <2>1, <2>2, <4>1, ElsewhereGathered
    <3> QED  BY <3>1, <3>2
  <2> QED  BY <2>1, <2>2 DEF HeadersInv, HeadersWhole
<1> QED  BY <1>1, <1>2, <1>3

\* For every set of requests, however reads cut them, and wherever an empty read comes
\* between: the headers that the handler sees are those of the request, and of its
\* trailers all but the last (HeadersWhole).
THEOREM HeadersAreWhole == Grammatical => (Spec => []HeadersWhole)
<1> SUFFICES ASSUME Grammatical PROVE Spec => []HeadersWhole
  OBVIOUS
<1>1. Init => HeadersInv
  BY InitGathered DEF HeadersInv, HeadersWhole, Init
<1>2. IInv /\ Typed /\ Synced /\ HeadersInv /\ [Next]_vars => HeadersInv'
  BY NextHeadersInv
<1>3. HeadersInv => HeadersWhole
  BY DEF HeadersInv
<1> QED  BY <1>1, <1>2, <1>3, Invariance, AlwaysTyped, AlwaysSynced, PTL DEF Spec

-----------------------------------------------------------------------------
(* The URL, and the body *)

\* The bytes of the URL, and of the body, that have been seen up to p.
UrlTill(s, p) == {j \in 1 .. p : s[j] \in {"slash", "char"}}
BodyTill(s, p) == {j \in 1 .. p : s[j] = "body"}

\* A read has ended in a text of these bytes, or right after it.
CutAmong(C, S, past) == \E c \in C : \E a, b \in S : a <= c /\ c < b + past

\* What the request would have if the text ended here.
UrlAtHand == IF st = "url" /\ mark # 0 THEN Piece(mark, pos) ELSE req.url
InBody == st \in {"body", "chunk_data"}
BodyAtHand == IF InBody /\ mark # 0 THEN Piece(mark, pos) ELSE req.body

\* The byte before this one, or this one if it is looked at a second time.
Seen == IF st = "message_done" THEN pos ELSE pos - 1

UrlGathered ==
  /\ \/ CutAmong(cuts, UrlTill(stream, pos - 1), 1)
     \/ /\ UrlAtHand = InOrder(UrlTill(stream, pos - 1))
        /\ st = "url" => mark # 0
  /\ st \in {"start", "method"} => UrlTill(stream, pos - 1) = {}

BodyGathered ==
  /\ \/ CutAmong(cuts, BodyTill(stream, Seen), 0)
     \/ Cardinality(ChunksOf(stream)) > 1
     \/ BodyAtHand = InOrder(BodyTill(stream, Seen))
  /\ InBody /\ mark = 0 /\ stream[pos - 1] = "body" => pos - 1 \in cuts

\* The end of the read that is parsed is known as a cut.
CutKnown == pc = "parse" => end \in cuts

LEMMA TextsTill ==
  ASSUME NEW s, NEW p \in Nat, 1 <= p
  PROVE  /\ UrlTill(s, p - 1) \in SUBSET (1 .. p - 1)
         /\ UrlTill(s, p) = IF s[p] \in {"slash", "char"} THEN UrlTill(s, p - 1) \cup {p}
                                                          ELSE UrlTill(s, p - 1)
         /\ BodyTill(s, p - 1) \in SUBSET (1 .. p - 1)
         /\ BodyTill(s, p) = IF s[p] = "body" THEN BodyTill(s, p - 1) \cup {p}
                                              ELSE BodyTill(s, p - 1)
<1>1. 1 .. p = (1 .. p - 1) \cup {p}
  OBVIOUS
<1> QED  BY <1>1 DEF UrlTill, BodyTill

\* The bytes of a URL and of a body that are parsed are marked.
LEMMA MarkedBytes ==
  ASSUME Typed, Marks, NextByte
  PROVE  /\ stream[pos] \in {"slash", "char"} =>
              st \in {"method", "url"} /\ st' = "url" /\ mark' = From
         /\ stream[pos] \notin {"slash", "char"} => st # "url" /\ st' # "url"
         /\ stream[pos] = "body" => InBody /\ st' = st /\ mark' = From
         /\ stream[pos] # "body" =>
              ~InBody /\ (st' \in {"body", "chunk_data"} => stream[pos] = "eol" /\ mark' = 0)
         /\ st' \in {"start", "method"} => st \in {"start", "method"}
         /\ st # "message_done" /\ st' # "message_done"
<1>1. PICK step \in Silent :
        /\ step[1] = st /\ step[2] = stream[pos] /\ st' = step[3]
        /\ mark' = IF step[3] \in Marked /\ step[2] # "eol" THEN From ELSE 0
  BY DEF NextByte
<1> QED  BY <1>1 DEF Silent, RequestLine, HeaderName, HeaderValue, Chunks, Marked, InBody

\* Reads that end elsewhere do not take a cut away, nor does a longer text.
LEMMA CutStays ==
  ASSUME NEW C, NEW D, C \subseteq D, NEW S, NEW T, S \subseteq T, NEW past, CutAmong(C, S, past)
  PROVE  CutAmong(D, T, past)
  BY DEF CutAmong

\* A step that adds nothing to the URL.
LEMMA UrlStays ==
  ASSUME UrlGathered, UNCHANGED stream, cuts \subseteq cuts', UrlAtHand' = UrlAtHand,
         UrlTill(stream, pos' - 1) = UrlTill(stream, pos - 1),
         st' = "url" /\ mark' = 0 => st = "url" /\ mark = 0,
         st' \in {"start", "method"} => st \in {"start", "method"}
  PROVE  UrlGathered'
<1>1. UrlTill(stream', pos' - 1) = UrlTill(stream, pos - 1)
  OBVIOUS
<1>2. CutAmong(cuts, UrlTill(stream, pos - 1), 1) => CutAmong(cuts', UrlTill(stream, pos - 1), 1)
  BY CutStays
<1> QED  BY <1>1, <1>2 DEF UrlGathered

\* ... and one that adds nothing to the body.
LEMMA BodyStays ==
  ASSUME BodyGathered, UNCHANGED stream, cuts \subseteq cuts', BodyAtHand' = BodyAtHand,
         BodyTill(stream, Seen') = BodyTill(stream, Seen),
         InBody' /\ mark' = 0 /\ stream[pos' - 1] = "body" => pos' - 1 \in cuts'
  PROVE  BodyGathered'
<1>1. BodyTill(stream', Seen') = BodyTill(stream, Seen)
  OBVIOUS
<1>2. CutAmong(cuts, BodyTill(stream, Seen), 0) => CutAmong(cuts', BodyTill(stream, Seen), 0)
  BY CutStays
<1> QED  BY <1>1, <1>2 DEF BodyGathered

-----------------------------------------------------------------------------
(* The URL *)

\* A byte of the URL goes to the end of what is there.
LEMMA NextByteUrl ==
  ASSUME Typed, Marks, UrlGathered, NextByte
  PROVE  UrlGathered'
<1>1. /\ pc = "parse" /\ pos' = pos + 1 /\ UNCHANGED <<stream, cuts, req>>
      /\ pos \in Nat /\ 1 <= pos /\ mark \in Nat
  BY NextByteMarks, StreamAtHand DEF NextByte, input
<1> DEFINE S == UrlTill(stream, pos - 1)
<1>2. /\ S \in SUBSET (1 .. pos - 1) /\ pos' - 1 = pos
      /\ UrlTill(stream, pos) = IF stream[pos] \in {"slash", "char"} THEN S \cup {pos} ELSE S
  BY <1>1, TextsTill
<1>3. CASE stream[pos] \notin {"slash", "char"}
  <2>1. st # "url" /\ st' # "url" /\ (st' \in {"start", "method"} => st \in {"start", "method"})
    BY <1>3, MarkedBytes
  <2>2. UrlAtHand' = UrlAtHand
    BY <1>1, <2>1 DEF UrlAtHand
  <2> QED  BY <1>1, <1>2, <1>3, <2>1, <2>2, UrlStays
<1>4. CASE stream[pos] \in {"slash", "char"}
  <2>1. st \in {"method", "url"} /\ st' = "url" /\ mark' = From
    BY <1>4, MarkedBytes
  <2>2. S \in SUBSET Nat /\ IsFiniteSet(S) /\ InOrder(S \cup {pos}) = InOrder(S) \o <<pos>>
    <3> HIDE DEF S
    <3> QED  BY <1>1, <1>2, NextOfKind
  <2>3. UrlTill(stream', pos' - 1) = S \cup {pos}
    BY <1>1, <1>2, <1>4
  <2>4. mark' # 0 /\ UrlAtHand' = Piece(From, pos + 1)
    BY <1>1, <2>1 DEF UrlAtHand, From
  <2>5. CASE st = "method"
    <3>1. mark = 0 /\ From = pos /\ S = {}
      BY <2>5 DEF Marks, Marked, From, UrlGathered
    <3>2. UrlAtHand' = <<pos>> /\ InOrder({pos}) = <<pos>>
      BY <1>1, <2>4, <3>1, PieceGrows, InOrderOfOne
    <3> QED  BY <2>1, <2>3, <2>4, <3>1, <3>2 DEF UrlGathered
  <2>6. CASE st = "url"
    <3>1. mark # 0 /\ mark <= pos /\ From = mark /\ UrlAtHand = Piece(mark, pos)
      BY <1>1, <2>6 DEF Marks, From, UrlAtHand
    <3>2. UrlAtHand' = UrlAtHand \o <<pos>>
      BY <1>1, <2>4, <3>1, PieceGrows
    <3>3. CutAmong(cuts, S, 1) => CutAmong(cuts', S \cup {pos}, 1)
      BY <1>1, CutStays
    <3>4. CutAmong(cuts, S, 1) \/ UrlAtHand = InOrder(S)
      BY DEF UrlGathered
    <3> HIDE DEF S
    <3> QED  BY <2>1, <2>2, <2>3, <2>4, <3>2, <3>3, <3>4 DEF UrlGathered
  <2> QED  BY <2>1, <2>5, <2>6
<1> QED  BY <1>3, <1>4

\* The URL at its end, or at the end of a read, which cuts it.
LEMMA UrlHandedOver ==
  ASSUME Typed, Within, Marks, CutKnown, UrlGathered, UrlEnd \/ (ReadEnd /\ st = "url")
  PROVE  UrlGathered'
<1>1. UNCHANGED <<stream, cuts>> /\ pc = "parse" /\ st = "url" /\ mark # 0 /\ mark' = 0
      /\ pos \in Nat /\ 1 <= pos /\ end \in Nat /\ req \in Req
  BY StreamAtHand DEF UrlEnd, ReadEnd, ByteIn, Parsing, Consume, input, Marks
<1>2. req'.url = Piece(mark, pos) /\ UrlAtHand = Piece(mark, pos)
  <2>1. req' = OnUrl(req, Piece(mark, pos))
    BY <1>1 DEF UrlEnd, ReadEnd, Url
  <2> QED  BY <1>1, <2>1 DEF OnUrl, Req, UrlAtHand
<1>3. CASE UrlEnd
  <2>1. st' \in {"field_start", "line"} /\ pos' = pos + 1 /\ stream[pos] \in {"line", "eol"}
    BY <1>3 DEF UrlEnd, ByteIn, Consume
  <2>2. UrlAtHand' = UrlAtHand
    BY <1>2, <2>1 DEF UrlAtHand
  <2>3. UrlTill(stream, pos' - 1) = UrlTill(stream, pos - 1)
    <3>1. pos' - 1 = pos
      BY <1>1, <2>1
    <3> QED  BY <1>1, <2>1, <3>1, TextsTill
  <2> QED  BY <1>1, <2>1, <2>2, <2>3, UrlStays
<1>4. CASE ReadEnd
  <2>1. st' = st /\ pos' = pos /\ pos > end /\ pos <= end + 1 /\ end \in cuts
    BY <1>1, <1>4, TextsAtHand DEF ReadEnd, Typed, CutKnown
  <2>2. stream[pos - 1] \in {"slash", "char"} /\ pos - 1 \in 1 .. pos - 1
    BY <1>1 DEF Within, Came
  <2>3. pos - 1 \in UrlTill(stream, pos - 1) /\ pos - 1 = end /\ end < end + 1 /\ end <= end
    BY <1>1, <2>1, <2>2 DEF UrlTill
  <2>4. CutAmong(cuts', UrlTill(stream', pos' - 1), 1)
    BY <1>1, <2>1, <2>3 DEF CutAmong
  <2> QED  BY <1>1, <2>1, <2>4 DEF UrlGathered
<1> QED  BY <1>3, <1>4

\* What the other callbacks leave alone.
LEMMA KeptByCallbacks ==
  ASSUME NEW r \in Req, NEW t
  PROVE  /\ OnUrl(r, t).body = r.body /\ OnBody(r, t).url = r.url
         /\ OnHeaderField(r, t).url = r.url /\ OnHeaderField(r, t).body = r.body
         /\ OnHeaderValue(r, t).url = r.url /\ OnHeaderValue(r, t).body = r.body
         /\ OnHeadersComplete(r).url = r.url /\ OnHeadersComplete(r).body = r.body
         /\ OnUrl(r, t).url = t /\ OnBody(r, t).body = t
<1>1. OnUrl(r, t).body = r.body /\ OnBody(r, t).url = r.url /\ OnUrl(r, t).url = t /\ OnBody(r, t).body = t
  BY DEF OnUrl, OnBody, Req
<1>2. OnHeaderField(r, t).url = r.url /\ OnHeaderField(r, t).body = r.body
  BY DEF OnHeaderField, Store, Req
<1>3. OnHeaderValue(r, t).url = r.url /\ OnHeaderValue(r, t).body = r.body
  BY DEF OnHeaderValue, Req
<1>4. OnHeadersComplete(r).url = r.url /\ OnHeadersComplete(r).body = r.body
  BY DEF OnHeadersComplete, Store, Req
<1> QED  BY <1>1, <1>2, <1>3, <1>4

\* The parser after the URL.
LEMMA UrlLeftAlone ==
  ASSUME Typed, UrlGathered,
         \/ NameEnd \/ ValueEnd \/ HeaderEnd \/ EmptyValue \/ HeadersComplete \/ BodyEnd
         \/ ChunkEnd \/ LastChunk \/ TrailersComplete \/ Refuse \/ (ReadEnd /\ st # "url")
  PROVE  UrlGathered'
<1>1. UNCHANGED <<stream, cuts>> /\ pos \in Nat /\ 1 <= pos /\ req \in Req
  BY StreamAtHand
     DEF NameEnd, ValueEnd, HeaderEnd, EmptyValue, HeadersComplete, BodyEnd, ChunkEnd, LastChunk,
         TrailersComplete, Refuse, ReadEnd, input
<1>2. CASE Refuse
  <2>1. UNCHANGED <<pos, st, mark, req>>
    BY <1>2 DEF Refuse
  <2> QED  BY <1>1, <2>1, UrlStays DEF UrlAtHand
<1>3. CASE ~Refuse
  <2>1. st # "url" /\ st' # "url" /\ (st' \in {"start", "method"} => st \in {"start", "method"})
    BY <1>3 DEF NameEnd, ValueEnd, HeaderEnd, EmptyValue, HeadersComplete, BodyEnd, ChunkEnd,
                LastChunk, TrailersComplete, ReadEnd, ByteIn, Parsing, Consume, Reexecute
  <2>2. pos' = pos \/ (pos' = pos + 1 /\ stream[pos] \notin {"slash", "char"})
    BY <1>3 DEF NameEnd, ValueEnd, HeaderEnd, EmptyValue, HeadersComplete, BodyEnd, ChunkEnd,
                LastChunk, TrailersComplete, ReadEnd, ByteIn, Parsing, Consume, Reexecute
  <2>3. \/ req' = req \/ req' = OnHeadersComplete(req)
        \/ \E t : req' = OnHeaderField(req, t) \/ req' = OnHeaderValue(req, t) \/ req' = OnBody(req, t)
    BY <1>3, <2>1 DEF NameEnd, ValueEnd, HeaderEnd, EmptyValue, HeadersComplete, BodyEnd,
                      ChunkEnd, LastChunk, TrailersComplete, ReadEnd
  <2>4. req'.url = req.url
    BY <1>1, <2>3, KeptByCallbacks
  <2>5. UrlAtHand' = UrlAtHand
    BY <2>1, <2>4 DEF UrlAtHand
  <2>6. UrlTill(stream, pos' - 1) = UrlTill(stream, pos - 1)
    <3>1. CASE pos' = pos + 1
      <4>1. pos' - 1 = pos
        BY <1>1, <3>1
      <4> QED  BY <1>1, <2>2, <3>1, <4>1, TextsTill
    <3> QED  BY <2>2, <3>1
  <2> QED  BY <1>1, <2>1, <2>5, <2>6, UrlStays
<1> QED  BY <1>2, <1>3

-----------------------------------------------------------------------------
(* The body *)

\* Bytes of a body before one that begins a chunk: there are two chunks.
LEMMA TwoChunks ==
  ASSUME Grammatical, Typed, pos \in DOMAIN stream, stream[pos] = "body", stream[pos - 1] # "body",
         BodyTill(stream, pos - 1) # {}
  PROVE  Cardinality(ChunksOf(stream)) > 1
<1> DEFINE S == BodyTill(stream, pos - 1)
<1>1. /\ IsRequest(stream) /\ Len(stream) \in Nat /\ DOMAIN stream = 1 .. Len(stream)
      /\ pos \in 1 .. Len(stream) /\ pos - 1 \in Nat
  BY StreamIsRequest
<1>2. PICK a : a \in S
  OBVIOUS
<1>3. S \in SUBSET (1 .. pos - 1) /\ \A j : j \in S <=> j \in 1 .. pos - 1 /\ stream[j] = "body"
  BY DEF BodyTill
<1> HIDE DEF S
<1>4. S \in SUBSET Nat /\ IsFiniteSet(S)
  BY <1>1, <1>3, SomeAreFinite
<1>5. PICK k \in S : \A j \in S : k <= j
  BY <1>2, <1>4, FirstAndLast
<1>6. k \in ChunksOf(stream) /\ k < pos
  <2>1. k \in 1 .. Len(stream) /\ k < pos /\ stream[k] = "body"
    BY <1>1, <1>3
  <2>2. k # 1
    BY <1>1, <2>1 DEF IsRequest
  <2>3. k - 1 \in 1 .. pos - 1 /\ ~(k <= k - 1)
    BY <1>1, <2>1, <2>2
  <2>4. stream[k - 1] # "body"
    BY <1>3, <1>5, <2>3
  <2> QED  BY <1>1, <2>1, <2>4 DEF ChunksOf
<1>7. pos \in ChunksOf(stream) /\ pos # k
  BY <1>1, <1>6 DEF ChunksOf
<1>8. IsFiniteSet(ChunksOf(stream))
  <2>1. ChunksOf(stream) \in SUBSET (1 .. Len(stream))
    BY <1>1 DEF ChunksOf
  <2> QED  BY <1>1, <2>1, SomeAreFinite
<1>9. Cardinality({k} \cup {pos}) = 2 /\ {k} \cup {pos} \subseteq ChunksOf(stream)
  <2>1. IsFiniteSet({k}) /\ Cardinality({k}) = 1 /\ pos \notin {k}
    BY <1>7, FS_Singleton
  <2>2. Cardinality({k} \cup {pos}) = Cardinality({k}) + 1
    BY <2>1, FS_AddElement
  <2> QED  BY <1>6, <1>7, <2>1, <2>2
<1> QED  BY <1>8, <1>9, FS_Subset, FS_CardinalityType

\* A byte of the body goes to the end of what is there, unless the chunk before or a read
\* before has handed that over.
LEMMA BodyGrows ==
  ASSUME Grammatical, Typed, Within, Marks, BodyGathered, UNCHANGED <<stream, cuts>>,
         InBody, stream[pos] = "body", BodyAtHand' = Piece(From, pos + 1), Seen' = pos,
         InBody' => mark' # 0
  PROVE  BodyGathered'
<1> DEFINE S == BodyTill(stream, pos - 1)
<1>1. /\ Len(stream) \in Nat /\ DOMAIN stream = 1 .. Len(stream)
      /\ pos \in 1 .. Len(stream) /\ 1 < pos /\ mark \in Nat /\ Seen = pos - 1
  BY StreamAtHand, StreamIsRequest DEF Within, InBody, Seen
<1>2. S \in SUBSET (1 .. pos - 1) /\ BodyTill(stream, pos) = S \cup {pos}
  BY <1>1, TextsTill
<1>3. BodyTill(stream', Seen') = S \cup {pos}
  BY <1>2
<1>4. CASE mark # 0
  <2>1. From = mark /\ mark <= pos /\ BodyAtHand = Piece(mark, pos)
    BY <1>4 DEF From, Marks, BodyAtHand
  <2>2. BodyAtHand' = BodyAtHand \o <<pos>>
    BY <1>1, <2>1, PieceGrows
  <2>3. \/ CutAmong(cuts, S, 0)
        \/ Cardinality(ChunksOf(stream)) > 1
        \/ BodyAtHand = InOrder(S)
    BY <1>1 DEF BodyGathered
  <2> HIDE DEF S
  <2>4. InOrder(S \cup {pos}) = InOrder(S) \o <<pos>>
    <3>1. pos \in Nat /\ 1 <= pos
      BY <1>1
    <3> QED  BY <1>2, <3>1, NextOfKind
  <2>5. CutAmong(cuts, S, 0) => CutAmong(cuts', S \cup {pos}, 0)
    BY CutStays
  <2> QED  BY <1>3, <2>2, <2>3, <2>4, <2>5 DEF BodyGathered
<1>5. CASE mark = 0
  <2>1. From = pos
    BY <1>5 DEF From
  <2>2. CASE S = {}
    <3>1. BodyAtHand' = <<pos>> /\ InOrder({pos}) = <<pos>>
      <4>1. pos \in Nat /\ pos <= pos
        BY <1>1
      <4>2. Piece(pos, pos + 1) = <<pos>> /\ InOrder({pos}) = <<pos>>
        BY <4>1, PieceGrows, InOrderOfOne
      <4> QED  BY <2>1, <4>2
    <3> QED  BY <1>3, <2>2, <3>1 DEF BodyGathered
  <2>3. CASE stream[pos - 1] = "body"
    <3>1. pos - 1 \in cuts /\ pos - 1 \in S
      BY <1>1, <1>5, <2>3 DEF BodyGathered, BodyTill
    <3>2. pos - 1 <= pos - 1 /\ pos - 1 < pos + 0
      BY <1>1
    <3>3. CutAmong(cuts', S \cup {pos}, 0)
      BY <3>1, <3>2 DEF CutAmong
    <3> QED  BY <1>3, <3>3 DEF BodyGathered
  <2>4. CASE S # {} /\ stream[pos - 1] # "body"
    <3>1. Cardinality(ChunksOf(stream)) > 1
      BY <1>1, <2>4, TwoChunks
    <3> QED  BY <3>1 DEF BodyGathered
  <2> QED  BY <2>2, <2>3, <2>4
<1> QED  BY <1>4, <1>5

\* The parser outside of the body, at its end, or at the end of a read.
LEMMA SeenNoBody ==
  ASSUME Typed, st # "message_done", pos' = pos \/ pos' = pos + 1,
         pos' = pos + 1 => st' # "message_done",
         pos' = pos + 1 \/ st' = "message_done" => stream[pos] # "body"
  PROVE  BodyTill(stream, Seen') = BodyTill(stream, Seen)
<1>1. pos \in Nat /\ 1 <= pos /\ Seen = pos - 1
  BY StreamAtHand DEF Seen
<1>2. CASE pos' = pos + 1 \/ st' = "message_done"
  <2>1. Seen' = pos
    BY <1>1, <1>2 DEF Seen
  <2> QED  BY <1>1, <1>2, <2>1, TextsTill
<1>3. CASE pos' = pos /\ st' # "message_done"
  BY <1>1, <1>3 DEF Seen
<1> QED  BY <1>2, <1>3

LEMMA NextByteBody ==
  ASSUME Grammatical, Typed, Within, Marks, BodyGathered, NextByte
  PROVE  BodyGathered'
<1>1. /\ pos' = pos + 1 /\ UNCHANGED <<stream, cuts, req>> /\ pos \in Nat /\ 1 <= pos
      /\ st # "message_done" /\ st' # "message_done"
  BY NextByteMarks, MarkedBytes, StreamAtHand DEF NextByte, input
<1>2. CASE stream[pos] = "body"
  <2>1. InBody /\ st' = st /\ mark' = From
    BY <1>2, MarkedBytes
  <2>2. mark' # 0 /\ BodyAtHand' = Piece(From, pos + 1) /\ Seen' = pos
    BY <1>1, <2>1 DEF From, BodyAtHand, InBody, Seen
  <2> QED  BY <1>1, <1>2, <2>1, <2>2, BodyGrows
<1>3. CASE stream[pos] # "body"
  <2>1. ~InBody /\ (st' \in {"body", "chunk_data"} => mark' = 0)
    BY <1>3, MarkedBytes
  <2>2. BodyAtHand' = BodyAtHand
    BY <1>1, <2>1 DEF BodyAtHand, InBody
  <2>3. BodyTill(stream, Seen') = BodyTill(stream, Seen)
    BY <1>1, <1>3, SeenNoBody
  <2>4. pos' - 1 = pos
    BY <1>1
  <2> QED  BY <1>1, <1>3, <2>2, <2>3, <2>4, BodyStays
<1> QED  BY <1>2, <1>3

LEMMA BodyEndBody ==
  ASSUME Grammatical, Typed, Within, Marks, BodyGathered, BodyEnd
  PROVE  BodyGathered'
<1>1. /\ UNCHANGED <<stream, cuts, pos>> /\ st = "body" /\ st' = "message_done"
      /\ stream[pos] = "body" /\ req' = OnBody(req, Piece(From, pos + 1))
  BY DEF BodyEnd, ByteIn, Reexecute, input
<1>2. req'.body = Piece(From, pos + 1)
  BY <1>1, StreamAtHand, KeptByCallbacks
<1>3. BodyAtHand' = Piece(From, pos + 1) /\ Seen' = pos /\ ~InBody' /\ InBody
  BY <1>1, <1>2 DEF BodyAtHand, InBody, Seen
<1> QED  BY <1>1, <1>3, BodyGrows

LEMMA BodyLeftAlone ==
  ASSUME Typed, Marks, CutKnown, BodyGathered,
         \/ UrlEnd \/ NameEnd \/ ValueEnd \/ HeaderEnd \/ EmptyValue \/ HeadersComplete
         \/ ChunkEnd \/ LastChunk \/ TrailersComplete \/ Refuse \/ ReadEnd
  PROVE  BodyGathered'
<1>1. UNCHANGED <<stream, cuts>> /\ pos \in Nat /\ 1 <= pos /\ end \in Nat /\ req \in Req
  BY StreamAtHand
     DEF UrlEnd, NameEnd, ValueEnd, HeaderEnd, EmptyValue, HeadersComplete, ChunkEnd, LastChunk,
         TrailersComplete, Refuse, ReadEnd, input
<1>2. CASE Refuse
  <2>1. UNCHANGED <<pos, st, mark, req>>
    BY <1>2 DEF Refuse
  <2> QED  BY <1>1, <2>1, BodyStays DEF BodyAtHand, InBody, Seen, BodyGathered
<1>3. CASE ReadEnd
  <2>1. UNCHANGED <<pos, st>> /\ mark' = 0 /\ pos > end /\ pos <= end + 1 /\ end \in cuts
    BY <1>3 DEF ReadEnd, Typed, CutKnown
  <2>2. pos' - 1 \in cuts' /\ Seen' = Seen /\ (InBody' <=> InBody)
    <3>1. pos - 1 = end
      BY <1>1, <2>1
    <3> QED  BY <1>1, <2>1, <3>1 DEF Seen, InBody
  <2>3. BodyAtHand' = BodyAtHand
    <3>1. CASE InBody /\ mark # 0
      <4>1. req' = OnBody(req, Piece(mark, pos))
        BY <1>3, <3>1 DEF ReadEnd, InBody
      <4> QED  BY <1>1, <2>1, <3>1, <4>1, KeptByCallbacks DEF BodyAtHand
    <3>2. CASE ~InBody \/ mark = 0
      <4>1. \/ req' = req
            \/ \E t : req' = OnUrl(req, t) \/ req' = OnHeaderField(req, t) \/ req' = OnHeaderValue(req, t)
        BY <1>3, <3>2 DEF ReadEnd, Url, InBody
      <4>2. req'.body = req.body
        BY <1>1, <4>1, KeptByCallbacks
      <4> QED  BY <2>1, <2>2, <3>2, <4>2 DEF BodyAtHand
    <3> QED  BY <3>1, <3>2
  <2> QED  BY <1>1, <2>2, <2>3, BodyStays
<1>4. CASE ~Refuse /\ ~ReadEnd
  <2>1. /\ st # "message_done" /\ (InBody => ChunkEnd) /\ mark' = 0
        /\ pos' = pos \/ pos' = pos + 1
        /\ pos' = pos + 1 => st' # "message_done"
        /\ pos' = pos + 1 \/ st' = "message_done" => stream[pos] # "body"
        /\ InBody' => pos' = pos + 1 /\ stream[pos] # "body"
    BY <1>1, <1>4 DEF UrlEnd, NameEnd, ValueEnd, HeaderEnd, EmptyValue, HeadersComplete, ChunkEnd,
                LastChunk, TrailersComplete, ByteIn, Parsing, Consume, Reexecute, InBody
  <2>2. BodyTill(stream, Seen') = BodyTill(stream, Seen)
    BY <2>1, SeenNoBody
  <2>3. BodyAtHand' = BodyAtHand
    <3>1. CASE ChunkEnd
      <4>1. req' = (IF mark = 0 THEN req ELSE OnBody(req, Piece(mark, pos))) /\ InBody /\ mark' = 0
        BY <2>1, <3>1 DEF ChunkEnd, ByteIn, InBody
      <4> QED  BY <1>1, <4>1, KeptByCallbacks DEF BodyAtHand
    <3>2. CASE ~ChunkEnd
      <4>1. \/ req' = req \/ req' = OnHeadersComplete(req)
            \/ \E t : req' = OnUrl(req, t) \/ req' = OnHeaderField(req, t) \/ req' = OnHeaderValue(req, t)
        BY <1>4, <3>2 DEF UrlEnd, Url, NameEnd, ValueEnd, HeaderEnd, EmptyValue, HeadersComplete,
                          LastChunk, TrailersComplete
      <4>2. req'.body = req.body
        BY <1>1, <4>1, KeptByCallbacks
      <4> QED  BY <2>1, <3>2, <4>2 DEF BodyAtHand
    <3> QED  BY <3>1, <3>2
  <2>4. pos' = pos + 1 => pos' - 1 = pos
    BY <1>1
  <2> QED  BY <1>1, <2>1, <2>2, <2>3, <2>4, BodyStays
<1> QED  BY <1>2, <1>3, <1>4

-----------------------------------------------------------------------------
(* The URL and the body over all steps *)

UncutGathered == UrlGathered /\ BodyGathered

LEMMA InitUncut == Init => UncutGathered /\ CutKnown
<1> SUFFICES ASSUME Init PROVE UncutGathered /\ CutKnown
  OBVIOUS
<1>1. pos = 1 /\ st = "start" /\ mark = 0 /\ pc = "loop" /\ req.url = << >> /\ req.body = << >>
  BY DEF Init, NewRequest
<1>2. UrlTill(stream, pos - 1) = {} /\ BodyTill(stream, Seen) = {}
  BY <1>1 DEF UrlTill, BodyTill, Seen
<1>3. UrlAtHand = << >> /\ BodyAtHand = << >> /\ ~InBody
  BY <1>1 DEF UrlAtHand, BodyAtHand, InBody
<1> QED  BY <1>1, <1>2, <1>3, InOrderOfNone DEF UncutGathered, UrlGathered, BodyGathered, CutKnown

LEMMA ParseUncut ==
  ASSUME Grammatical, Typed, Within, Marks, CutKnown, UncutGathered, Parse,
         pc # "handler", ~MessageComplete
  PROVE  UncutGathered'
<1>1. ~HandlerReturn
  BY DEF HandlerReturn
<1>2. UrlGathered'
  <2>1. CASE NextByte
    BY <2>1, NextByteUrl DEF UncutGathered
  <2>2. CASE UrlEnd \/ (ReadEnd /\ st = "url")
    BY <2>2, UrlHandedOver DEF UncutGathered
  <2> QED  BY <1>1, <2>1, <2>2, UrlLeftAlone DEF UncutGathered, Parse
<1>3. BodyGathered'
  <2>1. CASE NextByte
    BY <2>1, NextByteBody DEF UncutGathered
  <2>2. CASE BodyEnd
    BY <2>2, BodyEndBody DEF UncutGathered
  <2> QED  BY <1>1, <2>1, <2>2, BodyLeftAlone DEF UncutGathered, Parse
<1> QED  BY <1>2, <1>3 DEF UncutGathered

\* The next read.
LEMMA ReadUncut ==
  ASSUME Typed, Marks, UncutGathered, NEW n, Read(n)
  PROVE  UncutGathered'
<1>1. /\ UNCHANGED <<stream, pos, st, req, errno>> /\ pc = "loop" /\ cuts \subseteq cuts'
      /\ IF errno = "ok"
         THEN mark = 0 /\ mark' = (IF st \in {"url", "field", "value"} THEN pos ELSE 0)
         ELSE UNCHANGED mark
  BY DEF Read, InLoop, Marks
<1>2. BodyGathered'
  <2>1. InBody => mark' = mark
    BY <1>1 DEF InBody
  <2>2. BodyAtHand' = BodyAtHand /\ Seen' = Seen /\ (InBody' <=> InBody)
    BY <1>1, <2>1 DEF BodyAtHand, InBody, Seen
  <2> QED  BY <1>1, <2>1, <2>2, BodyStays DEF UncutGathered, BodyGathered
<1>3. UrlGathered'
  <2>1. CASE st = "url" /\ errno = "ok"
    <3>1. CutAmong(cuts, UrlTill(stream, pos - 1), 1)
      BY <1>1, <2>1 DEF UncutGathered, UrlGathered
    <3>2. CutAmong(cuts', UrlTill(stream, pos - 1), 1)
      BY <1>1, <3>1, CutStays
    <3> QED  BY <1>1, <2>1, <3>2 DEF UrlGathered
  <2>2. CASE st # "url" \/ errno # "ok"
    <3>1. UrlAtHand' = UrlAtHand /\ (st = "url" => mark' = mark)
      BY <1>1, <2>2 DEF UrlAtHand
    <3> QED  BY <1>1, <3>1, UrlStays DEF UncutGathered
  <2> QED  BY <2>1, <2>2
<1> QED  BY <1>2, <1>3 DEF UncutGathered

LEMMA ElsewhereUncut ==
  ASSUME UncutGathered, UNCHANGED <<stream, cuts, pos, st, mark, req>>
  PROVE  UncutGathered'
  BY DEF UncutGathered, UrlGathered, BodyGathered, UrlAtHand, BodyAtHand, InBody, Seen

\* A cut among the bytes is a cut in the text that they make.
LEMMA CutInText ==
  ASSUME Typed, NEW S \in SUBSET (1 .. Len(stream)), NEW past \in Nat, CutAmong(cuts, S, past)
  PROVE  CutIn(InOrder(S), past)
<1>1. PICK c \in cuts : \E a, b \in S : a <= c /\ c < b + past
  BY DEF CutAmong
<1>2. PICK a \in S, b \in S : a <= c /\ c < b + past
  BY <1>1
<1>3. Len(stream) \in Nat /\ c \in Nat /\ S \in SUBSET Nat /\ IsFiniteSet(S)
  BY StreamAtHand, SomeAreFinite DEF Typed
<1>4. /\ InOrder(S) # << >> /\ InOrder(S)[1] \in S /\ InOrder(S)[1] <= a
      /\ InOrder(S)[Len(InOrder(S))] \in S /\ b <= InOrder(S)[Len(InOrder(S))]
  BY <1>3, FirstAndLast
<1>5. InOrder(S)[1] <= c /\ c < InOrder(S)[Len(InOrder(S))] + past
  <2>1. a \in Nat /\ b \in Nat /\ InOrder(S)[1] \in Nat /\ InOrder(S)[Len(InOrder(S))] \in Nat
    BY <1>3, <1>4
  <2> QED  BY <1>2, <1>3, <1>4, <2>1
<1> QED  BY <1>4, <1>5 DEF CutIn

\* When all of the request has been parsed, what is at hand is the URL and the body.
LEMMA UncutWhole ==
  ASSUME Grammatical, Typed, Within, Gathered, UncutGathered, st = "message_done"
  PROVE  /\ CutIn(UrlOf(stream), 1) \/ req.url = UrlOf(stream)
         /\ \/ CutIn(BodyOf(stream), 0)
            \/ Cardinality(ChunksOf(stream)) > 1
            \/ req.body = BodyOf(stream)
<1>1. /\ Len(stream) \in Nat /\ DOMAIN stream = 1 .. Len(stream)
      /\ pos \in Nat /\ 1 <= pos /\ pos = Ends(stream) /\ pos <= Len(stream) /\ IsRequest(stream)
  BY StreamAtHand, StreamIsRequest DEF Within, Came
<1>2. stream[pos] \in {"eol", "body"} /\ \A j \in DOMAIN stream : j <= pos \/ stream[j] = "next"
  BY <1>1 DEF Gathered, IsRequest
<1>3. UrlTill(stream, pos - 1) = {i \in DOMAIN stream : stream[i] \in {"slash", "char"}}
  <2>1. \A j \in DOMAIN stream : stream[j] \in {"slash", "char"} => j \in 1 .. pos - 1
    BY <1>1, <1>2
  <2>2. 1 .. pos - 1 \subseteq DOMAIN stream
    BY <1>1
  <2> QED  BY <2>1, <2>2 DEF UrlTill
<1>4. BodyTill(stream, Seen) = {i \in DOMAIN stream : stream[i] \in {"body"}}
  <2>1. \A j \in DOMAIN stream : stream[j] = "body" => j \in 1 .. pos
    BY <1>1, <1>2
  <2>2. 1 .. pos \subseteq DOMAIN stream /\ Seen = pos
    BY <1>1 DEF Seen
  <2> QED  BY <2>1, <2>2 DEF BodyTill
<1>5. UrlOf(stream) = InOrder(UrlTill(stream, pos - 1)) /\ BodyOf(stream) = InOrder(BodyTill(stream, Seen))
  BY <1>3, <1>4 DEF UrlOf, BodyOf, Text
<1>6. UrlTill(stream, pos - 1) \in SUBSET (1 .. Len(stream))
      /\ BodyTill(stream, Seen) \in SUBSET (1 .. Len(stream))
  BY <1>1, <1>3, <1>4
<1>7. UrlAtHand = req.url /\ BodyAtHand = req.body
  BY DEF UrlAtHand, BodyAtHand, InBody
<1> QED  BY <1>5, <1>6, <1>7, CutInText DEF UncutGathered, UrlGathered, BodyGathered

UncutInv == (handled = 0 => UncutGathered) /\ CutKnown /\ WholeWhenUncut

LEMMA NextUncutInv ==
  ASSUME Grammatical, IInv, Typed, Synced, HeadersInv, UncutInv, [Next]_vars
  PROVE  UncutInv'
<1>1. cuts \subseteq cuts' /\ UNCHANGED stream
  BY DEF Next, Parse, NextByte, UrlEnd, NameEnd, ValueEnd, HeaderEnd, EmptyValue, HeadersComplete,
         BodyEnd, ChunkEnd, LastChunk, TrailersComplete, MessageComplete, HandlerReturn, Refuse,
         ReadEnd, Accept, Read, ReadZero, Disconnect, End, LateWrite, WriteDone, CloseWrite,
         CloseDone, vars, input
<1>2. CutKnown'
  <2>1. CASE \E n \in 1 .. Len(stream) : Read(n)
    BY <2>1 DEF Read, InLoop, CutKnown
  <2>2. CASE ~\E n \in 1 .. Len(stream) : Read(n)
    <3>1. UNCHANGED <<end, cuts>> /\ (pc' = "parse" => pc = "parse")
      BY <2>2 DEF Next, Parse, NextByte, UrlEnd, NameEnd, ValueEnd, HeaderEnd, EmptyValue,
                  HeadersComplete, BodyEnd, ChunkEnd, LastChunk, TrailersComplete,
                  MessageComplete, HandlerReturn, Refuse, ReadEnd, ByteIn, Parsing, Accept,
                  ReadZero, Disconnect, End, LateWrite, WriteDone, CloseWrite, CloseDone, vars,
                  input
    <3> QED  BY <3>1 DEF CutKnown, UncutInv
  <2> QED  BY <2>1, <2>2
<1>3. CASE MessageComplete
  <2>1. /\ st = "message_done" /\ UNCHANGED <<stream, cuts, req>> /\ handled' = handled + 1
        /\ handled = 0
    BY <1>3 DEF MessageComplete, Parsing, input, IInv, Before, After
  <2>2. /\ CutIn(UrlOf(stream), 1) \/ req.url = UrlOf(stream)
        /\ \/ CutIn(BodyOf(stream), 0)
           \/ Cardinality(ChunksOf(stream)) > 1
           \/ req.body = BodyOf(stream)
    BY <2>1, UncutWhole DEF UncutInv, HeadersInv, Synced
  <2> QED  BY <1>2, <2>1, <2>2 DEF UncutInv, WholeWhenUncut, CutIn
<1>4. CASE handled = 0 /\ ~MessageComplete
  <2>1. handled' = 0
    <3>1. CASE Parse
      BY <1>4, <3>1, ParseCases DEF ParserStep, HandlerReturn
    <3>2. CASE ~Parse
      BY <1>4, <3>2 DEF Next, Accept, Read, ReadZero, Disconnect, End, LateWrite, WriteDone,
                        CloseWrite, CloseDone, vars
    <3> QED  BY <3>1, <3>2
  <2>2. Within /\ Gathered /\ Marks /\ UncutGathered /\ CutKnown /\ pc # "handler"
    BY <1>4 DEF Synced, HeadersInv, Gathered, UncutInv, IInv, Before, After
  <2>3. UncutGathered'
    <3>1. CASE Parse
      BY <1>4, <2>2, <3>1, ParseUncut
    <3>2. CASE \E n \in 1 .. Len(stream) : Read(n)
      BY <2>2, <3>2, ReadUncut
    <3>3. CASE ~Parse /\ ~\E n \in 1 .. Len(stream) : Read(n)
      <4>1. UNCHANGED <<stream, cuts, pos, st, mark, req>>
        BY <3>3 DEF Next, Accept, ReadZero, Disconnect, End, LateWrite, WriteDone, CloseWrite,
                    CloseDone, vars, input
      <4> QED  BY <2>2, <4>1, ElsewhereUncut
    <3> QED  BY <3>1, <3>2, <3>3
  <2> QED  BY <1>2, <2>1, <2>3 DEF UncutInv, WholeWhenUncut
<1>5. CASE handled = 1 /\ ~MessageComplete
  <2>1. UNCHANGED <<req, handled>>
    <3>1. CASE Parse
      BY <1>5, <3>1, ParseCases DEF ParserStep, HandlerReturn, IInv, Before, After
    <3>2. CASE ~Parse
      BY <3>2 DEF Next, Accept, Read, ReadZero, Disconnect, End, LateWrite, WriteDone,
                  CloseWrite, CloseDone, vars
    <3> QED  BY <3>1, <3>2
  <2>2. \A text : CutIn(text, 1) => CutIn(text, 1)'
    BY <1>1 DEF CutIn
  <2>3. \A text : CutIn(text, 0) => CutIn(text, 0)'
    BY <1>1 DEF CutIn
  <2> QED  BY <1>1, <1>2, <1>5, <2>1, <2>2, <2>3 DEF UncutInv, WholeWhenUncut
<1> QED  BY <1>3, <1>4, <1>5 DEF IInv, Before, After

\* For every set of requests, however reads cut them: a URL that no read cut is whole for
\* the handler, and so is a body of one chunk (WholeWhenUncut).
THEOREM UncutIsWhole == Grammatical => (Spec => []WholeWhenUncut)
<1> SUFFICES ASSUME Grammatical PROVE Spec => []WholeWhenUncut
  OBVIOUS
<1>1. Init => HeadersInv /\ UncutInv
  BY InitGathered, InitUncut DEF HeadersInv, HeadersWhole, UncutInv, WholeWhenUncut, Init
<1>2. IInv /\ Typed /\ Synced /\ HeadersInv /\ [Next]_vars => HeadersInv'
  BY NextHeadersInv
<1>3. IInv /\ Typed /\ Synced /\ HeadersInv /\ UncutInv /\ [Next]_vars => UncutInv'
  BY NextUncutInv
<1>4. UncutInv => WholeWhenUncut
  BY DEF UncutInv
<1> QED  BY <1>1, <1>2, <1>3, <1>4, Invariance, AlwaysTyped, AlwaysSynced, PTL DEF Spec

-----------------------------------------------------------------------------
(* What a handler makes of its response *)

\* A length in the headers is the handler's or that of the first end; an end, even one
\* that throws, leaves a length there, and no text is written but by an end.
Lengths ==
  /\ \/ "content-length" \notin DOMAIN headers
     \/ named
     \/ tried # << >> /\ headers["content-length"] = tried[1]
  /\ tried # << >> => "content-length" \in DOMAIN headers
  /\ texts # << >> => tried # << >>

ResponseInv == ResponseExact /\ Lengths

LEMMA HeadersStay ==
  ASSUME NEW name, name \in Spellings \cup {"Content-Length", "Content-Type"},
         NEW value \in Bodies \cup Values, headers \in Headers
  PROVE  /\ With(name, value) \in Headers
         /\ DOMAIN With(name, value) = DOMAIN headers \cup {Lower(name)}
         /\ With(name, value)[Lower(name)] = value
         /\ \A n \in DOMAIN headers :
              n # Lower(name) => With(name, value)[n] = headers[n]
<1> DEFINE R == Bodies \cup Values \cup {Html}
<1>1. PICK names \in SUBSET HeaderNames : headers \in [names -> R]
  BY DEF Headers
<1>2. Lower(name) \in HeaderNames
  BY DEF HeaderNames
<1>3. names \cup {Lower(name)} \in SUBSET HeaderNames
  BY <1>2
<1>4. With(name, value) \in [names \cup {Lower(name)} -> R]
  BY <1>1 DEF With
<1> QED  BY <1>1, <1>3, <1>4 DEF With, Headers

LEMMA InitResponseInv ==
  ASSUME ResponseInit
  PROVE  ResponseInv
<1>1. headers \in Headers
  <2>1. "content-type" = Lower("Content-Type")
    BY DEF Lower
  <2>2. {"content-type"} \in SUBSET HeaderNames
    BY <2>1 DEF HeaderNames
  <2>3. headers \in [{"content-type"} -> Bodies \cup Values \cup {Html}]
    BY DEF ResponseInit
  <2> QED  BY <2>2, <2>3 DEF Headers
<1>2. code \in Statuses /\ calls \in 0 .. MaxCalls /\ tried \in Seq(Bodies) /\ named \in BOOLEAN
  <2>1. 200 \in Statuses /\ 0 \in 0 .. MaxCalls
    BY ResponseAssumption
  <2>2. code = 200 /\ calls = 0 /\ tried = << >>
    BY DEF ResponseInit
  <2>3. named \in BOOLEAN
    BY Zenon DEF ResponseInit
  <2> QED  BY <2>1, <2>2, <2>3
<1>3. texts = << >> /\ tried = << >> /\ DOMAIN headers = {"content-type"}
  BY DEF ResponseInit
<1>4. ResponseTypeOK
  BY <1>1, <1>2, <1>3 DEF ResponseTypeOK
<1> QED
  BY <1>3, <1>4 DEF ResponseInv, Lengths, ResponseExact, LengthOfFirstEnd, WrittenSupported

LEMMA NextResponseInv ==
  ASSUME ResponseInv, [ResponseNext]_responseVars
  PROVE  ResponseInv'
<1> USE DEF ResponseInv, ResponseExact
<1>0. ResponseTypeOK /\ Lengths
  OBVIOUS
<1>1. CASE UNCHANGED responseVars
  BY <1>1 DEF responseVars, Lengths, ResponseTypeOK, LengthOfFirstEnd, WrittenSupported
<1>2. ASSUME NEW status \in Statuses, SetStatus(status) PROVE ResponseInv'
  BY <1>0, <1>2, ResponseAssumption
  DEF SetStatus, CountCall, Lengths, ResponseTypeOK, LengthOfFirstEnd, WrittenSupported
<1>3. ASSUME NEW name \in Spellings, NEW value \in Values, SetHeader(name, value)
      PROVE  ResponseInv'
  <2>1. /\ headers' = With(name, value)
        /\ named' = (named \/ Lower(name) = "content-length")
        /\ code' = code /\ tried' = tried /\ texts' = texts
        /\ calls' = calls + 1 /\ calls < MaxCalls
    BY <1>3 DEF SetHeader, CountCall
  <2>2. /\ headers' \in Headers
        /\ DOMAIN headers' = DOMAIN headers \cup {Lower(name)}
        /\ \A n \in DOMAIN headers : n # Lower(name) => headers'[n] = headers[n]
    <3>1. headers \in Headers
      BY <1>0 DEF ResponseTypeOK
    <3>2. name \in Spellings \cup {"Content-Length", "Content-Type"} /\ value \in Bodies \cup Values
      OBVIOUS
    <3> HIDE DEF ResponseInv
    <3> QED  BY ONLY <2>1, <3>1, <3>2, HeadersStay
  <2>3. ResponseTypeOK'
    BY <1>0, <2>1, <2>2, ResponseAssumption DEF ResponseTypeOK
  <2>4. Lengths'
    BY <1>0, <2>1, <2>2 DEF Lengths
  <2>5. LengthOfFirstEnd' /\ WrittenSupported'
    BY <2>1 DEF LengthOfFirstEnd, WrittenSupported
  <2> QED  BY <2>3, <2>4, <2>5
<1>4. ASSUME NEW body \in Bodies, EndResponse(body) PROVE ResponseInv'
  <2> DEFINE text == [status |-> code, headers |-> headers', body |-> body]
  <2>1. /\ headers' = IF LengthFound THEN headers ELSE With("Content-Length", body)
        /\ tried' = Append(tried, body)
        /\ \/ texts' = texts
           \/ texts' = Append(texts, text) /\ StatusText(code)
        /\ code' = code /\ named' = named
        /\ calls' = calls + 1 /\ calls < MaxCalls
    BY <1>4 DEF EndResponse, CountCall
  <2>2. /\ headers' \in Headers /\ "content-length" \in DOMAIN headers'
        /\ \/ "content-length" \in DOMAIN headers /\ headers' = headers
           \/ "content-length" \notin DOMAIN headers /\ headers'["content-length"] = body
    <3>1. Lower("Content-Length") = "content-length"
      BY DEF Lower
    <3>2. CASE LengthFound
      BY <1>0, <2>1, <3>2 DEF LengthFound, ResponseTypeOK
    <3>3. CASE ~LengthFound
      <4>1. headers' = With("Content-Length", body)
        BY <2>1, <3>3
      <4>2. headers \in Headers
        BY <1>0 DEF ResponseTypeOK
      <4>3. headers' \in Headers /\ headers'["content-length"] = body
            /\ DOMAIN headers' = DOMAIN headers \cup {"content-length"}
        <5>1. "Content-Length" \in Spellings \cup {"Content-Length", "Content-Type"}
              /\ body \in Bodies \cup Values
          OBVIOUS
        <5> DEFINE new == With("Content-Length", body)
        <5>2. /\ new \in Headers
              /\ new[Lower("Content-Length")] = body
              /\ DOMAIN new = DOMAIN headers \cup {Lower("Content-Length")}
          BY <4>2, <5>1, HeadersStay, Zenon
        <5> QED  BY ONLY <3>1, <4>1, <5>2
      <4> QED  BY <3>3, <4>3 DEF LengthFound
    <3> QED  BY <3>2, <3>3
  <2>3. /\ tried \in Seq(Bodies) /\ tried' \in Seq(Bodies) /\ tried' # << >>
        /\ tried # << >> => tried'[1] = tried[1]
        /\ tried = << >> => tried'[1] = body
    BY <1>0, <2>1 DEF ResponseTypeOK
  <2>4. text \in [status : Statuses, headers : Headers, body : Bodies]
    BY <1>0, <2>2 DEF ResponseTypeOK
  <2>5. ResponseTypeOK'
    <3> DEFINE Written == [status : Statuses, headers : Headers, body : Bodies]
    <3>1. texts' \in Seq(Written)
      <4>1. texts \in Seq(Written)
        BY <1>0 DEF ResponseTypeOK
      <4>2. text \in Written
        BY <2>4
      <4> HIDE DEF text, Written
      <4> QED  BY <2>1, <4>1, <4>2
    <3>2. code' \in Statuses /\ calls' \in 0 .. MaxCalls /\ named' \in BOOLEAN
      BY <1>0, <2>1, ResponseAssumption DEF ResponseTypeOK
    <3> QED  BY <2>2, <2>3, <3>1, <3>2 DEF ResponseTypeOK
  <2>6. \/ named'
        \/ headers'["content-length"] = tried'[1]
    BY <1>0, <2>1, <2>2, <2>3 DEF Lengths
  <2>7. Lengths'
    BY <2>2, <2>3, <2>6 DEF Lengths
  <2>8. \A i \in DOMAIN texts' : \/ i \in DOMAIN texts /\ texts'[i] = texts[i]
                                 \/ texts'[i] = text /\ StatusText(code)
    BY <1>0, <2>1 DEF ResponseTypeOK
  <2>9. \A i \in DOMAIN texts : tried # << >>
    BY <1>0 DEF Lengths, ResponseTypeOK
  <2>10. LengthOfFirstEnd'
    BY <2>1, <2>2, <2>3, <2>6, <2>8, <2>9 DEF LengthOfFirstEnd
  <2>11. WrittenSupported'
    BY <2>8 DEF WrittenSupported, StatusText
  <2> QED  BY <2>5, <2>7, <2>10, <2>11
<1> QED  BY <1>1, <1>2, <1>3, <1>4 DEF ResponseNext

\* Whatever a handler sets, in whichever order, and however many ends it tries: a
\* response goes out with a supported status only, and with the handler's length or
\* that of the first body it tried (ResponseExact).
THEOREM ResponseIsExact == ResponseSpec => []ResponseExact
<1>1. ResponseInit => ResponseInv
  BY InitResponseInv
<1>2. ResponseInv /\ [ResponseNext]_responseVars => ResponseInv'
  BY NextResponseInv
<1>3. ResponseInv => ResponseExact
  BY DEF ResponseInv
<1> QED  BY <1>1, <1>2, <1>3, PTL DEF ResponseSpec
=============================================================================
