--------------------------- MODULE HttpConnection ---------------------------
(***************************************************************************)
(* One connection of the HTTP server: the client_context that the listen   *)
(* callback makes, the http-parser it feeds with each read, the callbacks  *)
(* that fill the request, the handler, the response and the release.       *)
(*                                                                         *)
(* The parser looks at the kinds of the bytes only (module HttpRequest).   *)
(* It keeps a mark at the first byte of the text it is in, and hands the   *)
(* text to a callback at its end, or at the end of the read: a text that   *)
(* is cut by reads reaches the callback in pieces.                         *)
(*                                                                         *)
(* An exception that leaves the read callback, and each undefined          *)
(* behaviour, is recorded in fault and ends the run.                       *)
(***************************************************************************)
EXTENDS HttpRequest

CONSTANTS Requests,       \* the streams a peer may send
          MaxReads,       \* bound: reads that hand over bytes
          MaxEnds,        \* bound: calls of response::end
          WriteOutcomes,  \* what libuv makes of a write: see WriteStates
          ZeroReads,      \* TRUE: libuv may report a read of no bytes
          PeerFails       \* TRUE: the peer may leave at any time

\* "refused": uv_write itself fails; the others as in TcpServer.
WriteStates == {"queued", "flushed", "failed", "refused"}

ASSUME HttpAssumption ==
  /\ Requests \subseteq Seq(Kinds)
  /\ MaxReads \in Nat /\ MaxEnds \in Nat
  /\ WriteOutcomes \subseteq WriteStates
  /\ ZeroReads \in BOOLEAN /\ PeerFails \in BOOLEAN

VARIABLES stream,    \* all the bytes of the peer
          cuts,      \* history: where reads ended
          end,       \* bytes read so far
          pos,       \* the byte the parser looks at next
          st,        \* parser->state
          mark,      \* first byte of the text the parser is in, 0: none
          trailing,  \* F_TRAILING: the last chunk has been seen
          errno,     \* parser->http_errno
          req,       \* the request, and the header line being put together
          pc,        \* "loop", "parse" (in http_parser_execute), "handler"
          handled,   \* calls of the handler
          ends,      \* calls of response::end
          conn,      \* the client_context: "none", "alive" or "deleted"
          handle,    \* its uv_tcp_t: "none", "open", "closing" or "freed"
          reading,   \* the read callback is installed and the stream not ended
          writes,    \* writes whose callback is due, in order
          fault      \* what ended the run

input == <<stream, cuts, end>>
life == <<conn, handle, reading, writes, ends>>
vars == <<input, pos, st, mark, trailing, errno, req, pc, handled, life, fault>>

ParserStates ==
  {"start", "method", "url", "line", "field_start", "field", "discard_ws",
   "discard_lws", "value", "value_lws", "body", "chunk_size", "chunk_line",
   "last_chunk", "chunk_data", "message_done"}

TypeOK == /\ stream \in Requests
          /\ cuts \in SUBSET (1 .. Len(stream))
          /\ end \in 0 .. Len(stream)
          /\ pos \in 1 .. Len(stream) + 1
          /\ st \in ParserStates
          /\ mark \in 0 .. Len(stream)
          /\ trailing \in BOOLEAN
          /\ errno \in {"ok", "syntax", "eof", "complete"}
          /\ DOMAIN req = DOMAIN [url |-> 0, headers |-> 0, body |-> 0,
                                  field |-> 0, value |-> 0, wasValue |-> 0]
          /\ {req.url, req.body, req.field, req.value} \subseteq Seq(Nat)
          /\ \A h \in req.headers : h[1] \in Seq(Nat) /\ h[2] \in Seq(Nat)
          /\ req.wasValue \in BOOLEAN
          /\ pc \in {"loop", "parse", "handler"}
          /\ handled \in 0 .. 1
          /\ ends \in 0 .. MaxEnds
          /\ conn \in {"none", "alive", "deleted"}
          /\ handle \in {"none", "open", "closing", "freed"}
          /\ reading \in BOOLEAN
          /\ writes \in Seq(WriteStates \ {"refused"})
          /\ fault \in {"none", "url", "null", "bytes", "response"}

NewRequest == [url |-> << >>, headers |-> {}, body |-> << >>,
               field |-> << >>, value |-> << >>, wasValue |-> TRUE]

Init == /\ stream \in Requests
        /\ cuts = {} /\ end = 0 /\ pos = 1
        /\ st = "start" /\ mark = 0 /\ trailing = FALSE /\ errno = "ok"
        /\ req = NewRequest
        /\ pc = "loop" /\ handled = 0
        /\ conn = "none" /\ handle = "none" /\ reading = FALSE
        /\ writes = << >> /\ ends = 0
        /\ fault = "none"

-----------------------------------------------------------------------------
(* The parser's data callbacks, as functions of the request *)

\* url_obj::from_buf: the text is taken first, then parsed.
OnUrl(r, text) == [r EXCEPT !.url = text]

\* http_parser_parse_url, of a text of URL bytes: nothing, or one that starts as
\* a path does.  It throws on others: absolute URLs are not among the streams.
UrlParses(text) == text = << >> \/ stream[text[1]] = "slash"

\* headers_[last_header_field_] = last_header_value_
Store(r) == [r EXCEPT !.headers = {h \in @ : h[1] # r.field} \cup {<<r.field, r.value>>}]

\* Faulty: takes each piece for a name of its own.
MutOnHeaderFieldNoAppend(r, text) ==
  [(IF r.field # << >> THEN [Store(r) EXCEPT !.value = << >>] ELSE r)
     EXCEPT !.field = text, !.wasValue = FALSE]

OnHeaderField(r, text) ==
  IF ~r.wasValue
  THEN [r EXCEPT !.field = @ \o text]
  ELSE [(IF r.field # << >> THEN [Store(r) EXCEPT !.value = << >>] ELSE r)
          EXCEPT !.field = text, !.wasValue = FALSE]

OnHeaderValue(r, text) ==
  IF r.wasValue
  THEN [r EXCEPT !.value = @ \o text]
  ELSE [r EXCEPT !.value = text, !.wasValue = TRUE]

OnHeadersComplete(r) == IF r.field # << >> THEN Store(r) ELSE r

OnBody(r, text) == [r EXCEPT !.body = text]

-----------------------------------------------------------------------------
(* http_parser_execute *)

Parsing == pc = "parse" /\ fault = "none" /\ pos <= end
ByteIn(s, kinds) == Parsing /\ st = s /\ stream[pos] \in kinds

\* The texts the parser marks, by the state it is in while it is inside one.
Marked == {"url", "field", "value", "body", "chunk_data"}

\* The bytes no callback is called for: state, byte, next state.
RequestLine == {<<"start", "method", "method">>, <<"method", "method", "method">>,
                <<"method", "slash", "url">>, <<"url", "slash", "url">>,
                <<"url", "char", "url">>, <<"line", "line", "line">>,
                <<"line", "eol", "field_start">>}

HeaderName == {<<"field_start", "field", "field">>, <<"field", "field", "field">>}

HeaderValue == {<<"discard_ws", "sp", "discard_ws">>, <<"discard_ws", "eol", "discard_lws">>,
                <<"discard_lws", "sp", "discard_ws">>, <<"discard_ws", "value", "value">>,
                <<"value", "value", "value">>, <<"value", "sp", "value">>,
                <<"value_lws", "sp", "value">>}

Chunks == {<<"chunk_size", "size", "chunk_line">>, <<"chunk_line", "size", "chunk_line">>,
           <<"chunk_line", "eol", "chunk_data">>, <<"chunk_data", "body", "chunk_data">>,
           <<"chunk_size", "last", "last_chunk">>}

\* content_length: the header said how many bytes of body there are.
LastOfBody == pos = Ends(stream)

Silent == RequestLine \cup HeaderName \cup HeaderValue \cup Chunks
            \cup (IF LastOfBody THEN {} ELSE {<<"body", "body", "body">>})

\* Where the text at hand starts, with this byte if it is the first.
From == IF mark = 0 THEN pos ELSE mark

\* The parser goes on to state s, with or without (REEXECUTE) the byte consumed.
Consume(s) == /\ st' = s
              /\ pos' = pos + 1
              /\ mark' = 0
Reexecute(s) == st' = s /\ mark' = 0 /\ UNCHANGED pos

NextByte == /\ Parsing
            /\ \E step \in Silent :
                 /\ step[1] = st /\ step[2] = stream[pos]
                 /\ st' = step[3]
                 /\ mark' = IF step[3] \in Marked /\ step[2] # "eol" THEN From ELSE 0
            /\ pos' = pos + 1
            /\ UNCHANGED <<input, trailing, errno, req, pc, handled, life, fault>>

\* A piece of the URL; one that does not parse throws url_parse_exception through
\* the parser and the read callback.
Url(text) == /\ req' = OnUrl(req, text)
             /\ IF UrlParses(text)
                THEN UNCHANGED fault
                ELSE fault' = "url"

UrlEnd == /\ ByteIn("url", {"line", "eol"})
          /\ Url(Piece(mark, pos))
          /\ Consume(IF stream[pos] = "eol" THEN "field_start" ELSE "line")
          /\ UNCHANGED <<input, trailing, errno, pc, handled, life>>

NameEnd == /\ ByteIn("field", {"colon"})
           /\ req' = OnHeaderField(req, Piece(mark, pos))
           /\ Consume("discard_ws")
           /\ UNCHANGED <<input, trailing, errno, pc, handled, life, fault>>

ValueEnd == /\ ByteIn("value", {"eol"})
            /\ req' = OnHeaderValue(req, Piece(mark, pos))
            /\ Consume("value_lws")
            /\ UNCHANGED <<input, trailing, errno, pc, handled, life, fault>>

\* The line is over: the next byte is no white space.
HeaderEnd == /\ Parsing
             /\ st = "value_lws"
             /\ stream[pos] # "sp"
             /\ Reexecute("field_start")
             /\ UNCHANGED <<input, trailing, errno, req, pc, handled, life, fault>>

\* ... and there was no value on it.
EmptyValue == /\ Parsing
              /\ st = "discard_lws"
              /\ stream[pos] # "sp"
              /\ req' = OnHeaderValue(req, << >>)
              /\ Reexecute("field_start")
              /\ UNCHANGED <<input, trailing, errno, pc, handled, life, fault>>

HeadersComplete ==
  /\ ByteIn("field_start", {"eol"})
  /\ ~trailing
  /\ req' = OnHeadersComplete(req)
  /\ \/ Chunked(stream) /\ Consume("chunk_size")
     \/ ~Chunked(stream) /\ HasBody(stream) /\ Consume("body")
     \/ ~Chunked(stream) /\ ~HasBody(stream) /\ Reexecute("message_done")
  /\ UNCHANGED <<input, trailing, errno, pc, handled, life, fault>>

BodyEnd == /\ ByteIn("body", {"body"})
           /\ LastOfBody
           /\ req' = OnBody(req, Piece(From, pos + 1))
           /\ Reexecute("message_done")
           /\ UNCHANGED <<input, trailing, errno, pc, handled, life, fault>>

\* Faulty: calls on_body when the read before this one has handed over the data.
MutChunkEndAlways == /\ ByteIn("chunk_data", {"eol"})
                     /\ req' = OnBody(req, Piece(From, pos))
                     /\ Consume("chunk_size")
                     /\ UNCHANGED <<input, trailing, errno, pc, handled, life, fault>>

\* The line end after a chunk's data; there is no mark when the data ended a read.
ChunkEnd == /\ ByteIn("chunk_data", {"eol"})
            /\ req' = IF mark = 0 THEN req ELSE OnBody(req, Piece(mark, pos))
            /\ Consume("chunk_size")
            /\ UNCHANGED <<input, trailing, errno, pc, handled, life, fault>>

\* Faulty: forgets that the last chunk was seen.
MutLastChunkNoFlag == /\ ByteIn("last_chunk", {"eol"})
                      /\ Consume("field_start")
                      /\ UNCHANGED <<input, trailing, errno, req, pc, handled, life, fault>>

LastChunk == /\ ByteIn("last_chunk", {"eol"})
             /\ trailing' = TRUE
             /\ Consume("field_start")
             /\ UNCHANGED <<input, errno, req, pc, handled, life, fault>>

TrailersComplete == /\ ByteIn("field_start", {"eol"})
                    /\ trailing
                    /\ Reexecute("message_done")
                    /\ UNCHANGED <<input, trailing, errno, req, pc, handled, life, fault>>

\* on_message_complete calls the handler ...
MessageComplete == /\ Parsing
                   /\ st = "message_done"
                   /\ handled' = handled + 1
                   /\ pc' = "handler"
                   /\ UNCHANGED <<input, pos, st, mark, trailing, errno, req, life, fault>>

\* Faulty: on_message_complete returns 0, and the parser sees the message again.
MutHandlerReturnZero ==
  /\ pc = "handler" /\ fault = "none"
  /\ pc' = "parse"
  /\ UNCHANGED <<input, pos, st, mark, trailing, errno, req, handled, life, fault>>

\* ... and returns 1, which the parser takes for an error of the callback.
HandlerReturn == /\ pc = "handler"
                 /\ fault = "none"
                 /\ errno' = "complete"
                 /\ pc' = "loop"
                 /\ UNCHANGED <<input, pos, st, mark, trailing, req, handled, life, fault>>

\* A byte that cannot stand here, or one header byte too many.
Refuse == /\ Parsing
          /\ stream[pos] = "bad"
          /\ st \notin {"value_lws", "discard_lws", "message_done"}
          /\ errno' = "syntax"
          /\ pc' = "loop"
          /\ UNCHANGED <<input, pos, st, mark, trailing, req, handled, life, fault>>

\* The bytes of this read are used up: a text that is open is handed over so far.
ReadEnd ==
  /\ pc = "parse"
  /\ fault = "none"
  /\ pos > end
  /\ \/ mark = 0 /\ UNCHANGED <<req, fault>>
     \/ mark # 0 /\ st = "url" /\ Url(Piece(mark, pos))
     \/ mark # 0 /\ st = "field" /\ req' = OnHeaderField(req, Piece(mark, pos))
                 /\ UNCHANGED fault
     \/ mark # 0 /\ st = "value" /\ req' = OnHeaderValue(req, Piece(mark, pos))
                 /\ UNCHANGED fault
     \/ mark # 0 /\ st \in {"body", "chunk_data"} /\ req' = OnBody(req, Piece(mark, pos))
                 /\ UNCHANGED fault
  /\ mark' = 0
  /\ pc' = "loop"
  /\ UNCHANGED <<input, pos, st, trailing, errno, handled, life>>

-----------------------------------------------------------------------------
(* The connection *)

InLoop == pc = "loop" /\ fault = "none"

\* The listen callback: new client_context, and parse() installs the callbacks.
\* Neither looks at what accept and read_start return: without a socket the
\* context stays, and nothing is ever read.
Accept == /\ InLoop
          /\ conn = "none"
          /\ conn' = "alive"
          /\ handle' = "open"
          /\ reading' \in {TRUE, ~PeerFails}
          /\ UNCHANGED <<input, pos, st, mark, trailing, errno, req, pc, handled,
                         ends, writes, fault>>

\* A read of n bytes.  A parser that has stopped takes none of them.
Read(n) == /\ InLoop
           /\ reading
           /\ n \in 1 .. Len(stream) - end
           /\ Cardinality(cuts) < MaxReads \/ n = Len(stream) - end
           /\ end' = end + n
           /\ cuts' = cuts \cup {end + n}
           /\ IF errno = "ok"
              THEN /\ pc' = "parse"
                   /\ mark' = IF st \in {"url", "field", "value"} THEN pos ELSE 0
              ELSE UNCHANGED <<pc, mark>>
           /\ UNCHANGED <<stream, pos, st, trailing, errno, req, handled, life, fault>>

\* Faulty: an empty read leaves the parser in a state of its own.
MutReadZeroAlways ==
  /\ ZeroReads /\ InLoop /\ reading
  /\ errno' = "eof"
  /\ UNCHANGED <<input, pos, st, mark, trailing, req, pc, handled, life, fault>>

\* A read of no bytes: the parser takes it for the end of the stream, which is
\* an error except before the request.
ReadZero == /\ ZeroReads
            /\ InLoop
            /\ reading
            /\ errno' = IF errno = "ok" /\ st # "start" THEN "eof" ELSE errno
            /\ UNCHANGED <<input, pos, st, mark, trailing, req, pc, handled, life, fault>>

\* Faulty: the parser is run whatever its errno.
MutDisconnectAlways ==
  /\ PeerFails /\ InLoop /\ reading
  /\ reading' = FALSE
  /\ fault' = "null"
  /\ UNCHANGED <<input, pos, st, mark, trailing, errno, req, pc, handled,
                 conn, handle, writes, ends>>

\* Faulty: releases the connection, and with it the response.
MutDisconnectReleases ==
  /\ PeerFails /\ InLoop /\ reading
  /\ reading' = FALSE /\ conn' = "deleted" /\ handle' = "closing"
  /\ UNCHANGED <<input, pos, st, mark, trailing, errno, req, pc, handled,
                 writes, ends, fault>>

\* nread < 0.  Only -1, which no socket reports, is told from data: with UV_EOF and
\* other errors the parser, unless it has stopped, gets a null pointer and the
\* error as an unsigned length.
Disconnect == /\ PeerFails
              /\ InLoop
              /\ reading
              /\ reading' = FALSE
              /\ fault' = IF errno = "ok" THEN "null" ELSE "none"
              /\ UNCHANGED <<input, pos, st, mark, trailing, errno, req, pc, handled,
                             conn, handle, writes, ends>>

-----------------------------------------------------------------------------
(* The response *)

\* response::end, in the handler or later.  The text of the response is a local
\* that libuv does not copy.
End(w) == /\ pc \in {"loop", "handler"}
          /\ fault = "none"
          /\ handled > 0
          /\ conn = "alive"
          /\ ends < MaxEnds
          /\ ends' = ends + 1
          /\ writes' = IF w = "refused" THEN writes ELSE Append(writes, w)
          /\ UNCHANGED <<input, pos, st, mark, trailing, errno, req, pc, handled,
                         conn, handle, reading, fault>>

\* What the socket did not take at once is read from where the text was; or the
\* kernel refuses it unread.
LateWrite == /\ InLoop
             /\ handle = "open"
             /\ writes # << >>
             /\ Head(writes) = "queued"
             /\ \/ fault' = "bytes" /\ UNCHANGED writes
                \/ writes' = [writes EXCEPT ![1] = "failed"] /\ UNCHANGED fault
             /\ UNCHANGED <<input, pos, st, mark, trailing, errno, req, pc, handled,
                            conn, handle, reading, ends>>

\* Faulty: releases the connection when the write has succeeded only.
MutWriteDoneOnSuccess ==
  /\ InLoop /\ handle = "open" /\ writes # << >> /\ Head(writes) # "queued"
  /\ writes' = Tail(writes)
  /\ IF Head(writes) = "flushed"
     THEN conn' = "deleted" /\ handle' = "closing" /\ reading' = FALSE
     ELSE UNCHANGED <<conn, handle, reading>>
  /\ UNCHANGED <<input, pos, st, mark, trailing, errno, req, pc, handled, ends, fault>>

\* The write's callback: the context is deleted, which closes the socket.
WriteDone == /\ InLoop
             /\ handle = "open"
             /\ writes # << >>
             /\ Head(writes) # "queued"
             /\ writes' = Tail(writes)
             /\ conn' = "deleted"
             /\ handle' = "closing"
             /\ reading' = FALSE
             /\ UNCHANGED <<input, pos, st, mark, trailing, errno, req, pc, handled,
                            ends, fault>>

\* The callback of a second write resets a response that was deleted.
CloseWrite == /\ InLoop
              /\ handle = "closing"
              /\ writes # << >>
              /\ fault' = "response"
              /\ UNCHANGED <<input, pos, st, mark, trailing, errno, req, pc, handled, life>>

CloseDone == /\ InLoop
             /\ handle = "closing"
             /\ writes = << >>
             /\ handle' = "freed"
             /\ UNCHANGED <<input, pos, st, mark, trailing, errno, req, pc, handled,
                            conn, reading, writes, ends, fault>>

-----------------------------------------------------------------------------
Parse == \/ NextByte \/ UrlEnd \/ NameEnd \/ ValueEnd \/ HeaderEnd \/ EmptyValue
         \/ HeadersComplete \/ BodyEnd \/ ChunkEnd \/ LastChunk \/ TrailersComplete
         \/ MessageComplete \/ HandlerReturn \/ Refuse \/ ReadEnd

Next == \/ Parse
        \/ Accept
        \/ \E n \in 1 .. Len(stream) : Read(n)
        \/ ReadZero
        \/ Disconnect
        \/ \E w \in WriteOutcomes : End(w)
        \/ LateWrite
        \/ WriteDone
        \/ CloseWrite
        \/ CloseDone

Spec == Init /\ [][Next]_vars

\* The parser and the handler return, and the loop gets to a finished write and to
\* a closing handle between reads.
Fairness == WF_vars(Parse) /\ SF_vars(WriteDone) /\ SF_vars(CloseDone)

FairSpec == Spec /\ Fairness

-----------------------------------------------------------------------------
(* Properties *)

\* The headers the handler sees are those of the request, however reads cut their
\* names and values, empty and folded values included; of the trailers of a chunked
\* request it sees all but the last.
HeadersWhole ==
  handled > 0 => req.headers = HeadersOf(stream) \cup TrailersButLast(stream)

CutIn(text, past) == \E c \in cuts : text # << >> /\ text[1] <= c /\ c < text[Len(text)] + past

\* The URL is whole if no read ended in it or right after it, and so is a body of
\* at most one chunk if no read ended in it, wherever else the request was cut.
WholeWhenUncut ==
  handled > 0 =>
    /\ CutIn(UrlOf(stream), 1) \/ req.url = UrlOf(stream)
    /\ \/ CutIn(BodyOf(stream), 0)
       \/ Cardinality(ChunksOf(stream)) > 1
       \/ req.body = BodyOf(stream)

\* A request is given up for a reason only: a byte that it cannot contain, or an
\* empty read in the middle of it.
ErrorForCause == /\ errno = "syntax" => stream[pos] = "bad"
                 /\ errno = "eof" => 1 < pos /\ pos <= Ends(stream)

\* Once the handler has been called, nothing the peer does can harm a response that
\* is ended once and taken by the socket at once: more requests, empty reads and
\* the end of the stream reach a parser that has stopped.
SafeOnceHandled ==
  handled > 0 /\ ends <= 1 /\ (\A i \in DOMAIN writes : writes[i] # "queued")
    => fault = "none"

\* A whole well-formed request that has been received has been handled, however
\* it was cut, unless its URL was cut where the rest does not parse.
NothingLost ==
  InLoop /\ WellFormed(stream) /\ end >= Ends(stream) => handled = 1

\* http_parser.h tells that a URL may arrive in several callbacks: a handler sees
\* all of it.
UrlWhole == handled > 0 => req.url = UrlOf(stream)

\* The same of the body.
BodyWhole == handled > 0 => req.body = BodyOf(stream)

-----------------------------------------------------------------------------
\* The connection implements the exchange of one request and its response.
Phase == CASE conn = "none" -> "none"
           [] conn = "deleted" -> "released"
           [] conn = "alive" /\ handled = 0 -> "open"
           [] conn = "alive" /\ handled > 0 -> "handled"

Exchange == INSTANCE HttpExchange WITH
              phase <- Phase,
              calls <- handled,
              answers <- ends

\* One call of the handler at most, and a release after an answer only.
ImplementsExchange == Exchange!Spec

\* While writes end, well or not, an answered connection is released.
ImplementsFairExchange == Exchange!FairSpec
=============================================================================
