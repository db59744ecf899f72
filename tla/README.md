# LibraCore in TLA+

LibraCore is a small C++ network library on libuv: callback wrappers of uv
handles, byte buffers, a packet protocol (`|LI|body_len|cmd|body`) with a server
for it, an HTTP server on the vendored http-parser, a worker pool, and some
utilities.  This directory holds its TLA+ modules, the TLC configurations that
check them on small instances, and TLAPS proofs for every instance.

| file | what it is |
|---|---|
| `PacketChannel.tla` | abstract specification: what a packet connection promises |
| `PacketStream.tla` | the receive path of one connection: read callback, receive buffer, decoder |
| `PacketStreamBurst.cfg`, `PacketStreamLockStep.cfg` | its two runs |
| `PacketStreamProofs.tla` | theorems about it, and that it implements the channel |
| `TcpServer.tla` | the packet server: accept, callbacks, sends, errors, deletion, closing |
| `TcpServerFaults.cfg`, `TcpServerCalm.cfg` | its two runs |
| `TcpServerProofs.tla` | theorems about it |
| `HttpExchange.tla` | abstract specification: one request, its handler, its answer, the release |
| `HttpRequest.tla` | what is in a stream of bytes: reference definitions of URL, headers, body |
| `HttpConnection.tla` | one connection of the HTTP server, its parser included |
| `MCHttpConnection.tla` | the requests its runs use |
| `HttpRough.cfg`, `HttpCalm.cfg`, `HttpUrl.cfg`, `HttpBody.cfg` | its four runs |
| `HttpConnectionProofs.tla` | theorems about it and the response, and that it implements the exchange |
| `HttpUrl.tla`, `MCHttpUrl.tla` | a URL, its parser and its accessors; the targets its runs use |
| `HttpUrlFragment.cfg` | a run of its own; the rest of it is checked with `MCObjects` |
| `HttpResponse.tla` | the status, headers and ends of a response |
| `Completion.tla` | abstract specification: what an asynchronous request promises |
| `UvHandle.tla`, `UvHandle.cfg` | a stream, a timer or a signal: its table of callbacks, its requests, its close |
| `UvHandleProofs.tla` | theorems about it, and that it implements `Completion` |
| `WorkPool.tla` | the worker pool |
| `Singleton.tla` | double-checked locking under several threads |
| `ThreadProofs.tla` | theorems about these two, and that the pool implements `Completion` |
| `EventEmitter.tla` | listeners of an event, and emits within emits |
| `EventEmitterProofs.tla` | theorems about it |
| `MCThreads.tla`, `MCThreads.cfg` | the run of `WorkPool` and `Singleton` |
| `ByteSequence.tla` | abstract specification: what a buffer promises |
| `ByteBuffer.tla` | a buffer and the memory behind it |
| `ByteBufferProofs.tla` | that it implements `ByteSequence` |
| `PacketCodec.tla` | packets written, sent and read |
| `PacketCodecProofs.tla` | theorems about it |
| `MCObjects.tla`, `MCObjects.cfg` | the run of `HttpUrl`, `HttpResponse`, `ByteBuffer`, `PacketCodec` and `EventEmitter` |
| `PROJECT.json` | components, runs, mutants, source map, hazards, theorems |

Commands: `tlc -workers 2 -config PacketStreamBurst.cfg PacketStream.tla` checks
one run, `tlapm PacketStreamProofs.tla` its proofs.  Definitions named `Mut...`
are deliberately wrong variants of the definition that follows them.  No
specification uses them; put in place of the right one, each makes TLC find the
property it is paired with in `PROJECT.json` violated.

## Inventory

Everything but the worker pool's work functions, and the singleton that any thread
may ask for, runs in one thread, the libuv loop, so the concurrency of this code
is the order in which the loop calls back, and what application code does inside a
callback while library code is still on the stack below it.

**Packet decoder** (`net/decoder`).  No state of its own; `handle(client, buffer)`
cuts up to five packets off the front of the buffer and calls `client->process`
for each.  Hard: streams are cut into reads anywhere; the batch limit; the client
may be deleted inside `process`.  Correct when the packets handed out are the
frames the peer sent, and no complete frame is forgotten.

**Packet** (`net/packet*`).  A 64K `StaticBuffer` behind a reader or a writer of
the header.  Correct when what a `WriterPacket` writes a `ReaderPacket` reads, and
a length that does not fit is refused.

**Buffers** (`base/buffer*`, `base/bytes.h`).  Capacity, length, data; `append`,
`remove`, `copy`, `set`; readers and writers are cursors on one.  Hard: boundaries
(exactly full, removing from the middle), an append that throws after a part was
written.  Correct when contents are those of the obvious sequence.

**Packet server** (`net/tcp_server`).  `TCPServer` owns the listening handle; a
`Client` per connection owns a `Tcp`, a receive buffer, two callbacks.
Operations: accept, read, disconnect, `process`, `send`, write completion,
`except_error` (close, over callback, `delete this`).  Hard: the Client deletes
itself inside calls that are still running, and while its handle and its writes
live on. Correct when the over callback comes once, nothing comes after it, and
every object goes away.

**libuv wrappers** (`uv/handle.h`, `stream.h`, `tcp`).  `Handle` owns a heap
`uv_handle_t`, freed by the close callback.  Hard: the wrapper keeps the pointer
after the free; its destructor closes nothing; all writes of a handle share one
callback slot, and the data of a write is not copied.

**Callback slots** (`uv/callback.h`).  A table with one callback for each kind of
event, in `uv_handle_t::data`.  Hard: storing a callback in the slot of a pending
request, or of the callback that is running.

**HTTP server** (`net/http`).  `Server` listens; a `Connection` feeds reads to
http-parser, whose callbacks fill a `Request`; the handler ends a `Response`,
whose write callback releases the connection.  Hard: a URL, a header or a body
that arrives in pieces, the end of input, requests that fail to parse, a response
that is never ended.

**http-parser** (`extra/http-parser`).  Vendored state machine over bytes.

**Timers, signals** (`uv/timer`, `uv/signal_`).  Start, stop, restart from the own
callback, one signal number bound twice.

**Worker pool** (`uv/pool.h`, `apply.h`).  A request holding a function, its
arguments and its result goes to a worker thread and back to the loop.  Hard:
exceptions in the work, in queuing, in the completion; who frees what.

**Singleton** (`base/singleton.h`).  Double-checked locking, and `destory`, which
frees the object and keeps the pointer.

**EventEmitter** (`base/events.h`).  Lists of listeners by event.  Hard: listeners
that add or remove listeners while the list is iterated.

**Application** (`base/application`).  Runs and stops the loop.

**Addresses** (`net/address`).  Conversions, no state.

Files without behaviour to check: logging, strings and exceptions; the abstract
`net/socket.h`; the empty `net/connector`; `uv/fs.h`, which nothing includes.

### How they interact

    peer --bytes--> uv stream --read callback--> Client::recv_buffer_
                                                      |
                                              Decoder::handle
                                                      | Client::process
    application <--packet callback--------------------+
        |  Client::send --> Stream::write --> uv_write ... write callback
        |                                                       | error
        +<--over callback-- Client::except_error <--------------+
                              |  Handle::close ... close callback frees the handle
                              +- delete this

## The plan

1. *Done.*  `PacketChannel`, `PacketStream` and its proofs; `TcpServer` and its
   proofs.  They carry the library's reason to be, and most of its hazards.
2. *Done for one connection:* `HttpExchange`, `HttpRequest`, `HttpConnection` and
   its proofs: every segmentation of a request, the end of input, the release;
   `HttpUrl`: every kind of target and what the accessors make of it;
   `HttpResponse`: statuses, headers, ends.
3. *Done.*  `Completion` and `UvHandle` with its proofs: streams, timers and signals
   over one table of callbacks.
4. *Done.*  `ByteSequence` and `ByteBuffer`, `PacketCodec`, and the proofs of both.
5. *Done.*  `WorkPool`, `Singleton`, `EventEmitter`, and the proofs of each.

Every safety property of a module that has a proof module is proved.  Left to look
at: `HttpUrl`, whose properties speak of the fields of a whole target and need an
induction over its characters for each part of it.

## PacketStream: the receive path

The stream a peer sends is not stored.  A byte is its position in the stream,
`layout` says where frames end, and each buffer is a window of positions:

| model | code |
|---|---|
| `consumed .. recvd-1` | contents of `recv_buffer_` |
| `Free`, `Capacity` | `free_size()`, 64*1024 |
| `HeaderAt(consumed)` | what `ReaderPacket` reads from the first 6 bytes |
| `out` | packets passed to `client->process` |
| `cnt` | the loop counter of `handle` |
| `pc` | in `handle` ("decode") or back in the event loop |
| `status` | open, or the reason `except_error` was called |

`ReadAppend`, `ReadOverflow` and `OnDisconnect` are the ways through the read
callback in `Client::Client`; `NeedHeader`, `BadMagic`, `NeedBody` and `Deliver`
are the ways through one iteration of `Decoder::handle`.  At a position where no
frame starts, `HeaderAt` allows any header: a decoder that lost its place would
read anything.  Frames of every size and any one frame with a bad magic are
initial states, every cut into reads a behaviour.

A header's `body_len` is at most 65535, so a frame may have 6 + 65535 bytes, more
than the receive buffer.  Such a frame is never complete, and the overflow ends
its connection; the small instances keep the relation (`HeaderSize + MaxBody >
Capacity` in the burst run).

Properties.  `InOrder`: the packets are the first frames sent, and the buffer
starts where the next one does.  `CopyNeverThrows`: a frame complete in the
receive buffer fits a packet.  `ClosedForCause`: a bad magic is reported at its
frame and after all before it, an overflow only when what is outstanding does not
fit, an end after the last byte.  `StallOnlyAfterFullBatch`: a complete frame is
left in the buffer only if the last call decoded a full batch.  For peers with at
most `MaxBatch` frames outstanding: `NoStall`, `NothingLostAtEof`, `NoDrop`, and
`ImplementsFairChannel` (each frame is delivered or the connection closes).
`ImplementsChannel` maps the path to `PacketChannel`: `sent` becomes the sequence
of frames, `open` becomes `status = "open"`.

*What the batch limit means.*  `handle` stops after five packets and nothing calls
it again before the next read.  A peer that sends six frames and waits for six
answers waits for ever, and one that sends six and closes loses the sixth.  No doc
or comment says otherwise, so this is no finding here: the properties state
exactly when the limit is felt, and the burst run exercises it.

Fairness, in `FairSpec`: weak on the steps of `handle`, which runs to its end;
strong on reads of at least one byte and on the disconnect.  libuv polls with
level triggering and visits each ready socket in turn, so a socket that stays
readable is read; it may report a read of no bytes first (EAGAIN), which disables
the read for the duration of a `handle`, hence strong.  Nothing is assumed of the
peer, who may stop at any time.

## TcpServer: the life of connections

| model | code |
|---|---|
| `object` | the `Client`: not made, alive, after `delete this` |
| `handle` | its `uv_tcp_t`, to the `delete` in the close callback |
| `writes` | uv_write requests whose callback is due |
| `stack` | nested calls: decoder loop, packet callback, over callback |
| `held` | `Client*` the application kept |
| `overs` | calls of `over_callback_` |
| `fault` | first use of a deleted Client |

The loop calls back only with an empty stack (`InLoop`); the application may send
to any Client it holds from inside a packet or over callback, or from anywhere
else (`InApplication`).  `ExceptError` is `except_error` up to the over callback;
`OverReturn` is the rest, `delete this`.  `Read` abstracts a read to the number of
packets it completes; which packets those are is `PacketStream`'s subject, so
`DecodeThrows` and `ReadOverflow` may come whenever they can come there.

The use of a deleted object is undefined in C++.  The model does not go on after
one: it records where it happened and stops.  There are four places.

* *listen*: `peername` throws in the constructor, `except_error` deletes the
  object under construction, and the listen callback goes on with it
  (`PeernameErrors`).
* *decoder*: a send fails at once inside the Client's packet callback
  (`SyncWriteErrors`; on Unix `uv_write` reports such errors later, on Windows it
  may not), the Client is deleted, and `handle` goes on with its buffer.
* *packet callback*: the same send, in the last packet of a batch too, after which
  `handle` does not look at the buffer again: the closure in `packet_processor_`, which
  is running, is destroyed with the Client.
* *write callback*: a write is cancelled by the close, or failed before it, and
  its callback calls `except_error` of the deleted Client.

`TcpServerFaults` allows all of them and checks what holds nevertheless up to that
point: `HeldAlive`, `OverExactlyOnce`, `HandleFollowsClient` and
`SilentAfterOver`.  The handle of a failed `accept` is never closed nor freed:
`HandleFollowsClient` allows that one leak, before there is a Client, and no other.
`TcpServerCalm` excludes the three causes by its constants and
checks that there is no other way to any of the places (`NeverFaults`), and that each Client whose peer
has gone is released (`Released`).  The code says nothing about these cases, so
they are not findings.

The application is assumed to keep the library's only visible contract: it drops a
Client's pointer when the over callback for it returns, and learns of a Client
through its packet callback.

Fairness: callbacks return (weak on `Return`); a pending disconnect and a closing
handle are got to (strong, as callbacks of other connections take their turns in
between).

Not modelled: the result of `read_start`, which `Client` ignores; a failing
`uv_tcp_init`; `over_read_data` and `recv_buffer`, which nothing calls; exceptions
thrown by the application's callbacks.

## HttpConnection: one request and its answer

| model | code |
|---|---|
| `stream`, `end`, `cuts` | the peer's bytes, how many were read, where reads ended |
| `st`, `pos`, `errno` | `parser->state`, the loop of `http_parser_execute`, `http_errno` |
| `mark` | its `url_mark`, `header_field_mark`, `header_value_mark` and `body_mark`, of which one is set at a time |
| `trailing` | `F_TRAILING` |
| `req` | the `request`: `url_`, `headers_`, `body_`; and `last_header_field_`, `last_header_value_`, `was_header_value_` |
| `pc` | in the loop, in `http_parser_execute`, in the handler below it |
| `conn`, `handle`, `writes` | `client_context` with its request and response, its `uv_tcp_t`, `uv_write` requests |
| `handled`, `ends` | calls of the handler and of `response::end` |
| `fault` | what ended the run |

The parser tells bytes apart by kind only, and so does the model: a stream is a
sequence of kinds, a text the sequence of its bytes' positions.  `NextByte` are
the steps in which no callback is called; each callback has an action of its own,
`ReadEnd` hands over the text that is open when a read is used up.  The states of
the parser that only spell out a word (the letters of a method, `HTTP/1.1`, the CR
of a line end) are one state; "bad" stands for a byte that is refused and for the
byte with which the headers grow past `HTTP_MAX_HEADER_SIZE`.  The parser is
vendored, but its callbacks' contract is what this code relies on, so its control
is translated too.

`Read` hands bytes to the parser unless it has stopped.  `ReadZero` is an empty
read, which the parser takes for the end.  `Disconnect` is a negative one: the
read callback tells only -1 apart, and no socket reports that, so that with
`UV_EOF` or `UV_ECONNRESET` it runs the parser on a null pointer and a huge
length, unless the parser has stopped.  `End`, `LateWrite`, `WriteDone`,
`CloseWrite` and `CloseDone` are the answer and the release; the results of
`accept` and `read_start` are ignored, as in the code.

Five things end a run: a URL that does not parse throws through the read callback
(*url*); the parser gets a null pointer (*null*); libuv reads a response's text
after it is gone, since `end` keeps it in a local (*bytes*); the callback of a
second answer uses the response the first one's deleted (*response*).

Properties.  `HeadersWhole`: headers are those of the request however it is cut;
it is stated against `HeadersOf`, which knows nothing of the parser, and says
exactly which trailers are lost.  `WholeWhenUncut`: so are the URL and a body of
one chunk when no read ends in them.  `ErrorForCause`: a request is given up only
for a bad byte or an empty read.  `NothingLost`: a well-formed request that is
received is handled.  `SafeOnceHandled`: once the handler is called, the peer can
do no harm to a single answer the socket takes at once.  `ImplementsExchange` and
`ImplementsFairExchange` map the connection to `HttpExchange`: one call of the
handler, a release after an answer only, and every answered connection released.

*Findings.*  `http_parser.h` says of a data callback that "It will be called
arbitrarily many times for each string", with `on_url` as the example (lines
84-86). `on_header_field` and `on_header_value` put the pieces together.  `on_url`
and `on_body` assign each piece over the last: `UrlWhole` and `BodyWhole` are
violated by a request that is cut in its URL or body, and by a body of two chunks.
A piece of a URL that does not start with `/` moreover does not parse and ends in
the *url* fault.

Fairness, in `FairSpec`: the parser and the handler go on (weak, on `Parse`); a
write that is finished and a handle that is closing are got to (strong, since
reads interrupt them).  A peer need not send anything, and a handler need not
answer.

Left to other modules: what is in a URL (`HttpUrl`), what is in a response
(`HttpResponse`), and the handle's own life (`UvHandle`).  Not modelled: upgrades,
which nothing here accepts; exceptions of the handler; the destruction of the
server while connections live.

## HttpUrl: a target and its accessors

| model | code |
|---|---|
| `target`, `connect` | what the peer asks for, in parts; whether its method is CONNECT |
| `taken`, `pieces` | what `on_url` was given, and in how many calls |
| `buf`, `handle` | `url_obj::buf_`, `url_obj::handle_` |
| `UrlRows`, `HostRows` | `parse_url_char`, `http_parse_host_char` |
| `ScanUrl`, `ScanHost`, `ParseUrl` | the loops of `http_parser_parse_url` and `http_parse_host` |
| `Accessor`, `PortAccessor` | `schema()` to `fragment()`, `port()` |

Both automata are tables from a state to its rows, a class of characters and the
next state each; a character stands for its class (`"a"` and `"h"` for hexadecimal
and other letters, `"~"` for marks, `"&"` for the delimiters a user's name may
have, `"<"` for what only a path may have), digits for themselves.  `Accepted` is
what `http_parser_execute` lets through, the same automaton started after the
method; `Piece` and `LastPiece` are calls of `on_url`.  `FieldMod` is 2^16 in the
code: offsets and lengths wrap, and the run makes a field that long.  What follows
the text in memory, which `strtoul` may read, is a choice.  `PortAccessor` is a set:
a scheme of four letters may spell "HTTP", which is what `schema()` returns for none,
and `port()` then returns 80.

The properties are stated against the parts the target was put together from,
which know nothing of the parser: `FieldsExact`, `ServedIffWellFormed`
(`WellFormed` is a grammar of hosts and ports), `ConnectThrows`, `PortFromUrl`,
`AccessorsSafe`, `PortAccessorExact`.  `UrlExact` is what the parser makes of a
target, `UrlAccessors` what a handler gets to see of it.

*What they say about the code.*  A field of 65536 bytes is served as an empty one.
No CONNECT with a host is served, since `from_buf` does not tell the parser about
it.  A URL with a path and no port has port 0.  No doc says otherwise.

*Finding.*  `http_parser.h:353-354` asks callers to index `field_data` with a
field iff its bit is set.  `host()` looks at the bit of the scheme and
`fragment()` at that of the query: `IndexedIffSet` is violated, and a fragment
without a query is never returned.

## HttpResponse: what a handler sends

`SetStatus`, `SetHeader` and `End` are the calls of a handler; `headers` has the
names as `ci_less` tells them apart; `texts` is what was written.  `End` stores
the length before it looks the status up, and the lookup may throw:
`LengthOfFirstEnd` says which length a response goes out with, `WrittenSupported`
that a status without a text never does; `ResponseExact` is both.

## UvHandle: handles and their callbacks

| model | code |
|---|---|
| `type` | the class of the handle: `Stream` and `Tcp`, `Timer`, `Signal` |
| `careful` | how the application behaves, see below |
| `handle`, `table` | the `uv_handle_t` and the `callbacks` it points to |
| `slot` | `lut_`, by kind of call, that is by signal number in a `Signal`; 0 is an empty slot |
| `pending`, `on` | requests and watchers libuv has |
| `repeats`, `caught` | starts of a timer that repeat; signals in libuv's pipe |
| `running` | the callback in progress, the call it answers, the call it was given with |
| `owned` | `uv_write_t` and the like, allocated and not deleted |
| `asked`, `heard` | history: what was asked, which callback heard of it |

A call and its callback have one number, so that a callback can be told from
another of its kind.  `Call` is `write`, `shutdown` or `connect`: store, then ask,
which may fail; `connect` may fail before it allocates.  `Watch` is `listen` or
`read_start`, `Start` is that of a timer, `Bind` that of a signal, on which libuv
asserts that its handle is not closing (`BindClosing`); `Unwatch` is `read_stop`, `Timer::stop` and `Signal::cancel`. `Answer`, `Event`, `Deliver` and
`AnswerClose` are libuv's; `Return`, `CloseReturn` and `Throw` end a callback.
Time is left out: a timer that is armed may fire at any moment, and one that
repeats is armed anew before its callback.  A signal that is caught goes through a
pipe, and the handle may watch another number, or the same one for a later call,
when it arrives; libuv drops it in the first case.

Whatever the application does: `HandleSound`, that is, whatever libuv still has to
say finds a live callback (the `assert` of `callbacks::invoke`), and of the
requests libuv took only those leak whose callback threw something else than a
`Libra::Exception`; `MisheardForCause`, a call is answered by its own callback, or
by one stored later for the same kind, never by an earlier one or by one of
another kind, and a timer by its own. For a `careful` application, with one
request of a kind at a time, which does not call a kind from that kind's callback,
throws nothing, binds no signal to a handle that is closing and forgets the handle in
its close callback: `CarefulIsSafe`
(nothing freed is used, no running callback destroys itself),
`ImplementsCompletion` (each request is answered once, by its own callback) and
`CloseReleases`.  The packet server is no such application: it may have several
writes pending, and its write callbacks hear of each other's results; they differ
in a length they log, which is why this goes unnoticed.  `TcpServer` abstracts
from the slots for that reason.

Fairness, in `FairSpec`: libuv answers what is pending on a handle that is
closing, at once and whatever the peer does, and reads its pipe; callbacks return.

## WorkPool: work on other threads

| model | code |
|---|---|
| `stage` | where a request is: not made, queued, with a worker, finished, in `over_cb`, done, or refused |
| `params`, `result`, `req` | its three allocations: the tuple, what the work returned, the `uv_work_t` with its table |
| `outcome` | how the work ended |
| `queue`, `working`, `finished` | libuv's queue, its threads, the requests on their way back |
| `broken` | a result deleted twice, or an exception that left through the loop |

`Run` and `RunThrows` are `pool::run`; `Take` and `Work` the worker's half; `Over`
and its three ends the loop's.  `OwnershipSound` has four parts.  `UsedIsLive`:
each of the three allocations lives as long as someone uses it.  `NullForCause`:
what the null pointer `over_cb` gets can mean. `LeakForCause` and `FaultForCause`:
what leaks, and what is deleted twice, on the many paths of `invoke_over`.
`Answered`: the pool implements `Completion`, each request taken is answered at
most once and by its own callback, and in the end it is, unless an over callback
has broken the run.  Fairness, in `PoolFairness`: workers and loop run, over
callbacks return.

## Singleton

Each thread's place in `instance` or `destory` is its `pc`; the tests of the
pointer outside of the mutex and inside of it are steps of their own, and so are
the store of the pointer (`Publish`) and the object's construction (`Construct`),
in either order if `Reorders`: the unlocked read races with the store, and this is
what the race can show. `SameForAll`: one object, the same for all, through
creations that throw. `RawForCause`: an object is seen unbuilt only while its
maker holds the mutex. `FreesBuiltOnly`: `destory` frees no object under
construction.  `FreedForCause`: `destory` keeps the pointer, so the object is freed,
and `instance` returns it freed, exactly from the first `destory` on that found it;
and it is freed twice exactly when a second one has found it, a second call of one
thread or two that are past the first test at once.  `found` counts the calls that
did.  `SingletonSound` is the four.  `CallsEnd`: all calls return or
throw (weak fairness of each thread's steps: calls are few, so a mutex that is
free is got), unless a second `destory` freed the object again, which is where the
model stops.

## EventEmitter

`entry` is the list of one event, `given` the pointers the application knows,
`emits` the emits in progress, each with the listener it is at and those it has
called.  `emit` copies the `shared_ptr` of the listener it is at, but not its
place in the list: an erased place is where it goes on from, and the model stops
there.  An address may be used again once its callback is free.  `EmitterSound`:
an emit calls each listener at most once and in the order of the list
(`CallsInOrder`), has called all there are when it ends (`AllCalled`), a pointer
removes its own listener while it is there (`RemovesOwn`), and emit goes on from
an erased place only if a listener was removed while it was called
(`FaultForCause`; `bold` remembers that).

## ByteBuffer, PacketCodec

`ByteBuffer` is `Buffer` over memory that goes on behind it: `extent` is how far a
call has reached.  `ImplementsBytes` maps it to `ByteSequence`, whose actions are
concatenation, replacement and removal, and has `OverrunForCause`: only a removal
from the middle reaches behind the buffer, by as many bytes as lie before the gap.
The library removes from the front only.

`PacketCodec` is a `WriterPacket`, the frame a decoder cuts out by the size in the
header, and a reader.  A byte has `Base` values, 256 in the code.  `WireExact`:
what a sequence of appends, some of which throw, leaves in the buffer, the torn
string included.  `ReadString` may find no memory for the length it has read, which
leaves the reader behind the length.  `BodySizeExact`, `ReadsWhatIsThere`, `RoundTrip`: a reader that
asks for the types that were written gets the values.  `CodecExact` is all of
them.

## MCThreads, MCObjects

These two check several components in one run.  The components share no state and
call nothing of each other, so a behaviour of all of them is an interleaving of
one behaviour of each, and no property speaks of two: it is enough to run one at a
time.  The first state chooses the part that runs, the others rest in an initial
state.  `MCThreads` has the parts that threads meet in, `WorkPool` and
`Singleton`, with their fairness; `MCObjects` those that one thread uses.  Modules
that are checked together by `EXTENDS` prefix their `Init`, `Next` and `TypeOK`.

## Hazards that are described, not excluded

Where the code has no guard against a hazard, no property can say that it does not
happen; what the properties say instead is exactly when it does, or that nothing else
is to be feared.  `PROJECT.json` says so for each: use of a deleted Client
(`NeverFaults`, under the calm constants), the handle of a failed accept
(`HandleFollowsClient`), overlapping writes (`MisheardForCause`; `ImplementsCompletion`
is for careful applications), a running closure replaced and a handle used after its
close (`CarefulIsSafe`), a queued write of a local string (`SafeOnceHandled`), a URL
whose pieces do not parse (`NothingLost`), a singleton used or freed again
(`SingletonSound`), a listener removed while it is called or after its address was
used again (`EmitterSound`), a removal from the middle (`ImplementsBytes`), torn strings
and cut sizes (`CodecExact`), a length that an end has left (`ResponseExact`).

## Runs

| run | states | what it shows |
|---|---|---|
| `stream_burst` | 223k | 3 frames of 2 to 7 bytes, buffer 6, batch 2, nothing waited for: batches cut short, overflows, an oversized frame, every bad magic, every cut |
| `stream_lockstep` | 20k | 4 frames, at most 2 outstanding, all fit: no stall, no loss, no drop, delivery |
| `server_faults` | 465k | 2 connections, 2 packets, 2 writes under way, batch 2, every failure |
| `server_calm` | 15k | the same without the three causes of faults, with liveness |
| `http_rough` | 547k | 7 requests, every cut into up to 4 reads, empty reads, the end at any time, 2 answers, every outcome of a write |
| `http_calm` | 129k | the same requests and cuts from a peer that stays: no request is lost, answered connections are released |
| `http_url` | to the violation | a handler does not always see all of the URL |
| `http_body` | to the violation | nor all of the body |
| `url_fragment` | to the violation | accessors that look at another field's bit |
| `objects` | 398k | URLs of every combination of parts, whole or in two pieces; 4 calls of a handler; a buffer of 3 bytes, texts of up to 4, every removal; 16 bytes of 2 bits with 3 entries and 3 reads; 4 listeners on 3 addresses, emits two deep |
| `handles` | 284k | a stream, a timer, a signal handle of 2 numbers; 4 calls at any moment, refused, overlapping, from callbacks, with exceptions, or those of a careful application, with liveness |
| `threads` | 36k | 3 requests on 2 workers, every way to end; 3 threads of 2 calls, reordered stores, creations that throw; with liveness |

Why these bounds are enough.  Stream: three frames with batch 2 is the least that
leaves a frame behind; capacity 6 with frames of 2 to 7 bytes has frames that are
smaller, exactly as large as and larger than the buffer, and two that fit only one
at a time; headers of 2 bytes can be cut.  The lock-step run needs a fourth frame
so that a full batch is followed by another.  Server: two connections are what it
takes for one to be destroyed inside a callback of another; two packets per batch
of two reach both ways of `PacketReturn`; two writes let one be flushed and the
next cancelled.  HTTP: a text that is cut twice has a first, a middle and a last
piece, which is all the callbacks tell apart, and three cuts leave one for another
text; a text of three bytes is the least that can be cut twice.  The requests have
each kind of header line (plain, empty, with a space, folded), each kind of body
(none, by length, one chunk, several), trailers, bytes after the request, and a
bad byte in the URL and in the headers.  A second answer is what it takes for a
write to be due after the release.  URL: each part is empty, of one character
class each or malformed, all combined; a cut in every place makes two pieces;
`FieldMod` 32 is reached by one long path.  Handle: of four calls two can be of
one kind, a third can be made from a callback and the fourth be the close; a fifth
is to the others as the fourth.  Pool: two workers let a third request wait.
Singleton: the third thread is one that arrives between two others.  Emitter: an
address is used again with four listeners on three addresses; an emit within an
emit is what it takes to remove the listener of an outer one.  Buffer: capacity 3
has a first, a middle and a last byte; `Behind` is as much as the largest move can
reach.  Codec: sixteen bytes are one more than a size of two digits to base 4 can
count; a torn string, and one behind it, need three entries. `MaxWrites`,
`MaxPackets`, `NFrames`, `Window`, `MaxReads`, `MaxEnds`, `MaxPieces`, `MaxCalls`,
`MaxCaught`, `MaxListeners`, `MaxDepth`, `MaxText` and `MaxEntries` are the only
bounds; the rest are constants of the code made small.  No run checks for
deadlock: connections and handles end, calls are used up, and a fault stops the
model; that what should happen does is left to the liveness properties.

## Proofs

`PacketStreamProofs` proves for all values of the constants, from
`SizesAssumption` and `CapacityAssumption` (the receive buffer, 64*1024, is not
larger than a packet's buffer, 0x10000):

* `Invariance`: `Spec => []IInv`.  `IInv` adds to the three safety invariants and
  the type the bounds `consumed <= recvd <= layout[sent]` and `recvd - consumed <=
  Capacity`, and that `handle` runs only on an open connection with `cnt <
  MaxBatch`.  They are needed because `InOrder` alone does not say that the header
  read at `consumed` belongs to a frame that was sent, nor that a complete frame
  is no larger than the buffer it is in: the second, with the capacity assumption,
  is why `copy` cannot throw.  The heart is `DeliverIsNextFrame`.
* `TypeCorrect`, `DecoderKeepsFrames`, `CopyIsSafe`, `ClosesForCause` follow.
* `StallIsBatchLimit`: an idle connection with a complete frame has just done a
  full batch.  `WindowKept` and, for `Window <= MaxBatch`, `NoStallInLockStep` and
  `LosslessEnd`; `NeverDropped` for windows that fit.
* `ReceivePathIsChannel`: `Spec => Channel!Spec`, one step for each action.

That a frame ends behind all that are before it (`FramesIncrease`) is an induction
over the frames.  The library's induction theorems take the induction hypothesis as
an operator, which no prover here can instantiate; `SetInduction` says the same of a
set, and follows from the library's theorem that the order of the natural numbers is
well-founded.  `PacketCodecProofs` uses it, too.

`TcpServerProofs` proves for any set of connections, from `ServerAssumption`:
`Invariance`, `TypeCorrect`, `HeldStaysAlive`, `OverOnce`, `HandlesFollow` and
`SilenceAfterOver`.  The inductive invariant describes the call stack: at most one
decoder call, at its bottom; each other frame is an over call, and a Client has at
most one.  It ties each over call to a Client that is alive with a closing handle,
which is what makes `OverReturn` delete a live object and nothing delete it twice.
`CalmServerNeverFaults` has as assumption `Calm`: writes succeed, `uv_write` never
fails at once, peers stay until accepted.

`HttpConnectionProofs` proves for any set of requests and any bounds, from
`HttpAssumption`: `Invariance`; `HandledIsSafe`, that is `SafeOnceHandled`; and
`ConnectionIsExchange`, that is `ImplementsExchange`.  The inductive invariant
says that a connection is in one of two phases: `Before` its handler is called
nothing was answered and nothing is closing; `After`, the parser has stopped for
good, or is about to when the handler returns.  That is what keeps the rest of the
input from calling a second handler, and the end of the stream from running the
parser on a null pointer.  `Answered` counts: the write whose callback released
the connection is one of the answers, so a callback that is due afterwards is of a
second one. The steps of the parser enter as one lemma, `ParserStep`: whatever
they do to the request, they leave the connection alone.

`TypeCorrect` is `TypeOK`, from the invariant `Typed`, which has the parser at most
one byte behind what was read.

`GivenUpForCause` (`ErrorForCause`), `ReceivedIsHandled` (`NothingLost`) and
`NeverStuck` need what a request is.  `HttpRequest` says it byte by byte:
`Follow(s, i)` are the kinds of bytes that may follow the byte at `i`, looking one
byte back at a line end, and `IsRequest` a stream that keeps to it up to its first
bad byte.  Nothing in it speaks of the parser.  `Grammatical`, that the streams are
such requests, is the theorems' hypothesis, and TLC evaluates it for the streams of
the runs (`RequestsAssumption`).  The invariant is `Synced`: `Came` ties the
parser's state to the last two bytes it has come past, `Within` keeps it inside of
the request as long as no handler was called, `Stopped` says why it is in the loop.
That each step keeps `Came` is the core: at a line end it takes the byte before the
line end to know what the parser must be in, and `InTrailer` to tell an empty line
after the headers from one after the trailers.  `ReceivedIsHandled` moreover
assumes that no read is empty, since an empty one in the middle of a request ends
it.  `NothingLost` alone would hold of a parser that hangs in the middle of a read;
`NeverStuck` says that it has a step for every byte the grammar allows.

`HeadersAreWhole` is `HeadersWhole`, for every grammatical request and every way to cut
it.  `Flushed` is the request as it would be if the read ended at the byte the parser
looks at.  The invariant `Gathered` says that its header in the making is that of
`IsLast`, the last name that has begun, with the bytes of its name and value that the
parser has come past, and that the headers stored are those before it, and it too once
`on_headers_complete` has run.  It takes three ideas: that handing a text over in pieces
is handing it over at once (`PieceByPiece`), so that the end of a read changes nothing of
`Flushed`; that a text grows by one byte at its end (`InOrderAppend`), which is how
`HeaderOf`, a set of positions in their order, is reached step by step; and that no
header overwrites another, since names that begin at different bytes differ
(`NamesDiffer`).  No stream has two headers of one name, since a name is the bytes it
was made from: what `headers_` keeps of equal names is in `Store`, and not proved.

`UncutIsWhole` is `WholeWhenUncut`, on top of that.  `UrlGathered` and `BodyGathered`
say that what is at hand is all of the text so far, or that a read has ended in it; for
the body, that there are two chunks is the third way (`TwoChunks`).

`ResponseIsExact` is `ResponseExact`, from `ResponseAssumption`: `Lengths` says that
a length among the headers is the handler's or that of the first end, and that
after an end, a failed one too, there is one.

`ThreadProofs` proves for any set of threads, from `SingletonAssumption`:
`SingletonInvariance`, `SingletonTypeCorrect`, `OneForAll`, `RawWhileMade`, `FreedWhenBuilt`,
`FreedWhenFound` and `SingletonIsSound`, which is all of them.  The inductive invariant ties a thread's
place to what it may rely on: who is in the critical section is the owner of the
mutex; the pointer is null exactly as long as no object is made, but for its maker
between making and storing; an object is raw only between its maker's steps; a thread
that is past the first test of `destory` has found the object (`Counted`).
`SameForAll` alone is not inductive, since the thread that is past the second test
must know that the pointer is still null, which only the mutex tells.

It also proves for any sets of requests and workers, from `PoolAssumption`:
`PoolInvariance`, `PoolTypeCorrect`, `UsedStaysLive`, `NullWhenThrown`,
`NoLeak`, `DoubleFreeForCause`, which together are `Ownership`, and
`PoolIsCompletion`.  The inductive invariant says where a request is by where it
is found: each entry of the queue is of a queued request, no request is twice in
it, a worker's request is with that worker only, an entry on the way back is of a
finished one, and who is answered is in `heard` once, with its own callback.  Each
stage then fixes what is allocated. The lemmas `Join` and `Leave` say what
appending to a sequence without duplicates and taking its head do to its range.

`UvHandleProofs` proves for any number of calls and any set of signals, from
`HandleAssumption`: `Invariance`, `HandleIsSound`, `MisheardOnlyByLater`,
`CarefulNeverFaults` and `HandleIsCompletion`, all but the liveness of `UvHandle`.
`SlotIsLast` is the center of the invariant: a slot holds the last call of its kind,
as long as there is a table, which is why a call can be misheard by a later one of
its kind only.  `Life` orders the end of a handle: the close callback is there while
it is closing, and once it runs nothing is pending.  `RunningFits` is about the
callback in progress, `Held` about what libuv has, `Allocated` and `Answered` about
requests and the history.  `Careful`: for a careful application each pending
request still finds its own callback in its slot; that, and not what the
application promises, is inductive.

`EventEmitterProofs` proves from `EmitterAssumption`: `Invariance` and
`EmitterIsSound`, for any number of listeners, addresses and emits within emits.
The listeners that an emit has come past, by `Past`, are exactly those it has called
or that are gone (`EmitOK`): the list is ordered by the time of adding, so that
where an emit stands says which those are, whatever was removed.  Only the innermost
emit may stand between two calls (`Nested`), and unless a listener was removed while
it was called each stands at one that is listed (`Placed`).

`ByteBufferProofs` proves from `BufferAssumption`: `BufferIsBytes`, that is
`ImplementsBytes`, one lemma for each call.  `Move` is the hard one: the bytes it
copies from behind those in use are copied to places behind those left in use.  The
proof has made two assumptions explicit: there is memory of at least the capacity
behind the buffer, for `Move` to reach into, and sizes do not wrap.

`PacketCodecProofs` proves for any base, any capacity up to what the size field can
say, any commands, numbers and strings and any order of calls, from
`PacketAssumption`: `CodecIsExact`, that is `CodecExact`, by way of
`CodecInductive`.  It goes in three stages.

* Numbers: `NumberOfDigits` and `DigitsOfNumber` say that swapping to network order
  and back loses nothing, either way, for one, two and four bytes; `BelowModulus`,
  that bytes never make a number that is too large for them.
* Entries: `Encoded` is a recursive function, so there is something to show before it
  can be used: `EncodingExists` and `OneEncoding`, by `SetInduction`, are that there is
  exactly one such function.  `EncodedAppend` and `EncodedNext` then say where the
  bytes of an entry are, and `SameStanding` that bytes, read as a type, are those of no
  other entry of that type.  This last one is what makes a round trip.
* Steps: the invariant `IInv` adds to `CodecExact` that the frame is as long as its
  header says and, but for the size, what the writer's buffer still begins with
  (`Framed`), and that whole entries have lengths their digits can give back
  (`Whole`).  `RoundTrip` alone is not inductive: that a reader that has followed finds
  the next entry at its index (`NextStands`) takes what it has read, which is
  `ReadsWhatIsThere`, and what is in the buffer, `WireExact`.  One more append after the
  packet was sent makes the size in its header differ from that of the body for good,
  which is why it cannot break the round trip.

Only model-checked: the liveness properties `ImplementsFairChannel`, `Released`,
`ImplementsFairExchange`, the second half of `Answered`, `CloseReleases` and
`CallsEnd`, which rest on fairness; all of `HttpUrl`, that is `UrlExact` and
`UrlAccessors`: its scanners are folds over a text, whose theory the library has with
operators as parameters only.  An argument like that of `PacketCodecProofs`, which
does the induction on a set of lengths, would need the folds written as recursive
functions and, for `UrlExact`, an invariant of the scan for each state of the two
automata; it has not been tried.

## Not modelled

* `base/application`: each function is one call into libuv's loop.  `stop` sets a
  flag that only the destructor reads, so that the loop of a stopped application
  is not closed; it is the process's default loop and ends with it.
* `net/address`: a conversion without state.  `port()` returns network order,
  where the constructor takes the host's; only a log line uses it.
* `uv/fs.h`: nothing includes it, and it does not compile on its own.
* Logging, string formatting, exception classes, `libra.h`: no state that anything
  else depends on.
* `net/socket.h`, `net/connector`: an interface nothing implements and two empty
  files.
* Of http-parser: responses (`s_res_*`), which a server never parses, upgrades,
  the spelling of methods and of header names, pausing.
* The socket options of `uv/tcp` and `uv/stream`, which pass a value on to libuv.
