# A TLA+ model of ylong_http_client

`ylong_http_client` is an HTTP client for Rust with an asynchronous and a
blocking interface over HTTP/1.1, HTTP/2 and HTTP/3; `ylong_http` holds the
message types and codecs beneath it. This directory models both in TLA+, checks
the models with TLC on small instances and proves the most important facts with
TLAPS for every value of the constants. `PROJECT.json` lists every part of the
system with its status, the source lines of every definition, and every hazard
with the line where it bites and the properties that watch it.

## 1. The parts and how they interact

`Client::request` runs its attempts, redirects and retries over connections of a
pool. A connection comes from a name lookup, a race of addresses, possibly a
proxy tunnel and a TLS session. An HTTP/1.1 connection belongs to one request at
a time, which reads and writes it directly. An HTTP/2 or HTTP/3 connection is
shared: requests go through a channel to one manager task that owns the streams,
exchanges frames with the tasks that read and write the socket, and answers
through one bounded channel per stream. What a request leaves behind, in the pool
or in the manager, is what the next one finds. Beneath this lie resumable
encoders and decoders: each may be stopped at any octet by the end of a buffer or
of a read, and must go on from there.

## 2. Modules

| module | models |
|---|---|
| `ConnLease` | abstract: a connection is lent to one user at a time, at most `Limit` are lent |
| `Http1Pool` | pool, flags, permits and exchanges of one origin over HTTP/1.1 (`async_impl/pool.rs`, `util/dispatcher.rs`, `conn/http1.rs`, `http_body.rs`) |
| `Conns` | the choice of a connection: HTTP/1.1, 2, 3, negotiation, Alt-Svc (`pool.rs`, `alt_svc.rs`) |
| `H2Streams` | streams, queues, limits and send windows of an HTTP/2 connection (`util/h2/streams.rs`, `manager.rs`) |
| `H2RecvWindow` | a receive window in 32-bit arithmetic (`buffer/window.rs`) |
| `H2Conn` | extends `H2Streams`: manager, channels, tasks, reader, writer, shutdown (`manager.rs`, `dispatcher.rs`, `conn/http2.rs`) |
| `H3Conn`, `H3Io` | the HTTP/3 stream manager; the task that moves its datagrams (`util/h3`) |
| `ClientRequest` | one call: attempts, redirects, retries, both timeouts, the shared body (`client.rs`, `redirect.rs`, `request.rs`) |
| `SyncClient` | the blocking client: pool under one mutex, calls of several threads (`sync_impl`) |
| `H2Frames`, `H2Reader`, `H2Writer` | HTTP/2 frames; reading and writing task with their codecs |
| `Hpack` | both sides of HPACK |
| `H3Reader`, `H3Writer`, `QpackDecoder`, `QpackEncoder` | HTTP/3 frames and QPACK |
| `RequestEncoder`, `ResponseDecoder` | heads of HTTP/1.1 messages |
| `ChunkBody`, `ChunkDecoder`, `HttpBody` | chunked request bodies; response bodies |
| `MimeText`, `MimeEncoder`, `MimeDecoder`, `MultiPart` | MIME messages and forms |
| `HappyEyeballs`, `DnsCache`, `Connector`, `TlsStream` | addresses, lookups, proxies and tunnels, TLS over OpenSSL |
| `RateLimit`, `Transfers`, `UriText` | speed limits; uploader and downloader; URIs |
| `MCFrameCodec`, `MCManagers`, `MCExchange`, `MCSetup` | instances for TLC |
| `Http1PoolProofs`, `Http1LeaseProofs`, `H2RecvWindowProofs`, `ClientRequestProofs`, `H2StreamsSteps`, `H2StreamsProofs`, `SyncClientSteps`, `SyncClientProofs` | theorems and proofs |

An MC module checks several components in one run. Its variable `which` is chosen
at the start and never changes; a behaviour takes only the steps of the component
it names, in variables the components share. Three modules extend one
of their components (`MCFrameCodec` `H2RecvWindow`, `MCManagers` `H3Conn`,
`MCSetup` `SyncClient`); that one has its own variables, which keep their first
state when it is not the one named. The properties of an MC module are
named for a role (reading, writing, judging, being told ...) and say, for each
component, which of that component's own properties holds; each of those is
stated and explained in its module.

A definition that is commented "Mutation of X" is the form of a plausible bug in
X; no specification uses it. It is there to show that a property notices the bug.

How state and actions correspond to the code, for the modules that matter most:

* `Http1Pool`. Every request is a task. Tasks share the semaphore (`usable`), the
  list with its mutex (`list`, `locker`) and the atomic flags (`occupied`,
  `shutdown`). One action is one access to those: in a scan the look at the
  shutdown flag and the compare-and-exchange on the occupied flag are two steps.
  Drops run in the order in which Rust runs them; every await may be the last one.
  `sem` is the permit in a handle, `loose` one that a future still carries, `wire`
  the requests whose responses are unread. A body is how it is framed
  (`Framings`) and how reading it may fail (`Faults`). `spent` marks a connection
  from which no further head can be read: it has ended, or a read ended inside the
  last chunk and `merge_chunks` gave the body up before its line ends (`BodyCut`).
* `H2Streams`. Id 2n-1 of the code is n; bodies and windows count units. The
  manager handles the frames that arrived (`receive`), takes requests (`request`)
  and gives each stream of `pending_send` one turn (`input`), as its `poll` does.
  The queues are the sequences of the code; the server may send SETTINGS,
  WINDOW_UPDATE, HEADERS, DATA, RST_STREAM and GOAWAY for streams it has seen.
* `H2Conn`. An action that changes streams conjoins the one of `H2Streams` with
  what happens to the channels: `chan` is the bounded channel of a stream, `held`
  its entry in `curr_message`, `sending` the manager's state `Send`.
* `H2RecvWindow`. `notification` and `actual` are the fields of `RecvWindow`,
  `credit` is the window the server holds; arithmetic wraps at `2 * Half`, where
  `Half` stands for 2^31.
* `ClientRequest`. `pos` is the position of the body all attempts share, `read`
  what the present one has read; `old` counts HTTP/2 uploads of abandoned attempts
  that go on reading it. A due timer stops the clock until the task was polled.
* `SyncClient`. A thread takes the mutex, walks the list (the look at the flag and
  the dispatch are two steps, and other threads drop their handles in between
  without the mutex), writes, reads the head with what comes behind it, then the
  body in reads of any length. `wire` is a sequence of cells, each marked with the
  call it answers; `dirty` marks a connection that a call left in the middle of an
  exchange, which the blocking client puts back without any flag: after an error,
  a response dropped by its caller, a body that only the end of the connection
  delimits (taken to be empty), and a chunked body that a read cuts inside its last
  chunk (`data_cut`). The last chunk is one cell, which `data_cut` leaves in place.
* `TlsStream`. One poll goes down through OpenSSL into the BIO callbacks and back:
  `bio` is what the callbacks leave in the stream (the error, the retry flag and
  its direction), `get_error` and `check_io_to_poll` turn it into the result of the
  poll. A waker is registered only where the socket said Pending, and
  `PendingIsWoken` asks that each Pending the caller sees is followed by a wake.
* The codecs. An octet is a cell that says what it belongs to, so that a cell read
  in the wrong place is noticed. One step is one turn of the loop in the code;
  buffers and reads have every length the configuration lists.

## 3. Runs

Passing runs:

| run | properties | instance |
|---|---|---|
| `h1_pool` | `TypeOK`, `PermitsConserved`, `IdleIsClean`, `StrayOnlyIfShut`, `LeaseSpec` | 2 requests with redirects, 3 connections, 2 permits |
| `h2_streams` | `QueuedForReason`, `NeverDead`, `OpenedInOrder`, `WithinLimit` | 2 streams, bodies of 2, windows of 0 and 1, limits of 0 and 2, so that windows become negative |
| `h2_answers` | `Answered` | 2 tasks over one stream at a time, with every failure |
| `client_call` | `BodyWhole`, `SecretStays`, `DoneInTime`, `Returns` | 1 retry, limit 3, two authorities, HTTP/1.1 and HTTP/2 |
| `frame_codec` | `InputRead`, `JudgedRight`, `OutputWritten`, `TablesInSync`, `ServerView`, `WindowRestored` | legal and illegal sequences of frames and field blocks in all pieces; a window of 8 raised to 14 |
| `managers` | `DeliveredWhole`, `AllTold`, `FlaggedWhenGone`, `SlotsExact`, `Contained` | 2 tasks on an HTTP/2 or HTTP/3 connection, channels of 1, one fault of every kind (HTTP/3) |
| `exchange` | `InputRead`, `OutputWritten`, `ReportsTrue`, `RightPeer`, `PendingIsWoken`, `OneConnection`, `ReachedIfReachable`, `UriSame`, `AnswerFresh` | the fifteen components of one exchange |
| `setup` | `PacketsSent`, `OwnAnswer`, `BodyWhole`, `LeaseSpec`, `WaiterServed`, `WorkEnds` | whoever waits: pool, choice of a connection, lookups, datagrams, MIME bodies, threads |

What they show, beyond the names: no permit of the pool is lost on any path of
cancellation; a connection that goes back with a response on it is marked; both
pools implement the abstract lease, with the pairs of user and connection as the
refinement mapping (`LeaseSpec` in `Http1Pool` and in `SyncClient`); a stream that waits for a window does so only while that window is
empty; the number of open streams is exact under SETTINGS, resets and GOAWAY in
any order; a slow reader delays frames and loses none; a manager that ends tells
every task whose request it had taken; sensitive headers never reach another
authority; what a codec gives is what went in, for every way of cutting the input
but the ones the table of exceptions below names; a lookup is asked once and its
answer is younger than its TTL; and whoever waits is served, outside the
exceptions of the same table.

Violation runs. Each states what a comment of the repository says, and TLC shows
a behaviour of the code that does otherwise. The quotations are in
`PROJECT.json`.

| run | property | what happens |
|---|---|---|
| `h1_stray` | `RightResponse` | the shutdown flag is read before the occupied flag is taken; a holder sets the one and clears the other in between, and the next request reads the response that was left |
| `h2_goaway` | `GoAwayEnds` | a stream that waits for a slot is not sent after GOAWAY, and the manager waits for it |
| `h2_stream_error` | `StreamErrorStaysLocal` | a reset of one response shuts the connection of the others |
| `client_body` | `OneReader` | an abandoned HTTP/2 upload and its retry read the same body |

### Where the passing properties end

Some properties carry an exception, because the code does otherwise there. The
exception is a history variable or a condition of the model, named in the
property, and is as narrow as the code allows.

| property | exception | in the code |
|---|---|---|
| `IdleIsClean`, `StrayOnlyIfShut` (`Http1Pool`) | 1xx responses, interceptors that refuse, malformed chunks: constants | these give up a connection with a response on it and set no flag (`normalizer.rs`, `http_body.rs`) |
| `IdleIsClean` (`Http1Pool`) | the line ends of a last chunk (`spent`) | `merge_chunks` ends a body when a read ends behind the size of the last chunk; what follows stays on an idle connection without a flag. It is no response, and the next head read there fails |
| `NoFalseError`, `ReusedClean`, `TrailerWhole` (`HttpBody`, in `InputRead`) | `cut`, `split` | a read that ends inside the last chunk: the connection is given back too early, or a trailer section is refused; a read that ends inside a line end of the trailers adds an empty line. `BodyInOrder` and `BodyComplete` hold for every cut |
| `OwnAnswer` (`SyncClient`) | `dirty` | a connection left in the middle of an exchange, as above, goes back to the pool |
| `WaiterServed` (`Http1Pool`) | `Redirects = FALSE` | a redirect response keeps its permit while the next request waits for one |
| `Answered` (`H2Conn`) | `Stranded`; `Redirects`, `Silent` off | after GOAWAY neither waiting streams nor the end of the connection are looked at; an unread redirect response fills its channel; END_STREAM on HEADERS without Content-Length is not seen |
| `FlaggedWhenGone` (`H2Conn`) | `WriteFails = FALSE` | the manager leaves its sending loop with an error and sets no flag |
| `ServerView`, `WindowRestored` | `Padding = 0`, `2 * Configured < Half` | padding is not counted; `unreleased * 2` wraps above 2^30 |
| `EveryoneTold`, `LeftUnread`, `NoIdleSlot`, `ConcurrencyKept`, `Contained` (`H3Conn`) | `lost`, `freed`, `aborted`, `twice`, four causes | what the manager holds is dropped with it; a stream freed after it was passed over, a poll that an error cuts short; a stream whose end is counted twice; a response that ends before its request's section was acknowledged, while its own is blocked, or while a frame of its request is still being sent, and instructions that leave no room for their section, end the connection |
| `SleepsOnlyWhenSent` (`H3Io`) | `raced` | signals taken after QUIC had nothing to send |
| `CallReturns`, `BodyEnds` (`SyncClient`) | `Stuck`, framing `zero`, `dirty` | the read loop spins at the end of a connection; a body of length zero reads once more; a connection left in the middle of an exchange is reused |
| `ChunkedRight` | `Regular` | a last chunk that is full, a second full chunk of a slice, a reader that gives less than a chunk, and a size line cut in the last chunk are written wrongly |
| `FramesInOrder`, `NoFalseRefusal` (`H2Reader`) | PUSH_PROMISE blocks; `excuse` | the block is not the one sent; a PRIORITY frame in two reads, a large frame in the read of the SETTINGS acknowledgement |
| `FramesWritten` | `Handled` | buffers shorter than a frame of fixed length, DATA above the maximum |
| `SameBlocks`, `NoFalseFailure`, `TablesInSync`, `SizeExact` (`Hpack`) | `odd`, `lowered` | an index that is coded wrongly; the encoder ignores a table size that the server lowers (`hpack/encoder.rs`) |
| `SectionsRight`, `NoFalseRefusal` (`QpackDecoder`) | `cut`, `waited`, a capacity below the largest | a section in pieces, or one that had to wait, is resumed in another state; `max_entries` goes by the present capacity. That one stream more than allowed may wait (`decoder.rs`, the comparison comes before the count) is in the model and in no property |
| `SectionsRead`, `NoPanic` (`QpackEncoder`) | `odd`, `miscounted` | lines that are coded wrongly; `can_evict` looks at the front entry only, so that entries of other sizes, or that a section refers to, are miscounted and `used_cap` can underflow |
| `IllegalRefused` (`H2Reader`) | the reading task may end in a panic instead | `decode_headers_payload` and `decode_push_promise_payload` index an empty payload that is flagged PADDED |
| `StreamsOwn`, `EndedWhole`, `ControlWhole` (`H3Writer`) | `mixed`, `lost`, `cut`, `short` | one QPACK encoder for all streams; what `stream_send` took is not looked at; no room is taken for the end of the body; three control frames whose encoder returns a length without the cell that holds it |
| `FramesInOrder` (`H3Reader`) | `strayed` | SETTINGS with more behind it, PUSH_PROMISE, unknown streams |
| `EncodedWhole` | `pends = 0` | an asynchronous body that is not ready loses its stage |
| `FormWhole`, `AnnouncedLength` | `spoiled` | a reuse that failed halfway |
| `DecodedWhole` | `cut` | three splits the MIME decoder gets wrong |
| `DeliveredOnce`, `ProgressIsTrue` | `aborted`, `partial` | a call that ended with a piece in its buffer |
| `WholeOrCut` | `LaxCr` | CR CR LF is taken when the first CR ends a read |
| `ProxyChosen` | `TailOfEntry` | a no-proxy entry also matches a host that is the tail of it |
| `SameOrigin` | `ReadAsAuthority` | a relative Location without `/` is read as an authority |
| `RoundTrip`, `EncodedParses` (`UriText`, in `UriSame`) | `NoSlash`, `LooksAbsolute`, `GoodAuthority`, `TooLong` | a builder accepts a path without its slash and a text without a scheme that holds `://`; the parser refuses some authorities the encoder passes on, user information among them, and texts longer than `MAX_URI_LEN` |
| `FastPeerNotBlamed` (`RateLimit`, in `ReportsTrue`) | `excuse`: `idle`, `waited`, `short`, `held` | a pause of the caller, a read that waits for the peer or brings less than a period's minimum count against the peer; a delay of the maximum speed as long as the interval is taken for a silent peer |
| `ReachedIfReachable` (`HappyEyeballs`) | `again` | the preferred connect is dropped and begun anew, and the connect timeout may be over before it is done |
| `AltIsAdvertised` (`Conns`, in `RightPeer`) | said of the time when the offer was read | an offer withdrawn before the connect is still used. An empty value in Alt-Svc panics with the table locked, and the table stays poisoned (`Poisoned`): requests that meet it end there |
| `PendingIsWoken` (`TlsStream`) | `bare` | NotConnected in the handshake or the shutdown comes out as Pending with no waker |

The total timeout of a call starts again with each retry, and `limited(n)`
follows n - 1 redirects: `DoneInTime` and `AttemptsBounded` say what holds.

### Bounds

Two requests show every race between a holder and a scan, and a redirect makes
each of them hold two connections; with two permits the limit is shared.
`WireBound` is one more than a request can leave. Two streams show every exchange
of queues under windows and, with a limit of 0 that is raised later, a stream that
could overtake a waiting one. A channel of 1 is the smallest that can be full, and
a reply of 2 frames with its end the shortest with one held back while another is
queued. The codecs use the smallest sizes at which each loop runs more than once,
and cut their input at every place. Three callers for one permit (`Conns`): one
waits with the mutex locked while another uses the connection and a third waits
for the mutex. Two threads and one fault reach every reuse in `SyncClient`. In `RateLimit` a
read brings up to three bytes where a period allows two, so that the maximum speed
holds reads back while the interval of the minimum runs. The entries of
`QpackEncoder` have three sizes, and the server of `Hpack` may lower its table. The
longest URI is 10 cells, which some of the texts exceed. The clock of
`ClientRequest` outlasts all tries (`ClockAssumption`).

Deadlock is checked for the pool; elsewhere ids, tasks, messages or the call may
be used up, which is the end of the behaviour. Symmetry is used in the runs of
`Http1Pool` only, whose properties do not tell the members of its sets apart and
which check no liveness.

### Fairness

The runtime polls a woken task, so a step of a task that needs no outside event
is weakly fair (`Working` in `Http1Pool`, `Manager` and `User` in `H2Conn`,
`Proceed` in `Conns`, `IOManager` in `H3Io`, `Thread` in `SyncClient`). The
runtimes queue the waiters of a semaphore, so acquiring is strongly fair; for the
mutex of the blocking pool that is an assumption on the platform. `H2Conn` and
`SyncClient` take it that the server answers the requests it has while the
connection lives, and `H2Conn` that reading ends after a failed write; a blocking
lookup is answered or fails (`DnsCache`). In `ClientRequest` only the clock, the
timers and the end of a failed try are fair: `Returns` holds for a server that
never answers. `MCSetup` states the fairness of its components as one condition
per actor; as `which` never changes, this is the fairness of the component.

## 4. Proofs

The constants are arbitrary but for the assumptions the modules state
(`ConstantsAssumption`, `H2Assumption`, `WindowAssumption`, `RequestAssumption`,
`ClockAssumption`), which TLC evaluates in the runs, and the hypotheses in the
third column.

| theorem | establishes | hypothesis |
|---|---|---|
| `PoolTypes`, `PoolExclusive`, `PoolPermits`, `PoolLimit` | `TypeOK`, `ExclusiveUse`, `PermitsConserved`, `ConnLimit` | |
| `PoolImplementsLease` | `LeaseSpec`: `Http1Pool` implements `ConnLease` | |
| `PoolIdleIsClean`, `PoolStrayOnlyIfShut` | `IdleIsClean`, `StrayOnlyIfShut` | `Plain` |
| `StreamsQueued`, `StreamsNeverDead`, `StreamsOpenedInOrder`, `StreamsWithinLimit` | `QueuedForReason`, `NeverDead`, `OpenedInOrder`, `WithinLimit` | |
| `WindowView`, `WindowNeverAccused`, `WindowComesBack`, `WindowStaysBounded` | `ServerView`, `NeverAccused`, `WindowRestored`, `WindowBounded` | `Benign` |
| `RequestTypes`, `RequestSecret`, `RequestBody`, `RequestAttempts`, `RequestInTime` | `TypeOK`, `SecretStays`, `BodyWhole`, `AttemptsBounded`, `DoneInTime` | |
| `SyncInvariant`, `SyncOwnAnswer`, `SyncBodyWhole` | the inductive invariant, `OwnAnswer`, `BodyWhole` of `SyncClient` | `Sensible` |
| `SyncImplementsLease` | `LeaseSpec`: `SyncClient` implements `ConnLease` | `Sensible` |

The hypotheses. `Plain`: no 1xx response, no interceptor that refuses a body, no
malformed chunk; in each of these cases the code gives up a connection with a
response on it and sets no flag, so the property is false there. `Benign`: no
padding, and twice the configured window fits the integer; section 3 says why
neither can be dropped. `Sensible`: finitely many threads, `Nobody` is none of
them, the server answers in one of the five framings of the model, `Retries` is
a natural number. `Plain` does not exclude the early end of a chunked body
(`BodyCut`), nor `Sensible` that of the blocking client (`data_cut`): both are
steps of the specifications the theorems are about. What they leave on the
connection is outside `wire` in the one and on a `dirty` connection in the other.

**`Http1PoolProofs`.** Exclusive use is not inductive: it depends on where a
handle can be at each stage, on what the scan may have seen, and on the reader of
a body. `IInv` adds these (`Located`, `Scanning`, `Reading`), and that the permit
of a connection is in the handle exactly while someone holds it
(`PermitInHandle`). For `IdleIsClean`, `Clean` says what is on the wire of every
connection that is not shut, held or not, at each stage of its holder: nothing
before the request and after its response, its own response in between.

**`Http1LeaseProofs`.** The limit needs a count: `ScanRoom` says that a scan that
has found nothing leaves room for the connection the request will then set up.
Its step counts finite sets with the cardinality theorems of the library. The
refinement takes each action to a lend, a return or a stutter of `ConnLease`;
that a lend finds the connection free is `ExclusiveUse`, that it stays within
`Limit` is `PoolLimit`.

**`H2StreamsSteps`, `H2StreamsProofs`.** `IInv` has four parts. `Shape`: the
states a stream of a client can be in, which of them have headers to send, and
what the phases say about cursor and batch. `Placed`: each unsent stream is in
one of five places and in no other, and waits for a window only while it is
empty. `Ordered`: unopened streams stand in the order of their ids within and
across `pending_send` and `pending_concurrency`, and those the loop will reach
are in the batch; without it neither `OpenedInOrder` nor `NeverDead` is
inductive. `Limited`: the count is exact, and within the limit while an unopened
stream is on its way to the loop; that is why HEADERS need no check of their own.
The lemmas on Append, Tail, concatenation and SubSeq say which streams a queue
holds afterwards, and the steps cite only those.

**`H2RecvWindowProofs`.** The invariant is that `notification` is the window the
server will see once what is under way has arrived, that it is never negative,
and that between two steps an open window is `Settled`: at least two thirds of
the configured size (`ReleaseSettles` is the arithmetic of one update).

**`ClientRequestProofs`.** `SecretInv`: a request that has its sensitive headers
points at its first authority, at every stage and not only when it is sent.
`BodyInv`: on HTTP/1.1 the body is at its start before an attempt and is read by
that attempt alone. `CountInv` bounds the attempts by the tries that are over and
the redirects of the present one. `TimeInv`: each try begins its total timeout
before that of the previous one is over, so the clock is bounded by the tries
spent.

**`SyncClientSteps`, `SyncClientProofs`.** That a call reads only its own answer
depends on every cell of every connection. `IInv` says of each thread (`UserInv`)
where it has a handle, that the flag of that connection is set, and what it will
find there: nothing before it writes, at most its own response before the head is
read (`HeadOK`), exactly the unread rest of its body afterwards (`BodyOK`), and
that a call is in the scan exactly when it has the mutex. It says of each
connection (`WireInv`) that every head on it is followed by its body (`Aligned`)
and that an idle one that no call left in the middle is empty. `Sole` says that
no two threads have the same handle. The weaker facts about dirty connections are
part of it, because a body read there must still be whole. `LeaseMove` and
`ThreadMoves` take each step to one of `ConnLease`; there are never more handles
than threads (`RoomForOne`).

Layout. A module named `...Steps` proves the steps of an invariant without the
library's theorems on finite sets; what it needs of `Cardinality` is its
hypothesis `CardFacts`, which the module named `...Proofs` discharges. Every
preservation proof has one step per action, and one per conjunct that the action
disturbs.

Only model-checked, and why:

* all liveness (`Returns`, `Answered`, `WaiterServed`, `WorkEnds`, `GoAwayEnds`):
  the proof system does not reach fairness;
* the properties of the codecs, of MIME, bodies, heads, URIs and `TlsStream`:
  they say what a loop or a recursive operator computes from a whole input, which
  needs induction over data; `ChunkBody`, `ChunkDecoder`, `HttpBody`,
  `MimeEncoder`, `MimeText`, `MimeDecoder`, `ResponseDecoder`, `TlsStream` and
  `Conns` also declare or reach recursive operators;
* `H2Conn` and `H3Conn` (`DeliveredWhole`, `AllTold`, `FlaggedWhenGone`,
  `SlotsExact`, `Contained`): `H3Conn` walks its queues and streams with
  recursive functions, whose results need induction;
  the invariant of `H2Conn` would have to relate channels, held messages, server
  and readers on top of that of `H2Streams`, and is not written;
* `PacketsSent`, `OneConnection`, `ReachedIfReachable`, `AnswerFresh`,
  `ReportsTrue`, `RightPeer`, `PendingIsWoken`: no inductive invariant is written
  for these components yet.

`MCSetup` extends `SyncClient`, so the run checks the very `OwnAnswer`,
`BodyWhole` and `LeaseSpec` that the theorems are about; in the behaviours that
pick another component the variables of `SyncClient` keep their first state.

## 5. What is left out

Wording of errors, timing statistics, logging and interceptors beyond their
refusals are abstracted from the modelled parts. Atomic operations are taken to
be sequentially consistent. Semaphores, mutexes, channels and timers of the
runtimes, sockets, OpenSSL, quiche and the system's resolver are external: they
are modelled by what the code relies on. The tables of Huffman codes, static
tables beyond a few entries and character classes are data of which the model has
samples. Not modelled at all: headers, requests, responses and other value types
(containers without intermediate states), the vendored runtime, certificates and
keys, PING keep-alive, path changes of QUIC, the builders, and the benchmarks.

## 6. Next

1. An inductive invariant of `H2Conn` on top of the one of `H2Streams`, for
   `DeliveredInOrder` and `ToldBeforeExit`.
2. Proofs for `Conns` (`OneConnection`, `PermitPerConnection`), after its
   recursive operator is written as a function, and for `H3Io`.
3. An abstract specification of a shared connection (independent exchanges) that
   `H2Conn` and `H3Conn` implement.
4. The vendored runtime: semaphore, bounded channel, parking of workers, timers.
