----------------------------- MODULE MCExchange -----------------------------
(* The parts of one exchange, model checked together: looking the name up,   *)
(* choosing an address and a connection, the way through a proxy, the TLS    *)
(* session, HTTP/1 messages and their bodies, MIME messages and forms,       *)
(* transfers and their speed, URIs.  A behaviour picks one of the components *)
(* and takes only its steps, in variables they share; the ones a component   *)
(* does not use stay 0.                                                      *)
EXTENDS Integers, Sequences, SequencesExt

CONSTANTS CHUNK_SIZE, Base, HexMax, TRAILER_SIZE, Buffers, MaxOut, Rooms,
          Period, MaxRate, MinRate, Interval, Chunk, Horizon

VARIABLES which, s1, s2, s3, s4, s5, s6, s7, s8, s9, s10, s11, s12, s13, s14, s15, s16, s17

After15 == <<which, s16, s17>>
After13 == <<s14, s15, After15>>
After12 == <<s13, After13>>
After10 == <<s11, s12, After12>>
After8 == <<s9, s10, After10>>
After7 == <<s8, After8>>
After6 == <<s7, After7>>
After5 == <<s6, After6>>
After4 == <<s5, After5>>
vars == <<s1, s2, s3, s4, After4>>

Zero15 == s16 = 0 /\ s17 = 0
Zero13 == s14 = 0 /\ s15 = 0 /\ Zero15
Zero12 == s13 = 0 /\ Zero13
Zero10 == s11 = 0 /\ s12 = 0 /\ Zero12
Zero8 == s9 = 0 /\ s10 = 0 /\ Zero10
Zero7 == s8 = 0 /\ Zero8
Zero6 == s7 = 0 /\ Zero7
Zero5 == s6 = 0 /\ Zero6
Zero4 == s5 = 0 /\ Zero5

EOL == <<"cr", "lf">>

\* A chunked response: its chunks as they are sent, the line of the last chunk
\* and the lines of the trailer section.
Chunked(data, chunks, last, lines) ==
  LET tail == last \o EOL \o FlattenSeq([i \in DOMAIN lines |-> lines[i] \o EOL]) \o EOL
  IN  [kind |-> "Chunk", content |-> data, lines |-> lines, wire |-> chunks \o tail,
       tail |-> Len(tail), good |-> TRUE]
Plain(kind, data, sent) ==
  [kind |-> kind, content |-> data, lines |-> <<>>, wire |-> sent, tail |-> 0,
   good |-> data = sent]

Responses ==
  {Plain("Text", <<"x", "cr", "lf">>, <<"x", "cr", "lf">>),
   Plain("Text", <<"x">>, <<"x", "y">>),
   Plain("UntilClose", <<"x", "y">>, <<"x", "y">>),
   Plain("Chunk", <<>>, <<"1", "1", "1", "cr", "lf", "x">>),
   Chunked(<<"x", "y", "cr">>,
           <<"0", "2">> \o EOL \o <<"x", "y">> \o EOL \o <<"1", "sp">> \o EOL \o <<"cr">> \o EOL,
           <<"0">>, <<>>),
   Chunked(<<"x">>, <<"1">> \o EOL \o <<"x">> \o EOL, <<"0", "0", "sp">>,
           << <<"a", ":", "b">>, <<"c", ":">> >>)}

B == INSTANCE HttpBody WITH api <- s1, response <- s2, wire <- s3, closed <- s4,
                            body <- s5, got <- s6

Contents == {SubSeq(<<"a", "b", "c", "d", "e", "f", "g">>, 1, n) : n \in {0, 1, 2, 3, 5, 7}}

C == INSTANCE ChunkBody WITH Bodies <- Contents, Trailers <- {<<>>, <<"t">>}, Sizes <- Buffers,
                             from <- s1, content <- s2, unread <- s3, chunk <- s4,
                             room <- s5, out <- s6

\* Response heads: two header lines and a body, bare LFs, an empty head; then
\* every short run of bytes after a status line, and heads that are refused.
StatusLine == <<"h", "1", "sp", "2", "0", "sp">>
HeadOf(reason, eol, lines, fields, rest) ==
  [bytes |-> StatusLine \o reason \o eol \o FlattenSeq([i \in DOMAIN lines |-> lines[i] \o eol])
               \o eol \o rest,
   ok |-> TRUE, body |-> rest,
   part |-> [version |-> <<"h", "1">>, status |-> <<"2", "0">>, headers |-> fields]]
Raw(s) == [bytes |-> s, ok |-> FALSE, body |-> <<>>, part |-> <<>>]
Lines == UNION {[1 .. n -> {"a", ":", "sp", "cr", "lf"}] : n \in 1 .. 4}
Heads ==
  {HeadOf(<<"O", "sp">>, EOL, << <<"A", "b", ":", "sp", "sp", "x", "sp", "y", "sp">>, <<"c", ":">> >>,
        << << <<"a", "b">>, <<"x", "sp", "y">> >>, << <<"c">>, <<>> >> >>, <<"cr", "lf", "z">>),
   HeadOf(<<>>, <<"lf">>, << <<"b", ":", "x">> >>, << << <<"b">>, <<"x">> >> >>, <<>>),
   HeadOf(<<>>, EOL, <<>>, <<>>, <<"lf">>)}
  \union {Raw(StatusLine \o <<"lf">> \o t) : t \in Lines}
  \union {Raw(t) : t \in {<<"h", "2", "sp">>, <<"h", "1", "sp", "9", "sp">>, <<"h", "cr">>,
                          StatusLine \o <<"bad">>, StatusLine \o <<"cr", "cr">>}}

D == INSTANCE ResponseDecoder WITH Texts <- Heads, Versions <- {<<"h", "1">>}, Codes <- {<<"2", "0">>},
                                   text <- s1, unsent <- s2, dec <- s3, result <- s4

\* Request heads: with and without a path, and names with several values, some
\* of them empty.
Field(name, values) == [name |-> name, values |-> values]
Request(origin, fields) == [method |-> <<"G">>, origin |-> origin, full |-> <<"s", "/", "/">>,
                            version |-> <<"h", "1">>, headers |-> fields]
Requests ==
  {Request(<<>>, <<>>),
   Request(<<"/", "p">>, <<Field(<<"a">>, << <<"x", "y">> >>),
                           Field(<<"b", "c">>, << <<"x">>, <<>>, <<"y", "z">> >>)>>),
   Request(<<"/">>, <<Field(<<"a">>, << <<>> >>), Field(<<"d">>, << <<>>, <<>> >>),
                      Field(<<"d">>, << <<"x">> >>)>>)}

E == INSTANCE RequestEncoder WITH Parts <- Requests, Sizes <- Rooms,
                                  kind <- s1, req <- s2, enc <- s3, call <- s4, out <- s5

-----------------------------------------------------------------------------
(* MIME messages: parts with and without headers and bodies, multiparts in   *)
(* multiparts, texts around them, and headers with a CR of their own.        *)
T == INSTANCE MimeText

OneHeader == <<<<"n">>, <<"v">>>>
Owned(headers, body) == T!MimePart(headers, body, "owned")
Multis ==
  {T!MimeMulti(<<>>, <<"B", "C">>,
               <<T!MimePart(<<OneHeader>>, <<"x", "y">>, "async"),
                 T!MimeMulti(<<<<<<"t">>, <<"m", "I">>>>>>, <<"I">>,
                             <<Owned(<<>>, <<"x">>), Owned(<<OneHeader>>, <<>>)>>)>>),
   T!MimeMulti(<<>>, <<"B", "C">>, <<>>),
   T!MimeMulti(<<>>, <<"B">>, <<T!MimePart(<<>>, <<"x", "y">>, "sync"),
                               T!MimePart(<<OneHeader, OneHeader>>, <<"y">>, "async")>>)}
EncoderRooms == {1, 3, 8}
X == INSTANCE MimeEncoder WITH Multis <- Multis, BufSizes <- EncoderRooms, MaxPends <- 1,
                               multi <- s1, mode <- s2, enc <- s3, call <- s4, out <- s5, pends <- s6

TypeName == <<"t">>
TypeOf(boundary) == <<TypeName, <<"multipart", ";", "boundary=">> \o boundary>>
Inner == T!MimeMulti(<<TypeOf(<<"I">>)>>, <<"I">>, <<Owned(<<>>, <<"x">>), Owned(<<OneHeader>>, <<>>)>>)
Nested == T!MimeMulti(<<TypeOf(<<"I">>), OneHeader>>, <<"I">>,
                      <<T!MimeMulti(<<TypeOf(<<"J">>)>>, <<"J">>, <<Owned(<<OneHeader>>, <<"y">>)>>)>>)
Sent(multi, pre, pad, rest) == [multi |-> multi, pre |-> pre, pad |-> pad, rest |-> rest, bad |-> FALSE]
BadHeader(h) == [multi |-> T!MimeMulti(<<>>, <<"B">>, <<Owned(<<h>>, <<>>)>>), pre |-> <<>>, pad |-> <<>>,
                 rest |-> <<>>, bad |-> TRUE]
MimeMessages ==
  {BadHeader(<<<<"CR", "n">>, <<"v">>>>), BadHeader(<<<<"n">>, <<"v", "CR", "w">>>>),
   Sent(T!MimeMulti(<<>>, <<"B", "C">>,
                    <<Owned(<<OneHeader, <<<<"n">>, <<"w">>>>>>, <<"x", "LF", "-", "-", "B">>), Inner>>),
        <<>>, <<>>, <<"z">>),
   Sent(T!MimeMulti(<<>>, <<"B">>, <<Inner, Owned(<<OneHeader>>, <<"x", "CR", "LF">>)>>), <<>>, <<" ">>, <<>>),
   Sent(T!MimeMulti(<<>>, <<"B">>, <<Nested, Owned(<<>>, <<>>)>>), <<>>, <<>>, <<>>),
   Sent(T!MimeMulti(<<>>, <<"B", "C">>, <<>>), <<"p", "LF">>, <<>>, <<"z">>),
   Sent(T!MimeMulti(<<>>, <<"B", "C">>, <<Owned(<<<<<<" ", "n">>, <<" ", "v">>>>>>, <<"x">>)>>),
        <<>>, <<>>, <<"z">>)}
Y == INSTANCE MimeDecoder WITH Messages <- MimeMessages, ContentType <- TypeName, MaxPiece <- 4,
                               message <- s1, left <- s2, dec <- s3, buf <- s4, res <- s5, cut <- s6

FormPart(name, file, mime, kind, body, length) ==
  [name |-> name, file |-> file, mime |-> mime, kind |-> kind, body |-> body, length |-> length]
FormParts ==
  {<<FormPart(<<"n">>, <<>>, <<"t">>, "bytes", <<"x", "y">>, TRUE),
     FormPart(<<>>, <<"f">>, <<>>, "stream", <<"u", "v">>, TRUE)>>,
   <<FormPart(<<>>, <<>>, <<>>, "none", <<>>, FALSE),
     FormPart(<<>>, <<"f">>, <<>>, "stream", <<"u">>, FALSE)>>,
   <<>>}
FormRooms == {1, 3, 5}
F == INSTANCE MultiPart WITH Forms <- FormParts, BufSizes <- FormRooms, MaxPends <- 1, MaxReuses <- 1,
                             form <- s1, status <- s2, states <- s3, index <- s4, taken <- s5, call <- s6,
                             out <- s7, pends <- s8, reuses <- s9, spoiled <- s10

-----------------------------------------------------------------------------
(* Transfers and their speed.                                                *)
L == INSTANCE RateLimit WITH mode <- s1, now <- s2, max <- s3, min <- s4, doing <- s5, wrote <- s6,
                             total <- s7, excuse <- s8

Payload == <<"a", "b", "c", "d">>
P == INSTANCE Transfers WITH Body <- Payload, BufSize <- 3, MaxCalls <- 1, MaxReuses <- 1,
                             kind <- s1, pc <- s2, src <- s3, data <- s4, piece <- s5, got <- s6, info <- s7,
                             told <- s8, calls <- s9, reuses <- s10, partial <- s11, aborted <- s12

-----------------------------------------------------------------------------
(* Proxies with and without TLS and exclusions, hosts inside and outside of  *)
(* the exclusions, answers of a proxy whole, cut and refusing; TLS sessions. *)
ProxyOf(intercept, secure, no) ==
  [intercept |-> intercept, secure |-> secure, auth |-> intercept = "all", no |-> no]
AB == <<"a", ".", "b">>
AnAddress == <<"ip">>
Proxies ==
  {<<>>, <<ProxyOf("http", FALSE, <<>>), ProxyOf("all", TRUE, <<>>)>>,
   <<ProxyOf("https", FALSE, <<AB, AnAddress>>), ProxyOf("all", TRUE, <<<<"*", ".", "b">>, <<"bad">>>>)>>,
   <<ProxyOf("all", FALSE, <<<<"http://", "a", ".", "b">>>>)>>}
Origins == [scheme : {"http", "https"},
            host : {AB, <<"x", ".", "a", ".", "b">>, <<"x", "a", ".", "b">>, <<"b">>, AnAddress}]
Addresses == {AnAddress}
ProxyReplies ==
  {<<"HTTP", "2xx", "CR", "LF", "CR", "LF">>, <<"HTTP", "2xx", "CR", "LF", "h", "CR", "LF", "CR", "LF">>,
   <<"HTTP", "2xx", "CR", "LF", "h">>, <<"HTTP", "407", "CR", "LF">>, <<"HTTP", "407">>,
   <<"HTTP", "5xx", "CR", "LF", "CR", "LF">>}
K == INSTANCE Connector WITH
       ProxyLists <- Proxies, Uris <- Origins, Ips <- Addresses, Replies <- ProxyReplies, MaxResponse <- 8,
       NumAddrs <- 2, MaxRounds <- 2,
       proxies <- s1, uri <- s2, version <- s3, pin <- s4, pc <- s5, via <- s6, layers <- s7, wrote <- s8,
       reply <- s9, buf <- s10, addrs <- s11, quic <- s12, tg <- s13, now <- s14, res <- s15

Data(cells) == [kind |-> "data", cells |-> cells]
Bare(kind) == [kind |-> kind, cells |-> <<>>]
Records == {<<Bare("ticket"), Data(<<1, 2>>), Bare("notify")>>, <<Data(<<1>>)>>}
Written == <<11, 12, 13>>
TlsRooms == {1, 2}
S == INSTANCE TlsStream WITH
       Incoming <- Records, Outgoing <- Written, BufSizes <- TlsRooms, MaxNotConn <- 1,
       build <- s1, pin <- s2, op <- s3, stage <- s4, coming <- s5, wire <- s6, sock <- s7, half <- s8,
       plain <- s9, wpend <- s10, notified <- s11, polled <- s12, res <- s13, got <- s14, sent <- s15,
       accepted <- s16, bio <- s17

-----------------------------------------------------------------------------
(* URIs: every short text over the characters that matter, after several     *)
(* beginnings; the parts given to a builder; Location headers.               *)
Words(cells, n) == UNION {[1 .. k -> cells] : k \in 0 .. n}
Begun(prefix, cells, n) == {prefix \o w : w \in Words(cells, n)}
HTTP == <<"http", ":", "/", "/">>
UriTexts ==
  Begun(HTTP, {"a", ":", "/", "?", "#", "@", "80", " "}, 3)
    \cup Begun(HTTP \o <<"a">>, {"/", "?", "#", "U", "{", "'", "<", "TAB", "%20"}, 3)
    \cup Begun(<<"https", ":", "/", "/", "[", ":">>, {"]", ":", "443", "/", "a", "["}, 4)
    \cup Begun(<<>>, {"a", ":", "/", "?", "http"}, 4)
    \cup {HTTP \o <<"a", " ", "@", "b">>, <<"ftp", ":", "/", "/", "a">>, HTTP \o <<":", "a", ":", "@", "b">>}
LocationTexts == Words({"/", "a", "?", "#"}, 2) \cup {HTTP \o <<"b">>, HTTP \o <<"b", ":", "443", "/">>}
Option(texts) == {<<>>} \cup {<<t>> : t \in texts}
UriParts == [scheme : Option({<<"http">>, <<"https">>}),
             authority : Option({<<"a">>, <<"a", ":", "80">>, <<"a", "/">>}),
             path : Option({<<"/", "b">>, <<"b">>, <<"/", "a", ":", "/", "/", "b">>}),
             query : Option({<<"a">>, <<"U">>})]
U == INSTANCE UriText WITH Texts <- UriTexts, Locations <- LocationTexts, Parts <- UriParts, MAX_URI_LEN <- 10,
                           text <- s1, stage <- s2, rest <- s3, enc <- s4, uri <- s5, origin <- s6, res <- s7

-----------------------------------------------------------------------------
(* Getting a connection: three callers for one origin and one permit, an     *)
(* Alt-Svc header that offers HTTP/3, mixes it with what does not parse,     *)
(* clears it, or names an offer and leaves it empty.                         *)
N == INSTANCE Conns WITH
       Callers <- 1..3, Versions <- {"Http1", "Http2", "Http3", "Negotiate"},
       Schemes <- {"http", "https"}, MaxConnNum <- 1, MaxOpened <- 2, MaxOffers <- 1,
       MaxCancels <- 1, Nobody <- 0,
       Offers <- {<<"h3">>, <<"h2", "bad", "h3">>, <<"h3", "clear">>, <<"h3", "empty">>},
       version <- s1, scheme <- s2, at <- s3, lock2 <- s4, lock3 <- s5, usable <- s6,
       conns <- s7, list <- s8, h2_conn <- s9, h3_conn <- s10, alt_svcs <- s11,
       says <- s12, left <- s13

\* Every host of up to two addresses, and of three when the first is IPv6:
\* each accepts or refuses before or after the delay, or is silent.
Endpoints == {a \in [v6 : BOOLEAN, answer : {"ok", "refuse", "never"}, after : {0, 2, 4}] :
                 a.answer = "never" => a.after = 0}
HostAddresses == {<<>>} \cup {<<a>> : a \in Endpoints} \cup {<<a, b>> : a, b \in Endpoints}
                   \cup {<<a, b, c>> : a \in {x \in Endpoints : x.v6}, b, c \in Endpoints}
H == INSTANCE HappyEyeballs WITH
       Hosts <- HostAddresses, Timeouts <- {0, 6}, Delay <- 3,
       addrs <- s1, timeout <- s2, now <- s3, stage <- s4, preferred <- s5, second <- s6,
       res <- s7, again <- s8

\* Two tasks and two names; replies with several TTLs, one without a TTL, and
\* one without an address.
Found(ttl) == [addr |-> TRUE, ttl |-> ttl]
R == INSTANCE DnsCache WITH
       Tasks <- 1..2, Authorities <- {"x", "y"}, Ttl <- 2, Servers <- 2,
       Replies <- {<<Found(1), Found(2)>>, <<Found(2), Found(1), Found(99)>>,
                   <<[addr |-> FALSE, ttl |-> 1]>>},
       MaxEntries <- 1, Horizon <- 3, MaxRounds <- 2,
       kind <- s1, now <- s2, task <- s3, map <- s4, lock <- s5, poisoned <- s6

-----------------------------------------------------------------------------
Init == \/ which = "HttpBody" /\ B!Init /\ Zero6
        \/ which = "ChunkBody" /\ C!Init /\ Zero6
        \/ which = "ResponseDecoder" /\ D!Init /\ Zero4
        \/ which = "RequestEncoder" /\ E!Init /\ Zero5
        \/ which = "MimeEncoder" /\ X!Init /\ Zero6
        \/ which = "MimeDecoder" /\ Y!Init /\ Zero6
        \/ which = "MultiPart" /\ F!Init /\ Zero10
        \/ which = "RateLimit" /\ L!Init /\ Zero8
        \/ which = "Transfers" /\ P!Init /\ Zero12
        \/ which = "Connector" /\ K!Init /\ Zero15
        \/ which = "TlsStream" /\ S!Init
        \/ which = "UriText" /\ U!Init /\ Zero7
        \/ which = "Conns" /\ N!Init /\ Zero13
        \/ which = "HappyEyeballs" /\ H!Init /\ Zero8
        \/ which = "DnsCache" /\ R!Init /\ Zero6

Next == \/ which = "HttpBody" /\ B!Next /\ UNCHANGED After6
        \/ which = "ChunkBody" /\ C!Next /\ UNCHANGED After6
        \/ which = "ResponseDecoder" /\ D!Next /\ UNCHANGED After4
        \/ which = "RequestEncoder" /\ E!Next /\ UNCHANGED After5
        \/ which = "MimeEncoder" /\ X!Next /\ UNCHANGED After6
        \/ which = "MimeDecoder" /\ Y!Next /\ UNCHANGED After6
        \/ which = "MultiPart" /\ F!Next /\ UNCHANGED After10
        \/ which = "RateLimit" /\ L!Next /\ UNCHANGED After8
        \/ which = "Transfers" /\ P!Next /\ UNCHANGED After12
        \/ which = "Connector" /\ K!Next /\ UNCHANGED After15
        \/ which = "TlsStream" /\ S!Next /\ UNCHANGED which
        \/ which = "UriText" /\ U!Next /\ UNCHANGED After7
        \/ which = "Conns" /\ N!Next /\ UNCHANGED After13
        \/ which = "HappyEyeballs" /\ H!Next /\ UNCHANGED After8
        \/ which = "DnsCache" /\ R!Next /\ UNCHANGED After6

Spec == Init /\ [][Next]_vars

-----------------------------------------------------------------------------
(* The properties of the components; each is stated and explained in its    *)
(* module, here for the behaviours that pick it.                             *)
\* Reading: however the input is cut into reads, what is handed on is what the
\* peer sent, in order and whole, and what is well-formed is not refused - the
\* body, its trailer and the state of the connection after it (HttpBody), the
\* head (ResponseDecoder), the parts of a message (MimeDecoder), the end of a
\* TLS session (TlsStream).  A body read in a piece that ends inside its last
\* chunk is still whole and in order, but may leave the rest of that chunk on the
\* connection, lose its trailer or be refused for it: HttpBody says where (Cut,
\* Split).
InputRead ==
  /\ which = "HttpBody" =>
       B!BodyInOrder /\ B!BodyComplete /\ B!NoFalseError /\ B!ReusedClean /\ B!TrailerWhole
  /\ which = "ResponseDecoder" => D!HeadRight /\ D!HeadAccepted /\ D!WholeOrCut
  /\ which = "MimeDecoder" => Y!DecodedWhole /\ Y!StacksAgree
  /\ which = "TlsStream" => S!EndIsReal

\* Writing: whatever is taken at a time, the peer receives what was handed over,
\* once, in order and whole - the chunks of a body (ChunkBody), the head of a
\* request (RequestEncoder), messages and forms of which the length was
\* announced (MimeEncoder, MultiPart), the bytes of a transfer (Transfers) and
\* of a TLS session up to its close_notify (TlsStream).
OutputWritten ==
  /\ which = "ChunkBody" => C!ChunkedRight
  /\ which = "RequestEncoder" => E!HeadWritten /\ E!StoppedAtEnd
  /\ which = "MimeEncoder" => X!EncodedWhole
  /\ which = "MultiPart" => F!FormWhole /\ F!AnnouncedLength
  /\ which = "Transfers" => P!DeliveredOnce
  /\ which = "TlsStream" => S!WrittenOnce /\ S!NotifyFirst

\* Accounts: the progress of a transfer, the times of a connection and the speed
\* a transfer is throttled to or given up for are what really happened: the
\* delays of the maximum speed are not held against the peer, unless one of them
\* is as long as the interval of the minimum.  A pause of the caller is: the
\* timer of the next read has run all the while.
ReportsTrue ==
  /\ which = "Transfers" => P!ProgressIsTrue
  /\ which = "Connector" => K!TimesTrue
  /\ which = "RateLimit" => L!MaxSpeedKept /\ L!SlowIsSlow /\ L!FastPeerNotBlamed

\* Addressing: what is sent goes to the party it is meant for - the proxy that
\* the rules choose gets CONNECT and its credentials and nobody else does, an
\* https request only ever enters a session with its origin and the pinned key,
\* Host names the authority, a redirect without a scheme stays with its origin,
\* an alternative service was offered when the request began.
RightPeer ==
  /\ which = "Connector" => K!ProxyChosen /\ K!TunnelExact /\ K!ToProxyOnly /\ K!OriginSecured
  /\ which = "TlsStream" => S!PinnedFirst
  /\ which = "UriText" => U!HostNamesAuthority /\ U!SameOrigin
  /\ which = "Conns" => N!AltIsAdvertised

\* A URI that was parsed, written and parsed again, or encoded, says the same,
\* but for the parts of a builder and the authorities UriText names; formatting
\* adds what is missing and changes nothing that was given.
UriSame ==
  /\ [](which = "UriText" => U!RoundTrip /\ U!EncodedParses)
  /\ [][which = "UriText" => U!KeepsGiven]_vars

\* TlsStream: no wakeup is lost between OpenSSL and the socket - whoever was told
\* Pending and is not woken waits for something that is not there.
PendingIsWoken == which = "TlsStream" => S!PendingIsWoken

\* Conns: an origin has one HTTP/2 and one HTTP/3 connection that takes
\* requests, and no more HTTP/1.1 connections, open or on their way, than permits.
OneConnection == which = "Conns" => N!OneConnection /\ N!PermitPerConnection

\* HappyEyeballs: no reachable address is missed for a timeout, unless a connect
\* was begun anew in the meantime, and the preferred family has its head start.
ReachedIfReachable == which = "HappyEyeballs" => H!ReachedIfReachable /\ H!PreferredWins

\* DnsCache: a name whose answer is still valid is not asked for again, and a hit
\* is younger than every TTL it came with.
AnswerFresh ==
  /\ [](which = "DnsCache" => R!AskedOnce)
  /\ [][which = "DnsCache" => R!HitsAreFresh]_vars
=============================================================================
