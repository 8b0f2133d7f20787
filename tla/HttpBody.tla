------------------------------ MODULE HttpBody ------------------------------
(* The body of a response over HTTP/1: HttpBody of the asynchronous client   *)
(* (async_impl/http_body.rs) and of the blocking one (sync_impl), on top of  *)
(* the decoders of ylong_http/src/body.  The reader asks for data with       *)
(* buffers of any length; the bytes come first from what was read with the   *)
(* head ("pre"), then from the connection in pieces of any length.           *)
EXTENDS ChunkDecoder

CONSTANTS
  Responses,      \* a body: [kind, content, lines, wire, tail, good]
  Buffers,        \* lengths of the reader's buffers
  TRAILER_SIZE    \* length of the buffer of poll_trailer

VARIABLES
  api,            \* "async" or "sync"
  response,       \* the response being read
  wire,           \* bytes of it that have not arrived
  closed,         \* the server has closed the connection
  body,           \* HttpBody
  got             \* what the reader was told

httpBodyVars == <<api, response, wire, closed, body, got>>

\* io: the stream is held by the body, or was given back, shut down or not.
\* left: what TextBodyDecoder still expects.
New(kind, pre, trailer, len) ==
  [kind |-> kind, pre |-> pre, hasPre |-> pre # <<>>, io |-> "held",
   left |-> len, chunk |-> Fresh(trailer)]

\* fault: a connection or an interceptor failed; skipped: trailer dropped data;
\* fed: bytes handed to the chunk decoder; cut and split: how reads ended there.
Nothing == [data |-> <<>>, end |-> "no", asked |-> FALSE, trailer |-> <<>>,
            fault |-> FALSE, skipped |-> FALSE, fed |-> 0, cut |-> FALSE, split |-> FALSE]

\* The blocking client has no bodies that end with the connection, and tells
\* the decoder of a trailer section only if the head announced one.
Init ==
  /\ api \in {"async", "sync"}
  /\ response \in {r \in Responses : api = "async" \/ r.kind # "UntilClose"}
  /\ closed = FALSE
  /\ got = Nothing
  /\ \E n \in 0 .. Len(response.wire) :
       /\ wire = From(response.wire, n + 1)
       /\ body = New(response.kind, SubSeq(response.wire, 1, n),
                     api = "async" \/ response.lines # <<>>, Len(response.content))

-----------------------------------------------------------------------------
(* One poll_read of the connection, with room for n bytes.                   *)

Arrivals(n) ==
  {SubSeq(wire, 1, k) : k \in 1 .. (IF n < Len(wire) THEN n ELSE Len(wire))}

Eof == closed /\ wire = <<>>

\* TextBodyDecoder::decode: whether the text is complete, and what is over.
TextDecode(left, bytes) ==
  [left |-> IF Len(bytes) < left THEN left - Len(bytes) ELSE 0,
   complete |-> Len(bytes) >= left, over |-> Len(bytes) > left]

\* A read ended after the first p bytes of the body, inside its last chunk.
\* Cut: behind its 0 when the decoder (now d) has not opened a trailer section,
\* so that merge_chunks takes the body for finished; or right after the 0 of a
\* body with trailers, so that the decoder does not open the section and
\* refuses it.  Split: between the bytes of a line end of the section.
LastChunk == Len(response.wire) - response.tail + 1
Inside(p) == response.tail > 0 /\ p >= LastChunk /\ p < Len(response.wire)
Cut(d, p) == Inside(p) /\ IF p = LastChunk THEN d.hasTrailer /\ response.lines # <<>> ELSE ~d.inTrailer
Split(p) == Inside(p) /\ response.wire[p] = "cr"

Tell(bytes) == got' = [got EXCEPT !.data = @ \o bytes]
Finish(b, bytes) == /\ body' = [b EXCEPT !.io = IF @ = "held" THEN "given back" ELSE @]
                    /\ got' = [got EXCEPT !.data = @ \o bytes, !.end = "eof"]
Fail(b, io) == /\ body' = [b EXCEPT !.io = io]
               /\ got' = [got EXCEPT !.end = "error"]

-----------------------------------------------------------------------------
(* Text::data and UntilClose::data.  The bytes read with the head are copied *)
(* first; what room is left in the buffer is offered to the connection.      *)

FromPre(n) == IF n < Len(body.pre) THEN n ELSE Len(body.pre)
AfterPre(n) == [body EXCEPT !.pre = From(@, FromPre(n) + 1),
                            !.hasPre = @ /\ FromPre(n) > 0,
                            !.left = IF body.kind = "Text"
                                     THEN TextDecode(@, SubSeq(body.pre, 1, FromPre(n))).left
                                     ELSE @]
Copied(n) == SubSeq(body.pre, 1, FromPre(n))

Reading == body.io = "held" /\ got.end = "no"

\* read_remaining: the text ends with, or before the end of, those bytes.
TextFromPre(n) ==
  LET t == TextDecode(body.left, Copied(n))
  IN  /\ Reading /\ body.kind = "Text" /\ Copied(n) # <<>> /\ t.complete
      /\ IF t.over THEN Fail(AfterPre(n), "shut") ELSE Finish(AfterPre(n), Copied(n))
      /\ UNCHANGED <<api, response, wire, closed>>

\* The buffer is full, or the connection has nothing (Pending) and there is
\* something to return.  A blocking read waits instead.
PlainPartial(n) ==
  /\ Reading /\ body.kind # "Chunk"
  /\ body.kind = "Text" => body.left > FromPre(n)
  /\ FromPre(n) < n => api = "async"
  /\ body' = AfterPre(n)
  /\ Tell(Copied(n))
  /\ UNCHANGED <<api, response, wire, closed>>

MayReadOn(n) == /\ Reading /\ body.kind # "Chunk" /\ FromPre(n) < n
                /\ body.kind = "Text" => body.left > FromPre(n)

TextRead(n) ==
  /\ MayReadOn(n) /\ body.kind = "Text"
  /\ \E bytes \in Arrivals(n - FromPre(n)) :
       LET t == TextDecode(AfterPre(n).left, bytes)
           b == [AfterPre(n) EXCEPT !.left = t.left]
       IN  /\ wire' = From(wire, Len(bytes) + 1)
           /\ CASE t.over -> Fail(b, "shut")
                [] t.complete /\ ~t.over -> Finish(b, Copied(n) \o bytes)
                [] OTHER -> body' = b /\ Tell(Copied(n) \o bytes)
  /\ UNCHANGED <<api, response, closed>>

TextEof(n) ==
  /\ MayReadOn(n) /\ body.kind = "Text" /\ Eof
  /\ Fail(AfterPre(n), "shut")
  /\ UNCHANGED <<api, response, wire, closed>>

UntilCloseRead(n) ==
  /\ MayReadOn(n) /\ body.kind = "UntilClose"
  /\ \E bytes \in Arrivals(n - FromPre(n)) :
       /\ wire' = From(wire, Len(bytes) + 1)
       /\ body' = AfterPre(n)
       /\ Tell(Copied(n) \o bytes)
  /\ UNCHANGED <<api, response, closed>>

\* An HTTP/1 stream is always "closable", so that its end gives it back.
UntilCloseEof(n) ==
  /\ MayReadOn(n) /\ body.kind = "UntilClose" /\ Eof
  /\ Finish(AfterPre(n), Copied(n))
  /\ UNCHANGED <<api, response, wire, closed>>

-----------------------------------------------------------------------------
(* Chunk::data.  A turn of its loops hands one piece to the decoder and      *)
(* merges the data of the chunks; a turn that yields no data is followed by  *)
(* another one, and the state between two turns is the state in which the    *)
(* call returns Pending.                                                     *)

\* merge_chunks of what decode returned: the data, whether a chunk of size 0
\* was met, or an error.
merge_chunks(r) ==
  LET zero == SelectInSeq(r.chunks, LAMBDA c : ~c.isTrailer /\ c.size = 0 /\ c.at # "MetaSize")
      seen == IF zero = 0 THEN r.chunks ELSE SubSeq(r.chunks, 1, zero - 1)
      finished == zero > 0 \/ \E i \in DOMAIN seen : seen[i].isTrailer /\ seen[i].at = "Finish"
  IN  IF finished /\ r.left # <<>> THEN Bad
      ELSE [ok |-> TRUE, finished |-> finished, dec |-> r.dec,
            data |-> FlattenSeq([i \in DOMAIN seen |-> seen[i].data])]

\* What a turn does with the bytes it was given.  A call of trailer runs the
\* same turns, drops their data, and looks for the trailer section when data()
\* would return, be the body finished or not.  An error drops a stream that
\* was taken out of io; HttpBody::drop shuts one that was not.
Merged(b, bytes, trailer) ==
  \E r \in {decode(b.chunk, bytes)} :
    \E m \in {IF r.ok THEN merge_chunks(r) ELSE Bad} :
      LET c == [b EXCEPT !.chunk = m.dec]
          returns == m.finished \/ m.data # <<>>
          at == got.fed + Len(bytes)
      IN  IF ~m.ok
          THEN Fail(b, IF api = "async" /\ b.hasPre THEN "shut" ELSE "given back")
          ELSE /\ body' = IF m.finished THEN [c EXCEPT !.io = "given back"] ELSE c
               /\ got' = [got EXCEPT
                    !.data = IF trailer THEN @ ELSE @ \o m.data,
                    !.end = IF m.finished THEN "eof" ELSE @,
                    !.fed = at,
                    !.cut = @ \/ Cut(m.dec, at),
                    !.split = @ \/ Split(at),
                    !.skipped = @ \/ (trailer /\ m.data # <<>>),
                    !.asked = @ \/ (trailer /\ returns),
                    !.trailer = IF trailer /\ returns THEN get_trailer(m.dec) ELSE @]

ChunkFromPre(n, trailer) ==
  /\ Reading /\ body.kind = "Chunk" /\ body.hasPre
  /\ UNCHANGED <<api, response, wire, closed>>
  /\ Merged([body EXCEPT !.pre = From(@, FromPre(n) + 1), !.hasPre = FromPre(n) > 0],
            Copied(n), trailer)

ChunkRead(n, trailer) ==
  /\ Reading /\ body.kind = "Chunk" /\ ~body.hasPre
  /\ \E bytes \in Arrivals(n) :
       /\ wire' = From(wire, Len(bytes) + 1)
       /\ Merged(body, bytes, trailer)
  /\ UNCHANGED <<api, response, closed>>

ChunkEof ==
  /\ Reading /\ body.kind = "Chunk" /\ ~body.hasPre /\ Eof
  /\ Fail(body, "shut")
  /\ UNCHANGED <<api, response, wire, closed>>

\* trailer after the last data.
Trailer ==
  /\ body.kind = "Chunk" /\ ~got.asked /\ got.end = "eof"
  /\ got' = [got EXCEPT !.asked = TRUE, !.trailer = get_trailer(body.chunk)]
  /\ UNCHANGED <<api, response, wire, closed, body>>

-----------------------------------------------------------------------------
(* Faults, and the reader giving up.                                         *)

IoError ==
  /\ Reading /\ (body.kind = "Chunk" => ~body.hasPre)
  /\ body' = [body EXCEPT !.io = IF api = "async" THEN "shut" ELSE "given back"]
  /\ got' = [got EXCEPT !.end = "error", !.fault = TRUE]
  /\ UNCHANGED <<api, response, wire, closed>>

\* intercept_output refuses bytes that arrived; the stream is dropped.
Intercepted(n) ==
  /\ Reading /\ api = "async" /\ (body.kind = "Chunk" => ~body.hasPre)
  /\ \E bytes \in Arrivals(n) : wire' = From(wire, Len(bytes) + 1)
  /\ body' = [body EXCEPT !.io = "given back"]
  /\ got' = [got EXCEPT !.end = "error", !.fault = TRUE]
  /\ UNCHANGED <<api, response, closed>>

\* The server closes when it has sent everything, or earlier.
ServerCloses ==
  /\ ~closed
  /\ closed' = TRUE
  /\ \/ UNCHANGED <<wire, got>>
     \/ wire # <<>> /\ wire' = <<>> /\ got' = [got EXCEPT !.fault = TRUE]
  /\ UNCHANGED <<api, response, body>>

\* HttpBody::drop shuts a stream that is still held; the blocking HttpBody has
\* no destructor of its own.
Drop ==
  /\ Reading
  /\ body' = [body EXCEPT !.io = IF api = "async" THEN "shut" ELSE "given back"]
  /\ got' = [got EXCEPT !.end = "dropped"]
  /\ UNCHANGED <<api, response, wire, closed>>

Next ==
  \/ \E n \in Buffers :
       \/ TextFromPre(n) \/ PlainPartial(n) \/ TextRead(n) \/ TextEof(n)
       \/ UntilCloseRead(n) \/ UntilCloseEof(n)
       \/ ChunkFromPre(n, FALSE) \/ ChunkRead(n, FALSE)
       \/ Intercepted(n)
  \/ api = "async" /\ ~got.asked /\ ChunkFromPre(TRAILER_SIZE, TRUE)
  \/ api = "async" /\ ~got.asked /\ ChunkRead(TRAILER_SIZE, TRUE)
  \/ ChunkEof \/ Trailer \/ IoError \/ ServerCloses \/ Drop

Spec == Init /\ [][Next]_httpBodyVars

-----------------------------------------------------------------------------
\* The reader gets the content in order and nothing else, however the bytes
\* were split over the head, the reads and the reader's buffers.
BodyInOrder == ~got.skipped => IsPrefix(got.data, response.content)

\* When the body says it is over, the reader has all of it, unless the server
\* broke off a body whose length only the end of the connection gives.
BodyComplete ==
  (got.end = "eof" /\ ~got.skipped /\ response.good
     /\ (response.kind = "UntilClose" => ~got.fault))
  => got.data = response.content

\* A well-formed body that arrives whole is not refused, unless a read ended
\* right after the 0 of a last chunk with trailers (cut).
NoFalseError ==
  (got.end = "error" /\ response.good /\ ~got.cut) => got.fault

\* A connection that goes back to the pool after a body that ended normally
\* has nothing of that body left on it, unless a read ended behind the 0 of its
\* last chunk (cut): merge_chunks does not wait for the line ends there.
ReusedClean ==
  (body.io = "given back" /\ got.end = "eof" /\ response.good /\ ~got.cut
     /\ ~got.fault /\ response.kind # "UntilClose")
  => wire = <<>> /\ body.pre = <<>>

\* trailer, asked after the last data, returns the lines the server sent, unless
\* a read ended right after the 0 (cut) or inside one of their line ends (split),
\* where merge_trailer adds an empty line.
TrailerWhole ==
  (got.asked /\ got.end = "eof" /\ ~got.skipped /\ ~got.cut /\ ~got.split /\ response.good /\ body.kind = "Chunk")
  => got.trailer = response.lines
=============================================================================
