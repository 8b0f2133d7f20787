----------------------------- MODULE ChunkBody ------------------------------
(* ChunkBody of ylong_http/src/body/chunk.rs: the encoder of the chunked     *)
(* transfer coding.  A caller asks for the body with buffers of any length;  *)
(* each component of the coding (size, line ends, data, trailer section)     *)
(* keeps how far it got.  One step is one turn of the loop of data() or      *)
(* poll_data(); nothing else can run between two turns of a call.            *)
EXTENDS Integers, Sequences, SequencesExt

CONSTANTS
  CHUNK_SIZE,     \* 1024 in the code
  Base,           \* of the digits of a size: 16 in the code
  Bodies,         \* contents
  Trailers,       \* values of trailer_value
  Sizes,          \* lengths of the caller's buffers
  MaxOut          \* bound of the model: no call once more has been written

VARIABLES
  from,           \* "bytes", "reader" or "async": the origin of the data
  content,        \* what is to be sent
  unread,         \* what the reader still has
  chunk,          \* chunk_data and encode_status
  room,           \* room left in the caller's buffer
  out             \* what has been written, and how

CRLF == <<"cr", "lf">>
Lesser(a, b) == IF a < b THEN a ELSE b

\* format!("{:x}"): the digits of n, without leading zeros.
RECURSIVE Hex(_)
Hex(n) == IF n < Base THEN <<n>> ELSE Append(Hex(n \div Base), n % Base)

Init ==
  /\ from \in {"bytes", "reader", "async"}
  /\ content \in Bodies
  /\ unread = content
  /\ chunk = [data |-> "Partial", status |-> "MetaSize", count |-> 0, last |-> 0,
              buf |-> <<>>, flag |-> FALSE, part |-> 0]
  /\ room = 0
  /\ \E t \in Trailers : out = [bytes |-> <<>>, trailer |-> t, short |-> FALSE, cut |-> FALSE]

\* A call of data(); calls with an empty buffer return at once.
NewBuffer(n) ==
  /\ room = 0 /\ n > 0 /\ chunk.data # "Finish" /\ Len(out.bytes) <= MaxOut
  /\ room' = n
  /\ UNCHANGED <<from, content, unread, chunk, out>>

-----------------------------------------------------------------------------
(* The next chunk is taken when read_flag is not set.                        *)

Unflagged == room > 0 /\ chunk.data = "Partial" /\ ~chunk.flag

\* bytes_encode: the chunk number chunk_count of the bytes.
TakeBytes ==
  LET start == chunk.count * CHUNK_SIZE
      size == Lesser(Len(content) - start, CHUNK_SIZE)
  IN  /\ Unflagged /\ from = "bytes"
      /\ chunk' = [chunk EXCEPT !.flag = TRUE, !.last = size,
                                !.buf = SubSeq(content, start + 1, start + size)]
      /\ UNCHANGED <<from, content, unread, room, out>>

\* One read of the reader: any part of what it has, nothing only at its end.
TakeRead ==
  /\ Unflagged /\ from # "bytes"
  /\ \E size \in 0 .. Lesser(Len(unread), CHUNK_SIZE) :
       /\ size = 0 => unread = <<>>
       /\ chunk' = [chunk EXCEPT !.flag = TRUE, !.last = size,
                                 !.buf = SubSeq(unread, 1, size)]
       /\ unread' = SubSeq(unread, size + 1, Len(unread))
       /\ out' = [out EXCEPT !.short = @ \/ (size < CHUNK_SIZE /\ unread' # <<>>)]
  /\ UNCHANGED <<from, content, room>>

\* The asynchronous reader has nothing yet: the call returns what it wrote.
ReadPending ==
  /\ Unflagged /\ from = "async"
  /\ room' = 0
  /\ UNCHANGED <<from, content, unread, chunk, out>>

-----------------------------------------------------------------------------
(* WriteData::write: as much of src, from where it stopped, as there is room *)
(* for.  "keeps" tells whether the component keeps its place when the buffer *)
(* ends inside it; "done" is what the encoder becomes when it does not.      *)

Write(src, keeps, done) ==
  LET left == Len(src) - chunk.part
      n == Lesser(left, room)
      partial == [chunk EXCEPT !.part = IF keeps THEN @ + n ELSE 0]
  IN  /\ out' = [out EXCEPT !.bytes = @ \o SubSeq(src, chunk.part + 1, chunk.part + n),
                            !.cut = @ \/ (~keeps /\ room < left)]
      /\ room' = room - n
      /\ chunk' = IF room >= left THEN done ELSE partial
      /\ UNCHANGED <<from, content, unread>>

In(status) == room > 0 /\ chunk.data = "Partial" /\ chunk.flag /\ chunk.status = status
To(status) == [chunk EXCEPT !.status = status, !.part = 0]

\* The size of a full chunk is kept with its place; the size of a shorter one
\* is formatted anew on every call, from its first digit.
meta_size_encode == In("MetaSize") /\ Write(Hex(chunk.last), chunk.last = CHUNK_SIZE, To("MetaCrlf"))
meta_crlf_encode == In("MetaCrlf") /\ Write(CRLF, TRUE, To("Data"))
data_crlf_encode == In("DataCrlf") /\ Write(CRLF, TRUE, To("MetaSize"))

\* A chunk shorter than CHUNK_SIZE is the last one.
data_encode ==
  /\ In("Data") /\ chunk.last = CHUNK_SIZE
  /\ Write(chunk.buf, TRUE, [To("DataCrlf") EXCEPT !.flag = FALSE, !.count = 1])

tail_encode ==
  /\ In("Data") /\ chunk.last # CHUNK_SIZE
  /\ Write(chunk.buf, TRUE, [To("Finish") EXCEPT !.flag = FALSE, !.count = 0])

finish_encode ==
  /\ In("Finish")
  /\ Write(CRLF, TRUE, [To("Finish") EXCEPT !.data = "Complete", !.count = 0])

\* trailer_encode: the last chunk, the trailer section and the final line end.
LastChunk(trailer) == <<0>> \o CRLF \o trailer \o CRLF

trailer_encode ==
  /\ room > 0 /\ chunk.data = "Complete"
  /\ Write(LastChunk(out.trailer), TRUE, [To("Finish") EXCEPT !.data = "Finish"])

Next ==
  \/ \E n \in Sizes : NewBuffer(n)
  \/ TakeBytes \/ TakeRead \/ ReadPending
  \/ meta_size_encode \/ meta_crlf_encode \/ data_crlf_encode
  \/ data_encode \/ tail_encode \/ finish_encode \/ trailer_encode

-----------------------------------------------------------------------------
(* The coding of a content by the grammar: full chunks, then the rest if     *)
(* there is one, then the last chunk.                                        *)
RECURSIVE Coded(_, _)
Coded(bytes, trailer) ==
  LET n == Lesser(Len(bytes), CHUNK_SIZE)
  IN  IF n = 0 THEN LastChunk(trailer)
      ELSE Hex(n) \o CRLF \o SubSeq(bytes, 1, n) \o CRLF
             \o Coded(SubSeq(bytes, n + 1, Len(bytes)), trailer)

\* The cases the encoder handles: a body that does not end with a full chunk,
\* at most one full chunk of a byte slice, readers that fill the buffer, and no
\* call that ends inside the size of the last, shorter chunk.
Regular ==
  /\ Len(content) % CHUNK_SIZE # 0
  /\ from = "bytes" => Len(content) < 2 * CHUNK_SIZE
  /\ ~out.short /\ ~out.cut

\* However the caller's buffers split it, what is written is the coding of the
\* content, whole once data() reports the end (ChunkBody, EncodeStatus::encode).
ChunkedRight ==
  Regular => IF chunk.data = "Finish" THEN out.bytes = Coded(content, out.trailer)
                                      ELSE IsPrefix(out.bytes, Coded(content, out.trailer))
=============================================================================
